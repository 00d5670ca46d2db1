----------------------------- MODULE RuleTable ------------------------------
(***************************************************************************)
(* The rules that users set in the desktop program, about processes and    *)
(* about the heads of packets: what its two tables show, what the database *)
(* keeps, and what the SSDT, the WFP and the NDIS driver enforce.          *)
(*                                                                         *)
(* Nothing keeps the three together but the handlers of the windows, each  *)
(* of which does its part in the driver, the table and the database in     *)
(* turn.  Two drivers know a program by its name alone and delete by the   *)
(* beginning of it; a box in the table remembers the number its row had    *)
(* when it was made; the head that is deleted is the one in the input      *)
(* fields, the row the selected one; and the logon screen empties the      *)
(* drivers' lists, whoever else is at work.                                *)
(***************************************************************************)
EXTENDS Integers, Sequences, FiniteSets, SequencesExt, FiniteSetsExt

CONSTANTS
  Desktops,  (* processes of the desktop program                           *)
  Users, Nobody,
  Admins,    (* those it does not hold to the rules of others              *)
  Senior,    (* <<u, v>>: the level of u is above that of v                *)
  Justice,   (* what a user's role may ban: programs in a column, heads    *)
  Programs,  (* records of a name and a path                               *)
  Starts,    (* <<n, m>>: the name m starts with the name n                *)
  Heads,     (* an address, two ports, a URL and a protocol                *)
  Alike,     (* heads that have a column of the table in common            *)
  Same,      (* <<g, h>>: the driver takes the listed g for h              *)
  Faults,    (* what may fail while a handler runs                         *)
  MaxEvents  (* bound: handlers that have run, and failures in them         *)

Columns == {"open", "net"}
Names == {p.name : p \in Programs}

ASSUME RuleTableAssumption ==
  /\ Nobody \notin Users /\ Admins \subseteq Users /\ Senior \subseteq Users \X Users
  /\ Justice \in [Users -> SUBSET (Columns \union {"head"})]
  /\ Starts \subseteq Names \X Names /\ \A n \in Names : <<n, n>> \in Starts
  /\ Alike \union Same \subseteq Heads \X Heads /\ Heads \intersect Programs = {}
  /\ \A h \in Heads : <<h, h>> \in Alike \intersect Same
  /\ Faults \subseteq {"ssdt", "wfp", "ndis", "db"}
  /\ MaxEvents \in Nat

VARIABLES
  process,  \* the database: rows of an owner, a program and two flags
  nethead,  \* and rows of an owner and a head
  ssdt,     \* the names the SSDT driver does not let start
  wfp,      \* the names the WFP driver blocks, the newest first
  ndis,     \* the heads in the black list of the NDIS driver
  user,     \* whose desktop a process runs
  blacktw,  \* the table of each: rows of a program and two boxes
  headtw,   \* the table of heads of each
  events,   \* what the bound counts
  \* History, of each desktop.
  clean,    \* nobody else wrote the user's rules; no call failed, no box went astray
  alone,    \* and nothing was in the drivers, and nobody else wrote there
  kept,     \* no list was emptied, and no box failed to do what it shows
  lifted    \* what the deletion of something else may have taken with it

database == <<process, nethead>>
lists == <<ssdt, wfp, ndis>>
tables == <<blacktw, headtw>>
history == <<clean, alone, kept, lifted>>
vars == <<database, lists, user, tables, events, history>>

Row(p, open, net, key) == [prog |-> p, open |-> open, net |-> net, key |-> key]
Record(u, r) == [owner |-> u, prog |-> r.prog, open |-> r.open, net |-> r.net]
Running(d) == user[d] # Nobody
Shown(d) == {blacktw[d][i].prog : i \in DOMAIN blacktw[d]}

(* Of a list, what stands at some of its positions: SelectSeq, by position. *)
Picked(s, at) ==
  LET upto[n \in 0 .. Len(s)] ==
        IF n = 0 THEN <<>>
        ELSE IF n \in at THEN Append(upto[n - 1], s[n]) ELSE upto[n - 1]
  IN  upto[Len(s)]

Init ==
  /\ process = <<>> /\ nethead = <<>> /\ ssdt = {} /\ wfp = <<>> /\ ndis = <<>>
  /\ user = [d \in Desktops |-> Nobody]
  /\ blacktw = [d \in Desktops |-> <<>>] /\ headtw = blacktw
  /\ events = 0
  /\ clean = [d \in Desktops |-> FALSE] /\ alone = clean /\ kept = clean
  /\ lifted = [d \in Desktops |-> {}]

(* A handler runs, and something may fail in the course of it.             *)
Fault == Faults \union {"none"}
Event(f) == events' = events + (IF f = "none" THEN 1 ELSE 2) /\ events' <= MaxEvents

(* The process is gone; taken: what is lifted then.                        *)
Gone(d, taken) ==
  /\ user' = [user EXCEPT ![d] = Nobody]
  /\ blacktw' = [blacktw EXCEPT ![d] = <<>>] /\ headtw' = [headtw EXCEPT ![d] = <<>>]
  /\ clean' = [clean EXCEPT ![d] = FALSE] /\ alone' = [alone EXCEPT ![d] = FALSE]
  /\ kept' = [kept EXCEPT ![d] = FALSE] /\ lifted' = [taken EXCEPT ![d] = {}]

--------------------------------------------------------------------------
(* The drivers and the database. *)

(* The SSDT driver deletes every name that starts with the given one. *)
ForbidOpen(n, f) == ssdt' = IF f = "ssdt" THEN ssdt ELSE ssdt \union {n}
AllowOpen(n, f) == ssdt' = IF f = "ssdt" THEN ssdt ELSE {m \in ssdt : <<n, m>> \notin Starts}

(* The WFP driver, the newest rule whose name starts with the given one.   *)
ForbidNet(n, f) == wfp' = IF f = "wfp" THEN wfp ELSE <<n>> \o wfp
AllowNet(n, f) ==
  LET hits == {i \in DOMAIN wfp : <<n, wfp[i]>> \in Starts}
  IN wfp' = IF f = "wfp" \/ hits = {} THEN wfp ELSE RemoveAt(wfp, Min(hits))

Allow(col, n, f) == IF col = "open" THEN AllowOpen(n, f) /\ UNCHANGED wfp
                    ELSE AllowNet(n, f) /\ UNCHANGED ssdt
Forbid(col, n, f) == IF col = "open" THEN ForbidOpen(n, f) /\ UNCHANGED wfp
                     ELSE ForbidNet(n, f) /\ UNCHANGED ssdt
Driver(col) == IF col = "open" THEN "ssdt" ELSE "wfp"

insertProcess(d, r, f) ==
  process' = IF f = "db" THEN process ELSE Append(process, Record(user[d], r))
(* Mutant: the path is not compared. *)
deleteProcess_Names(d, r, f) ==
  process' = IF f = "db" THEN process ELSE Picked(process,
    {i \in DOMAIN process : ~(process[i].owner = user[d] /\ process[i].prog.name = r.prog.name)})
deleteProcess(d, r, f) ==
  process' = IF f = "db" THEN process
             ELSE Picked(process, {i \in DOMAIN process : process[i] # Record(user[d], r)})
updateProcess(d, p, col, status, f) ==
  process' = IF f = "db" THEN process ELSE [i \in DOMAIN process |->
    IF process[i].owner = user[d] /\ process[i].prog = p
    THEN [process[i] EXCEPT ![col] = status] ELSE process[i]]

(* A deletion in the NDIS driver.  The URL is copied out of a buffer that  *)
(* has been given back, when a head is added and when it is deleted: the   *)
(* driver may not find the head, and then refuses.                         *)
Refused == UNCHANGED ndis
Found(h) == \E i \in DOMAIN ndis : <<ndis[i], h>> \in Same /\ ndis' = RemoveAt(ndis, i)

(* What a deletion by d may take with it: what a desktop shows, itself or  *)
(* another one, and the driver does not tell from what is deleted.         *)
WithProgram(d, p) == [e \in Desktops |-> lifted[e] \union
  {q \in Shown(e) : <<p.name, q.name>> \in Starts /\ ~(e = d /\ q = p)}]
WithHead(d, h) == [e \in Desktops |-> lifted[e] \union
  {g \in Range(headtw[e]) : <<g, h>> \in Same /\ ~(e = d /\ g = h)}]

(* Something failed, or nothing did. *)
Failed(d, f) ==
  /\ clean' = [clean EXCEPT ![d] = @ /\ f = "none"]
  /\ alone' = [alone EXCEPT ![d] = @ /\ f = "none"]

--------------------------------------------------------------------------
(* The window: ProcessOpera_Setting. *)

(* comboboxChanged, for the i-th of the rows: the program that is banned   *)
(* or allowed is that of the row with the number the box was made with.    *)
(* Without such a row the program reads a null pointer and ends.           *)
comboboxChanged(d, rows, i, col, f) ==
  LET k == rows[i].key + 1
      r == rows[k]
      astray == k # i
  IN IF k > Len(rows)
     THEN Gone(d, lifted) /\ UNCHANGED <<database, lists>>
     ELSE /\ blacktw' = [blacktw EXCEPT ![d] = rows]
          /\ UNCHANGED <<nethead, ndis, user, headtw>>
          /\ IF r[col] THEN Forbid(col, r.prog.name, f) /\ UNCHANGED lifted
             ELSE Allow(col, r.prog.name, f) /\ lifted' = WithProgram(d, r.prog)
          /\ updateProcess(d, r.prog, col, r[col], f)
          /\ Failed(d, IF astray THEN "astray" ELSE f)
          /\ kept' = [kept EXCEPT ![d] = @ /\ ~astray /\ f # Driver(col)]

(* A box is turned. *)
Turn(d) == \E i \in DOMAIN blacktw[d], col \in Columns, f \in Fault :
  /\ Event(f)
  /\ comboboxChanged(d, [blacktw[d] EXCEPT ![i][col] = ~@], i, col, f)

(* Mutant: the row is inserted although the driver has refused the rule.   *)
InsertForbid_Always(d, p, col, f) ==
  /\ Forbid(col, p.name, f)
  /\ blacktw' = [blacktw EXCEPT ![d] = Append(@, Row(p, col = "open", col = "net", Len(@)))]
(* Mutant: the boxes get the number of the row above. *)
InsertForbid_Above(d, p, col, f) ==
  /\ Forbid(col, p.name, f)
  /\ blacktw' = [blacktw EXCEPT ![d] =
       IF f = Driver(col) THEN @ ELSE Append(@, Row(p, col = "open", col = "net", Len(@) - 1))]
(* InsertForbidOpenprocess and InsertForbidNetprocess, of what is not in   *)
(* the table yet: first the driver, then the row.                          *)
InsertForbid(d, p, col, f) ==
  /\ Forbid(col, p.name, f)
  /\ blacktw' = [blacktw EXCEPT ![d] =
       IF f = Driver(col) THEN @ ELSE Append(@, Row(p, col = "open", col = "net", Len(@)))]

(* forbidProcessOpen and forbidProcessNet.  A program that the table shows *)
(* is not inserted again: its box is turned on if it is off.               *)
forbidProcess(d) == Running(d) /\ \E p \in Programs, col \in Justice[user[d]] \ {"head"}, f \in Fault :
  LET at == {i \in DOMAIN blacktw[d] : blacktw[d][i].prog = p} IN
  /\ Event(f)
  /\ \/ /\ at = {}
        /\ InsertForbid(d, p, col, f)
        /\ insertProcess(d, Row(p, col = "open", col = "net", 0), f)
        /\ Failed(d, f)
        /\ UNCHANGED <<nethead, ndis, user, headtw, kept, lifted>>
     \/ \E i \in at :
        /\ ~blacktw[d][i][col]
        /\ comboboxChanged(d, [blacktw[d] EXCEPT ![i][col] = TRUE], i, col, f)

(* Mutant: only the ban the row shows is lifted. *)
allowProcess_Shown(d) == \E i \in DOMAIN blacktw[d], f \in Fault :
  LET r == blacktw[d][i] IN
  /\ Event(f)
  /\ blacktw' = [blacktw EXCEPT ![d] = RemoveAt(@, i)]
  /\ IF r.net THEN AllowNet(r.prog.name, f) /\ UNCHANGED ssdt
     ELSE AllowOpen(r.prog.name, f) /\ UNCHANGED wfp
  /\ lifted' = WithProgram(d, r.prog)
  /\ deleteProcess(d, r, f)
  /\ Failed(d, f)
  /\ UNCHANGED <<nethead, ndis, user, headtw, kept>>
(* A row is deleted.  Both drivers are told, whatever its boxes show; the  *)
(* database only loses rows with the same flags.                           *)
allowProcess(d) == \E i \in DOMAIN blacktw[d], f \in Fault :
  LET r == blacktw[d][i] IN
  /\ Event(f)
  /\ blacktw' = [blacktw EXCEPT ![d] = RemoveAt(@, i)]
  /\ AllowNet(r.prog.name, f) /\ AllowOpen(r.prog.name, f)
  /\ lifted' = WithProgram(d, r.prog)
  /\ deleteProcess(d, r, f)
  /\ Failed(d, f)
  /\ UNCHANGED <<nethead, ndis, user, headtw, kept>>

--------------------------------------------------------------------------
(* The other window: NetHeadOpera_Setting. *)

(* forbidNethead.  A head that has a column in common with one of the      *)
(* table is taken for a repetition.                                        *)
forbidNethead(d) == Running(d) /\ \E h \in Heads, f \in Fault :
  /\ "head" \in Justice[user[d]]
  /\ \A i \in DOMAIN headtw[d] : <<headtw[d][i], h>> \notin Alike
  /\ Event(f)
  /\ IF f = "ndis" THEN UNCHANGED <<ndis, headtw>>
     ELSE ndis' = <<h>> \o ndis /\ headtw' = [headtw EXCEPT ![d] = Append(@, h)]
  /\ nethead' = IF f = "db" THEN nethead ELSE Append(nethead, [owner |-> user[d], head |-> h])
  /\ Failed(d, f)
  /\ UNCHANGED <<process, ssdt, wfp, user, blacktw, kept, lifted>>

(* allowNethead: the head h of the input fields, and the selected row.     *)
(* Without one the program reads the first item of an empty list and ends. *)
allowNethead(d) == Running(d) /\ \E h \in Heads, i \in 0 .. Len(headtw[d]), f \in Fault :
  /\ "head" \in Justice[user[d]]
  /\ Event(f)
  /\ \/ /\ Refused /\ Failed(d, f)
        /\ UNCHANGED <<database, ssdt, wfp, user, tables, kept, lifted>>
     \/ /\ f # "ndis" /\ i = 0 /\ Found(h) /\ Gone(d, WithHead(d, h))
        /\ UNCHANGED <<database, ssdt, wfp>>
     \/ /\ f # "ndis" /\ i # 0 /\ Found(h)
        /\ headtw' = [headtw EXCEPT ![d] = RemoveAt(@, i)]
        /\ nethead' = IF f = "db" THEN nethead
                      ELSE Picked(nethead, {k \in DOMAIN nethead :
                                             nethead[k] # [owner |-> user[d], head |-> h]})
        /\ lifted' = WithHead(d, h)
        /\ Failed(d, IF headtw[d][i] # h THEN "astray" ELSE f)
        /\ kept' = [kept EXCEPT ![d] = @ /\ headtw[d][i] = h]
        /\ UNCHANGED <<process, ssdt, wfp, user, blacktw>>

--------------------------------------------------------------------------
(* Sessions. *)

(* The rules a desktop sends when it starts: the user's own, and, unless   *)
(* an administrator's, those of the seniors.  The table stays empty.       *)
Own(u, rows) == Picked(rows, {i \in DOMAIN rows : rows[i].owner = u})
Seniors(u, rows) ==
  Picked(rows, {i \in DOMAIN rows : u \notin Admins /\ <<rows[i].owner, u>> \in Senior})
Loaded(u, rows, f) == IF f = "db" THEN <<>> ELSE Own(u, rows) \o Seniors(u, rows)
Banned(rules, col) == LET banned == Picked(rules, {i \in DOMAIN rules : rules[i][col]})
                      IN [i \in DOMAIN banned |-> banned[i].prog.name]

Start(d) == \E u \in Users, f \in Fault :
  LET rules == Loaded(u, process, f)
      heads == Loaded(u, nethead, f)
      others == {e \in Desktops : Running(e)}
  IN
  /\ ~Running(d)
  /\ Event(f)
  /\ user' = [user EXCEPT ![d] = u]
  /\ ssdt' = IF f = "ssdt" THEN ssdt ELSE ssdt \union Range(Banned(rules, "open"))
  /\ wfp' = IF f = "wfp" THEN wfp ELSE Reverse(Banned(rules, "net")) \o wfp
  /\ ndis' = IF f = "ndis" THEN ndis
             ELSE Reverse([i \in DOMAIN heads |-> heads[i].head]) \o ndis
  /\ clean' = [e \in Desktops |->
       IF e = d THEN /\ Own(u, process) = <<>> /\ Own(u, nethead) = <<>>
                     /\ \A o \in others : user[o] # u
       ELSE clean[e] /\ user[e] # u]
  /\ alone' = [e \in Desktops |->
       e = d /\ others = {} /\ ssdt' = {} /\ wfp' = <<>> /\ ndis' = <<>>]
  /\ kept' = [kept EXCEPT ![d] = TRUE]
  /\ UNCHANGED <<database, tables, lifted>>

(* An administrator closes the window, or the session ends: the drivers    *)
(* are not told.                                                           *)
End(d) == Running(d) /\ Gone(d, lifted) /\ UNCHANGED <<database, lists, events>>

(* Somebody logs on or unlocks the screen, and what the last user left in  *)
(* the drivers is cleared; one that does not open is passed over.          *)
clearAll == \E f \in Fault \ {"db"} :
  /\ Event(f)
  /\ ssdt' = IF f = "ssdt" THEN ssdt ELSE {}
  /\ wfp' = IF f = "wfp" THEN wfp ELSE <<>>
  /\ ndis' = IF f = "ndis" THEN ndis ELSE <<>>
  /\ kept' = [d \in Desktops |-> FALSE] /\ alone' = kept'
  /\ UNCHANGED <<database, user, tables, clean, lifted>>

Next ==
  \/ clearAll
  \/ \E d \in Desktops :
       \/ Start(d) \/ End(d)
       \/ Turn(d) \/ forbidProcess(d) \/ allowProcess(d)
       \/ forbidNethead(d) \/ allowNethead(d)

Spec == Init /\ [][Next]_vars

--------------------------------------------------------------------------
(* Properties. *)

(* Every variable keeps its type.  A box may have the number of a row      *)
(* below its own, but never that of one above it.                          *)
TypeOK ==
  /\ \A i \in DOMAIN process : process[i] \in
       [owner : Users, prog : Programs, open : BOOLEAN, net : BOOLEAN]
  /\ \A i \in DOMAIN nethead : nethead[i] \in [owner : Users, head : Heads]
  /\ ssdt \subseteq Names /\ Range(wfp) \subseteq Names /\ Range(ndis) \subseteq Heads
  /\ user \in [Desktops -> Users \union {Nobody}]
  /\ \A d \in Desktops : Range(headtw[d]) \subseteq Heads /\ \A i \in DOMAIN blacktw[d] :
       /\ blacktw[d][i].prog \in Programs
       /\ blacktw[d][i].open \in BOOLEAN /\ blacktw[d][i].net \in BOOLEAN
       /\ blacktw[d][i].key \in Nat /\ blacktw[d][i].key >= i - 1
  /\ events \in 0 .. MaxEvents

(* The database keeps what the tables show, row by row: if the user had no *)
(* rules before, has no second desktop, no call failed and no row but the  *)
(* one that was meant was changed, the next session loads exactly these.   *)
DatabaseIsTable == \A d \in Desktops : clean[d] =>
  /\ Own(user[d], process) = [i \in DOMAIN blacktw[d] |-> Record(user[d], blacktw[d][i])]
  /\ Own(user[d], nethead) = [i \in DOMAIN headtw[d] |-> [owner |-> user[d], head |-> headtw[d][i]]]

(* A ban a table shows is enforced, also next to other desktops, until     *)
(* somebody logs on, a box fails or changes another row, or something is   *)
(* allowed that a driver cannot tell from it.                              *)
BansAreEnforced == \A d \in Desktops : kept[d] =>
  /\ \A i \in DOMAIN blacktw[d] : LET r == blacktw[d][i] IN r.prog \notin lifted[d] =>
       /\ r.open => r.prog.name \in ssdt
       /\ r.net => r.prog.name \in Range(wfp)
  /\ Range(headtw[d]) \ lifted[d] \subseteq Range(ndis)

(* Nothing is enforced that no table shows: a desktop that starts with     *)
(* nothing in the drivers, and has them to itself, has in their lists what *)
(* its rows say, as often as they say it.                                  *)
OnlyShownIsEnforced == \A d \in Desktops : (clean[d] /\ alone[d] /\ lifted[d] = {}) =>
  LET banned(col, n) == {i \in DOMAIN blacktw[d] : blacktw[d][i][col] /\ blacktw[d][i].prog.name = n}
      times(x, s) == Cardinality({i \in DOMAIN s : s[i] = x})
  IN /\ \A n \in Names : /\ n \in ssdt <=> banned("open", n) # {}
                         /\ times(n, wfp) = Cardinality(banned("net", n))
     /\ \A h \in Heads : times(h, ndis) = times(h, headtw[d])
=============================================================================
