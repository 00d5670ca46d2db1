---------------------------- MODULE Credentials -----------------------------
(***************************************************************************)
(* How a user gets from the logon screen to the desktop program: the       *)
(* credential provider asks the SSDT driver for the database, checks the   *)
(* name and the password there, and hands them to the driver; the desktop  *)
(* program asks the driver for them when it starts, and checks them again. *)
(*                                                                         *)
(* The driver answers several callers at once, without a lock, and through *)
(* buffers and a flag they all share.  It may look up the registry while   *)
(* the owner of the database is still writing it.                          *)
(***************************************************************************)
EXTENDS Naturals, Sequences

CONSTANTS
  CP,        (* the logon screen                                           *)
  Desktops,  (* processes that run the desktop program                     *)
  Users, NoUser, (* names in the database; a password is named by its user *)
  Owners,    (* those that can create users                                *)
  Local,     (* the database server is on this machine                     *)
  MaxEvents  (* bound: logons, starts of the program and restarts          *)

ASSUME CredentialsAssumption ==
  /\ CP \notin Desktops /\ NoUser \notin Users /\ Owners \subseteq Users
  /\ Local \in BOOLEAN
  /\ MaxEvents \in Nat

VARIABLES
  reg,       \* the registry: whether dbhost and dbname are there
  pc2r,      \* the driver's buffer for the desktop
  pRTC,      \* the driver's buffer for the logon screen
  SkyEyeGetReg, \* the flag that chooses between them
  st,        \* what each client is doing and what it has got
  events,    \* what the bound counts
  undefined, \* memory was used after it was gone: the model stops
  \* History.
  latest,    \* the last user that was handed over
  offered,   \* the users handed over when, or while, a desktop asked
  crowded,   \* clients with an answer that another question or a logon
             \* disturbed
  refused    \* the registry has refused a value

driverVars == <<pc2r, pRTC, SkyEyeGetReg>>
history == <<latest, offered, crowded, refused>>
vars == <<reg, driverVars, st, events, undefined, history>>

Clients == {CP} \union Desktops
Strings == {"dbhost", "dbname"}
Nothing == [v \in Strings |-> "none"]

(* Where a client stands.  An ioctl is one to its driver until it returns. *)
Query == {"readHost", "storeHost", "readName", "storeName"}
GetUp == {"copyUser", "copyPassword", "copyHost", "copyName", "lowerFlag"} \union Query
GetReg == {"copyRegHost", "copyRegName"} \union Query
Asks(c) == st[c].at \in IF c = CP THEN GetReg ELSE GetUp
Idle == [at |-> "idle", user |-> NoUser, pass |-> NoUser, got |-> Nothing,
         todo |-> <<>>, isAdmin |-> FALSE]
NewPc2r == [live |-> TRUE, user |-> NoUser, pass |-> NoUser,
            dbhost |-> "none", dbname |-> "none"]

Init ==
  /\ reg = [v \in Strings |-> FALSE]
  /\ pc2r = NewPc2r /\ pRTC = Nothing /\ SkyEyeGetReg = FALSE
  /\ st = [c \in Clients |-> Idle]
  /\ events = 0
  /\ undefined = FALSE
  /\ latest = NoUser /\ offered = [d \in Desktops |-> {}] /\ crowded = {}
  /\ refused = FALSE

(* A client goes on; a desktop ends; something is begun.                   *)
Goes(c, new) == st' = [st EXCEPT ![c] = new]
To(c, at) == Goes(c, [st[c] EXCEPT !.at = at])
Leaves(d) ==
  /\ Goes(d, Idle)
  /\ offered' = [offered EXCEPT ![d] = {}] /\ crowded' = crowded \ {d}
Event == events < MaxEvents /\ events' = events + 1

(* A string of ten '#' ends where it begins.  What the logon screen gets   *)
(* is not terminated: what follows in memory may make it a wrong one.      *)
(* Copying an empty string writes nothing: a desktop gets what the memory  *)
(* of the answer held before.                                              *)
Unterminated(s) == {s, "wrong"}
Copied(s) == IF s = "empty" THEN {"none", "right", "wrong"} ELSE {s}

(* Whether the database lets somebody in. *)
OpenDB(user, pass, got) ==
  /\ user # NoUser /\ pass = user
  /\ got.dbhost = "right" \/ (got.dbhost = "none" /\ Local)
  /\ got.dbname # "wrong"

(* A question to the driver begins. *)
Overlaps(c) == {o \in Clients \ {c} : Asks(o)}
Crowded(c) == crowded' = (crowded \ {c}) \union
  IF Overlaps(c) = {} THEN {} ELSE {c} \union Overlaps(c)

--------------------------------------------------------------------------
(* QueryDBKey, for GET_REG and for GET_UP. *)

Queried(c) == IF c = CP THEN "copyRegHost" ELSE "copyHost"

Read(c, at, v, next) ==
  /\ st[c].at = at
  /\ To(c, IF reg[v] THEN next ELSE Queried(c))
  /\ UNCHANGED <<reg, driverVars, events, undefined, history>>

ReadHost(c) == Read(c, "readHost", "dbhost", "storeHost")
ReadName(c) == Read(c, "readName", "dbname", "storeName")

Store(c, at, v, next) ==
  /\ st[c].at = at
  /\ To(c, next)
  /\ IF SkyEyeGetReg
     THEN pc2r' = [pc2r EXCEPT ![v] = "right"] /\ undefined' = ~pc2r.live /\ UNCHANGED pRTC
     ELSE pRTC' = [pRTC EXCEPT ![v] = "right"] /\ UNCHANGED <<pc2r, undefined>>
  /\ UNCHANGED <<reg, SkyEyeGetReg, events, history>>

StoreHost(c) == Store(c, "storeHost", "dbhost", "readName")
StoreName(c) == Store(c, "storeName", "dbname", Queried(c))

--------------------------------------------------------------------------
(* The logon screen: KerbInteractiveUnlockLogonInit. *)

(* Something is entered.  Without the driver there is no answer.           *)
Logon == \E opens \in BOOLEAN :
  /\ st[CP] = Idle
  /\ Event
  /\ To(CP, IF opens THEN "readHost" ELSE "openDB")
  /\ IF opens THEN Crowded(CP) ELSE UNCHANGED crowded
  /\ UNCHANGED <<reg, driverVars, undefined, latest, offered, refused>>

(* The answer of GET_REG: two loops over the buffer. *)
CopyRegHost == \E host \in Unterminated(pRTC["dbhost"]) :
  /\ st[CP].at = "copyRegHost"
  /\ Goes(CP, [st[CP] EXCEPT !.at = "copyRegName", !.got = [Nothing EXCEPT !["dbhost"] = host]])
  /\ UNCHANGED <<reg, driverVars, events, undefined, history>>

CopyRegName == \E name \in Unterminated(pRTC["dbname"]) :
  /\ st[CP].at = "copyRegName"
  /\ Goes(CP, [st[CP] EXCEPT !.at = "openDB", !.got["dbname"] = name])
  /\ UNCHANGED <<reg, driverVars, events, undefined, history>>

(* What was entered, the name and the password of one user or of two, is   *)
(* not looked at before.                                                   *)
CheckLogon == \E user, pass \in Users :
  /\ st[CP].at = "openDB"
  /\ \/ /\ OpenDB(user, pass, st[CP].got)
        /\ Goes(CP, [Idle EXCEPT !.at = "send", !.user = user, !.pass = pass])
     \/ Goes(CP, Idle)
  /\ crowded' = crowded \ {CP}
  /\ UNCHANGED <<reg, driverVars, events, undefined, latest, offered, refused>>

(* SEND_UP: the buffer is freed, allocated anew and zeroed, set to '#',    *)
(* and filled.  Who has copied the host from the old one and not the name  *)
(* gets the two from two buffers.                                          *)
FreePc2r ==
  /\ st[CP].at = "send"
  /\ pc2r' = [pc2r EXCEPT !.live = FALSE]
  /\ latest' = st[CP].user
  /\ offered' = [d \in Desktops |-> IF Asks(d) THEN offered[d] \union {st[CP].user} ELSE offered[d]]
  /\ crowded' = crowded \union {d \in Desktops : st[d].at = "copyName"}
  /\ To(CP, "allocate")
  /\ UNCHANGED <<reg, pRTC, SkyEyeGetReg, events, undefined, refused>>

AllocatePc2r ==
  /\ st[CP].at = "allocate"
  /\ pc2r' = [NewPc2r EXCEPT !.dbhost = "empty", !.dbname = "empty"]
  /\ To(CP, "clear")
  /\ UNCHANGED <<reg, pRTC, SkyEyeGetReg, events, undefined, history>>

ClearPc2r ==
  /\ st[CP].at = "clear"
  /\ pc2r' = [pc2r EXCEPT !.dbhost = "none", !.dbname = "none"]
  /\ To(CP, "fillUser")
  /\ UNCHANGED <<reg, pRTC, SkyEyeGetReg, events, undefined, history>>

FillUser ==
  /\ st[CP].at = "fillUser"
  /\ pc2r' = [pc2r EXCEPT !.user = st[CP].user]
  /\ To(CP, "fillPassword")
  /\ UNCHANGED <<reg, pRTC, SkyEyeGetReg, events, undefined, history>>

FillPassword ==
  /\ st[CP].at = "fillPassword"
  /\ pc2r' = [pc2r EXCEPT !.pass = st[CP].pass]
  /\ Goes(CP, Idle)
  /\ UNCHANGED <<reg, pRTC, SkyEyeGetReg, events, undefined, history>>

--------------------------------------------------------------------------
(* The desktop program: the constructor of MainWindow. *)

(* getUserPassword; nothing is known if the driver does not open.          *)
Start(d) == \E opens \in BOOLEAN :
  /\ st[d] = Idle
  /\ Event
  /\ IF opens
     THEN /\ To(d, "copyUser") /\ SkyEyeGetReg' = TRUE /\ Crowded(d)
          /\ offered' = [offered EXCEPT ![d] = {latest}]
     ELSE To(d, "dialog") /\ UNCHANGED <<SkyEyeGetReg, crowded, offered>>
  /\ UNCHANGED <<reg, pc2r, pRTC, undefined, latest, refused>>

(* Mutant: the host is copied for the user. *)
CopyUser_Host(d) ==
  /\ st[d].at = "copyUser"
  /\ undefined' = ~pc2r.live
  /\ Goes(d, [st[d] EXCEPT !.at = "copyPassword", !.user = pc2r.dbhost])
  /\ UNCHANGED <<reg, driverVars, events, history>>
(* Of a name or a password that is being written nothing is there yet:     *)
(* what is not a user's is as good as none.                                *)
CopyUser(d) ==
  /\ st[d].at = "copyUser"
  /\ undefined' = ~pc2r.live
  /\ Goes(d, [st[d] EXCEPT !.at = "copyPassword", !.user = pc2r.user])
  /\ UNCHANGED <<reg, driverVars, events, history>>

CopyPassword(d) ==
  /\ st[d].at = "copyPassword"
  /\ undefined' = ~pc2r.live
  /\ Goes(d, [st[d] EXCEPT !.at = "readHost", !.pass = pc2r.pass])
  /\ UNCHANGED <<reg, driverVars, events, history>>

(* Two loops over the buffer, between which it may be replaced; whoever    *)
(* copies the host while it is zeroed has it from nowhere.                 *)
CopyHost(d) == \E host \in Copied(pc2r.dbhost) :
  /\ st[d].at = "copyHost"
  /\ undefined' = ~pc2r.live
  /\ Goes(d, [st[d] EXCEPT !.at = "copyName", !.got = [Nothing EXCEPT !["dbhost"] = host]])
  /\ crowded' = IF st[CP].at = "clear" THEN crowded \union {d} ELSE crowded
  /\ UNCHANGED <<reg, driverVars, events, latest, offered, refused>>

CopyName(d) == \E name \in Copied(pc2r.dbname) :
  /\ st[d].at = "copyName"
  /\ undefined' = ~pc2r.live
  /\ Goes(d, [st[d] EXCEPT !.at = "lowerFlag", !.got["dbname"] = name])
  /\ UNCHANGED <<reg, driverVars, events, history>>

(* The flag is taken down, and the question is answered; with neither host *)
(* nor name the dialog appears.                                            *)
LowerFlag(d) ==
  /\ st[d].at = "lowerFlag"
  /\ SkyEyeGetReg' = FALSE
  /\ IF st[d].got = Nothing THEN To(d, "dialog") /\ crowded' = crowded \ {d}
     ELSE To(d, "openDB") /\ UNCHANGED crowded
  /\ UNCHANGED <<reg, pc2r, pRTC, events, undefined, latest, offered, refused>>

(* Mutant: the host is stored before the name. *)
VerifyIt_HostFirst(d) == \E owner \in Owners :
  /\ st[d].at = "dialog"
  /\ Goes(d, [st[d] EXCEPT !.at = "setReg", !.user = owner, !.pass = owner,
                !.todo = <<"dbhost", "dbname">>])
  /\ UNCHANGED <<reg, driverVars, events, undefined, history>>
(* Verify::VerifyIt.  SET_REG stores the name before the host.             *)
VerifyIt(d) == \E owner \in Owners :
  /\ st[d].at = "dialog"
  /\ Goes(d, [st[d] EXCEPT !.at = "setReg", !.user = owner, !.pass = owner,
                !.todo = <<"dbname", "dbhost">>])
  /\ UNCHANGED <<reg, driverVars, events, undefined, history>>

(* The registry may refuse each of them; what SET_REG answers only says    *)
(* whether it took the account, which comes last.                          *)
SetReg(d) == \E accepted, answer \in BOOLEAN :
  /\ st[d].at = "setReg"
  /\ reg' = [reg EXCEPT ![Head(st[d].todo)] = @ \/ accepted]
  /\ refused' = (refused \/ ~accepted)
  /\ Goes(d, IF Len(st[d].todo) > 1 THEN [st[d] EXCEPT !.todo = Tail(@)]
             ELSE IF answer
             THEN [st[d] EXCEPT !.at = "openDB", !.todo = <<>>, !.isAdmin = TRUE,
                     !.got = [dbhost |-> "right", dbname |-> "right"]]
             ELSE [Idle EXCEPT !.at = "dialog"])
  /\ UNCHANGED <<driverVars, events, undefined, latest, offered, crowded>>

(* Mutant: what OpenDB returns is not looked at. *)
Login_Unchecked(d) ==
  /\ st[d].at = "openDB"
  /\ Goes(d, [st[d] EXCEPT !.at = "running", !.got = Nothing, !.isAdmin = @ \/ st[d].user \in Owners])
  /\ crowded' = crowded \ {d}
  /\ UNCHANGED <<reg, driverVars, events, undefined, latest, offered, refused>>
(* OpenDB and verifyDB; from here on the strings are not used any more.    *)
Login(d) ==
  /\ st[d].at = "openDB"
  /\ OpenDB(st[d].user, st[d].pass, st[d].got)
  /\ Goes(d, [st[d] EXCEPT !.at = "running", !.got = Nothing, !.isAdmin = @ \/ st[d].user \in Owners])
  /\ crowded' = crowded \ {d}
  /\ UNCHANGED <<reg, driverVars, events, undefined, latest, offered, refused>>

(* The dialog is cancelled, the drivers are not as expected, or the        *)
(* database does not open.                                                 *)
Quits(d) ==
  /\ st[d].at \in {"dialog", "openDB"}
  /\ Leaves(d)
  /\ UNCHANGED <<reg, driverVars, events, undefined, latest, refused>>

(* closeEvent: only an owner gets the window closed.                       *)
Close(d) ==
  /\ st[d].at = "running" /\ st[d].isAdmin
  /\ Leaves(d)
  /\ UNCHANGED <<reg, driverVars, events, undefined, latest, refused>>

--------------------------------------------------------------------------
(* The machine is started again: the registry is all that remains.         *)
Restart ==
  /\ Event
  /\ pc2r' = NewPc2r /\ pRTC' = Nothing /\ SkyEyeGetReg' = FALSE
  /\ st' = [c \in Clients |-> Idle]
  /\ latest' = NoUser /\ offered' = [d \in Desktops |-> {}] /\ crowded' = {}
  /\ UNCHANGED <<reg, refused, undefined>>

LogonScreen ==
  \/ Logon \/ CopyRegHost \/ CopyRegName \/ CheckLogon
  \/ FreePc2r \/ AllocatePc2r \/ ClearPc2r \/ FillUser \/ FillPassword

Desktop(d) ==
  \/ Start(d) \/ CopyUser(d) \/ CopyPassword(d) \/ CopyHost(d) \/ CopyName(d) \/ LowerFlag(d)
  \/ VerifyIt(d) \/ SetReg(d) \/ Login(d) \/ Quits(d) \/ Close(d)

QueryDBKey(c) == ReadHost(c) \/ ReadName(c) \/ StoreHost(c) \/ StoreName(c)

Next ==
  /\ ~undefined
  /\ \/ LogonScreen \/ Restart
     \/ \E d \in Desktops : Desktop(d)
     \/ \E c \in Clients : QueryDBKey(c)

Spec == Init /\ [][Next]_vars

--------------------------------------------------------------------------
(* Properties. *)

Known == Users \union {NoUser}
Places == GetUp \union GetReg \union
  {"idle", "openDB", "send", "allocate", "clear", "fillUser", "fillPassword",
   "dialog", "setReg", "running"}
ClientState == [at : Places, user : Known, pass : Known,
  got : [Strings -> {"none", "right", "wrong"}], todo : Seq(Strings), isAdmin : BOOLEAN]
UserBuffer == [live : BOOLEAN, user : Known, pass : Known,
  dbhost : {"none", "right", "empty"}, dbname : {"none", "right", "empty"}]

(* Every variable keeps its type. *)
TypeOK ==
  /\ reg \in [Strings -> BOOLEAN]
  /\ pc2r \in UserBuffer
  /\ pRTC \in [Strings -> {"none", "right"}] /\ SkyEyeGetReg \in BOOLEAN
  /\ st \in [Clients -> ClientState]
  /\ undefined \in BOOLEAN /\ refused \in BOOLEAN
  /\ latest \in Known /\ offered \in [Desktops -> SUBSET Known]
  /\ crowded \subseteq Clients /\ events \in 0 .. MaxEvents

(* Whoever a desktop runs as, the database knows the password it got, and  *)
(* the user was handed over by the logon screen when the desktop asked or  *)
(* while it did, or has set up the machine as an owner: not even a logon   *)
(* that replaces the buffer in the middle of the question mixes two users. *)
RunsAsWhoLoggedOn == \A d \in Desktops : (~undefined /\ st[d].at = "running") =>
  /\ st[d].pass = st[d].user
  /\ st[d].user \in offered[d] \/ (st[d].isAdmin /\ st[d].user \in Owners)

(* Who gets the host of the database gets its name as well, although the   *)
(* registry is read while it is written: it is read in the opposite order. *)
(* A logon that replaces the buffer does not part them either, unless it   *)
(* does so between the two loops that copy them, or while the first runs.  *)
(* (The registry must not have refused a value, and no other question may  *)
(* have been in the driver: its buffers and its flag are for one.)         *)
HostComesWithName == \A c \in Clients :
  (~undefined /\ st[c].at \notin {"copyName", "copyRegName"} /\ c \notin crowded /\ ~refused
    /\ st[c].got["dbhost"] = "right") => st[c].got["dbname"] # "none"
=============================================================================
