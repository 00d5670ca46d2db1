-------------------------- MODULE CredentialsProofs --------------------------
(* Machine-checked: the drivers' shared buffers and flag mix no two users, *)
(* and part the host from its name only for whom the property leaves out,  *)
(* for any number of users, desktops, logons and restarts.                 *)
EXTENDS Credentials, TLAPS

-----------------------------------------------------------------------------
(* The inductive invariants. *)

(* What SET_REG still has to store: the name and the host, or the host.    *)
StoresInOrder == \A d \in Desktops : st[d].at = "setReg" =>
  st[d].todo \in {<<"dbname", "dbhost">>, <<"dbhost">>}

(* The buffer is gone between its release and its allocation.  It holds    *)
(* nothing or what was handed over last.                                   *)
BufferOfLatest ==
  /\ ~pc2r.live <=> st[CP].at = "allocate"
  /\ pc2r.live => {pc2r.user, pc2r.pass} \subseteq {NoUser, latest}

(* The logon screen hands over what the database has accepted.             *)
HandsOver ==
  /\ st[CP].at \in {"send", "allocate", "clear", "fillUser", "fillPassword"}
       => st[CP].pass = st[CP].user
  /\ st[CP].at \in {"allocate", "clear", "fillUser", "fillPassword"} => st[CP].user = latest

(* Who asks is offered what is handed over last, and what a client has got *)
(* was offered to it, or is what it has set up the machine with.           *)
Offered == \A d \in Desktops : Asks(d) => latest \in offered[d]
Got == undefined \/ \A d \in Desktops :
  /\ st[d].at = "setReg" => st[d].pass = st[d].user /\ st[d].user \in Owners
  /\ st[d].at \in {"copyPassword", "copyHost", "copyName", "lowerFlag", "openDB", "running"} \union Query =>
       \/ st[d].user \in offered[d] \union {NoUser}
       \/ st[d].isAdmin /\ st[d].user \in Owners
  /\ st[d].at = "running" => st[d].pass = st[d].user /\ st[d].user # NoUser

(* Inductive, and implies RunsAsWhoLoggedOn. *)
HandedInv == TypeOK /\ StoresInOrder /\ BufferOfLatest /\ HandsOver /\ Offered /\ Got

(* A host that was found is there for good, and was stored after the name, *)
(* unless the registry has refused a value.                                *)
RegistryInOrder == refused \/
  /\ reg["dbhost"] => reg["dbname"]
  /\ \A d \in Desktops : (st[d].at = "setReg" /\ st[d].todo = <<"dbhost">>) => reg["dbname"]
FoundInRegistry ==
  /\ \A c \in Clients : st[c].at \in {"storeHost", "readName"} => reg["dbhost"]
  /\ pc2r.dbhost = "right" => reg["dbhost"]
  /\ pRTC["dbhost"] = "right" => reg["dbhost"]

(* The flag is up only while a desktop asks, and while one asks alone; who *)
(* does not ask alone is crowded.                                          *)
FlagOfAsker ==
  /\ SkyEyeGetReg => \E d \in Desktops : Asks(d)
  /\ \A d \in Desktops : Asks(d) => d \in crowded \/ SkyEyeGetReg
  /\ \A c, o \in Clients : (c # o /\ Asks(c) /\ Asks(o)) => c \in crowded

(* What waits to be copied by who asks alone, and what goes with the host  *)
(* that has been copied.                                                   *)
PairInBuffer == refused \/
  /\ \A d \in Desktops : (st[d].at = "copyHost" /\ d \notin crowded /\ pc2r.dbhost = "right")
       => pc2r.dbname = "right"
  /\ \A d \in Desktops : (st[d].at = "copyName" /\ d \notin crowded /\ st[d].got["dbhost"] = "right")
       => pc2r.dbname = "right"
  /\ (st[CP].at = "copyRegHost" /\ CP \notin crowded /\ pRTC["dbhost"] = "right")
       => pRTC["dbname"] = "right"
  /\ (st[CP].at = "copyRegName" /\ CP \notin crowded /\ st[CP].got["dbhost"] = "right")
       => pRTC["dbname"] = "right"

(* The buffer is replaced between the two copies only of who is crowded,   *)
(* and is empty only while it is being replaced.                           *)
Replaced == undefined \/
  /\ ~pc2r.live <=> st[CP].at = "allocate"
  /\ pc2r.dbhost = "empty" => st[CP].at = "clear"
  /\ st[CP].at \in {"allocate", "clear"} =>
       \A d \in Desktops : st[d].at = "copyName" => d \in crowded

(* Inductive as well, and contains HostComesWithName. *)
HostInv ==
  TypeOK /\ StoresInOrder /\ RegistryInOrder /\ FoundInRegistry /\ FlagOfAsker
  /\ PairInBuffer /\ Replaced /\ HostComesWithName

-----------------------------------------------------------------------------
(* Types. *)

LEMMA GoesType ==
  ASSUME TypeOK, NEW c \in Clients, NEW new \in ClientState, Goes(c, new)
  PROVE  st' \in [Clients -> ClientState]
BY DEF TypeOK, Goes

LEMMA IdleType == Idle \in ClientState /\ Idle.at = "idle" /\ Idle.user = NoUser /\ Idle.got = Nothing
<1>1. "idle" \in Places
  BY DEF Places
<1>2. <<>> \in Seq(Strings) /\ NoUser \in Known
  BY DEF Known
<1>3. Nothing \in [Strings -> {"none", "right", "wrong"}]
  BY DEF Nothing
<1> QED
  BY <1>1, <1>2, <1>3 DEF Idle, ClientState

LEMMA NothingGot == Nothing["dbhost"] = "none" /\ Nothing["dbname"] = "none"
BY DEF Nothing, Strings

(* A client that moves, and else stays as it was. *)
LEMMA ToType ==
  ASSUME TypeOK, NEW c \in Clients, NEW at \in Places, To(c, at)
  PROVE  st' \in [Clients -> ClientState]
<1>1. [st[c] EXCEPT !.at = at] \in ClientState
  BY DEF TypeOK, ClientState
<1> QED
  BY <1>1, GoesType DEF To

LEMMA BufferType ==
  /\ NewPc2r \in UserBuffer
  /\ Nothing \in [Strings -> {"none", "right"}]
BY DEF NewPc2r, UserBuffer, Nothing, Known

LEMMA ReadType ==
  ASSUME TypeOK, NEW c \in Clients, ReadHost(c) \/ ReadName(c)
  PROVE  TypeOK'
<1>1. PICK next \in {"storeHost", "storeName", Queried(c)} : To(c, next)
  BY DEF ReadHost, ReadName, Read
<1>2. next \in Places
  BY DEF Queried, Places, GetUp, GetReg, Query
<1>3. st' \in [Clients -> ClientState]
  BY <1>1, <1>2, ToType
<1> QED
  BY <1>3 DEF TypeOK, ReadHost, ReadName, Read, driverVars, history

LEMMA StoreType ==
  ASSUME TypeOK, NEW c \in Clients, StoreHost(c) \/ StoreName(c)
  PROVE  TypeOK'
<1>1. PICK next \in {"readName", Queried(c)} : To(c, next)
  BY DEF StoreHost, StoreName, Store
<1>2. next \in Places
  BY DEF Queried, Places, GetUp, GetReg, Query
<1>3. st' \in [Clients -> ClientState]
  BY <1>1, <1>2, ToType
<1>4. PICK v \in Strings : Store(c, st[c].at, v, IF v = "dbhost" THEN "readName" ELSE Queried(c))
  BY DEF StoreHost, StoreName, Store, Strings
<1>5. [pc2r EXCEPT ![v] = "right"] \in UserBuffer
  BY DEF TypeOK, UserBuffer, Strings
<1>6. [pRTC EXCEPT ![v] = "right"] \in [Strings -> {"none", "right"}]
  BY DEF TypeOK
<1>7. pc2r.live \in BOOLEAN
  BY DEF TypeOK, UserBuffer
<1> QED
  BY <1>3, <1>4, <1>5, <1>6, <1>7 DEF TypeOK, Store, history

LEMMA LogonScreenType ==
  ASSUME TypeOK, LogonScreen
  PROVE  TypeOK'
<1>0. CP \in Clients
  BY DEF Clients
<1>a. st[CP] \in ClientState
  BY <1>0 DEF TypeOK
<1>1. CASE Logon
  <2>1. PICK at \in {"readHost", "openDB"} : To(CP, at)
    BY <1>1 DEF Logon
  <2>2. at \in Places
    BY DEF Places, GetReg, Query
  <2>3. st' \in [Clients -> ClientState]
    BY <2>1, <2>2, <1>0, ToType
  <2>4. crowded' \subseteq Clients /\ events' \in 0 .. MaxEvents
    BY <1>1, <1>0, CredentialsAssumption DEF Logon, Crowded, Overlaps, Event, TypeOK
  <2> QED
    BY <1>1, <2>3, <2>4 DEF Logon, TypeOK, driverVars
<1>2. CASE CopyRegHost
  <2>1. PICK host \in {"none", "right", "wrong"} :
          Goes(CP, [st[CP] EXCEPT !.at = "copyRegName", !.got = [Nothing EXCEPT !["dbhost"] = host]])
    BY <1>2 DEF CopyRegHost, Unterminated, TypeOK, Strings
  <2>2. [Nothing EXCEPT !["dbhost"] = host] \in [Strings -> {"none", "right", "wrong"}]
    BY DEF Strings, Nothing
  <2>3. [st[CP] EXCEPT !.at = "copyRegName", !.got = [Nothing EXCEPT !["dbhost"] = host]] \in ClientState
    BY <1>a, <2>2 DEF ClientState, Places, GetReg
  <2>4. st' \in [Clients -> ClientState]
    BY <1>0, <2>1, <2>3, GoesType
  <2> QED
    BY <1>2, <2>4 DEF CopyRegHost, TypeOK, driverVars, history
<1>8. CASE CopyRegName
  <2>1. PICK name \in {"none", "right", "wrong"} :
          Goes(CP, [st[CP] EXCEPT !.at = "openDB", !.got["dbname"] = name])
    BY <1>8 DEF CopyRegName, Unterminated, TypeOK, Strings
  <2>2. [st[CP].got EXCEPT !["dbname"] = name] \in [Strings -> {"none", "right", "wrong"}]
    BY <1>a DEF Strings, ClientState
  <2>3. [st[CP] EXCEPT !.at = "openDB", !.got["dbname"] = name] \in ClientState
    BY <1>a, <2>2 DEF ClientState, Places
  <2>4. st' \in [Clients -> ClientState]
    BY <1>0, <2>1, <2>3, GoesType
  <2> QED
    BY <1>8, <2>4 DEF CopyRegName, TypeOK, driverVars, history
<1>3. CASE CheckLogon
  <2>1. PICK user \in Users, pass \in Users :
          Goes(CP, [Idle EXCEPT !.at = "send", !.user = user, !.pass = pass]) \/ Goes(CP, Idle)
    BY <1>3 DEF CheckLogon
  <2>2. [Idle EXCEPT !.at = "send", !.user = user, !.pass = pass] \in ClientState
    BY IdleType DEF ClientState, Places, Known
  <2>3. st' \in [Clients -> ClientState]
    BY <1>0, <2>1, <2>2, IdleType, GoesType
  <2> QED
    BY <1>3, <2>3 DEF CheckLogon, TypeOK, driverVars
<1>4. CASE FreePc2r
  <2>1. st' \in [Clients -> ClientState]
    BY <1>0, <1>4, ToType DEF FreePc2r, Places
  <2>2. [pc2r EXCEPT !.live = FALSE] \in UserBuffer
    BY DEF TypeOK, UserBuffer
  <2>3. st[CP].user \in Known
    BY <1>a DEF ClientState
  <2> QED
    BY <1>4, <2>1, <2>2, <2>3 DEF FreePc2r, TypeOK, Clients
<1>5. CASE AllocatePc2r
  <2>1. st' \in [Clients -> ClientState]
    BY <1>0, <1>5, ToType DEF AllocatePc2r, Places
  <2>2. [NewPc2r EXCEPT !.dbhost = "empty", !.dbname = "empty"] \in UserBuffer
    BY BufferType DEF UserBuffer
  <2> QED
    BY <1>5, <2>1, <2>2 DEF AllocatePc2r, TypeOK, history
<1>9. CASE ClearPc2r
  <2>1. st' \in [Clients -> ClientState]
    BY <1>0, <1>9, ToType DEF ClearPc2r, Places
  <2>2. [pc2r EXCEPT !.dbhost = "none", !.dbname = "none"] \in UserBuffer
    BY DEF TypeOK, UserBuffer
  <2> QED
    BY <1>9, <2>1, <2>2 DEF ClearPc2r, TypeOK, history
<1>6. CASE FillUser
  <2>1. st' \in [Clients -> ClientState]
    BY <1>0, <1>6, ToType DEF FillUser, Places
  <2>2. [pc2r EXCEPT !.user = st[CP].user] \in UserBuffer
    BY <1>a DEF TypeOK, UserBuffer, ClientState
  <2> QED
    BY <1>6, <2>1, <2>2 DEF FillUser, TypeOK, history
<1>7. CASE FillPassword
  <2>1. st' \in [Clients -> ClientState]
    BY <1>0, <1>7, IdleType, GoesType DEF FillPassword
  <2>2. [pc2r EXCEPT !.pass = st[CP].pass] \in UserBuffer
    BY <1>a DEF TypeOK, UserBuffer, ClientState
  <2> QED
    BY <1>7, <2>1, <2>2 DEF FillPassword, TypeOK, history
<1> QED
  BY <1>1, <1>2, <1>3, <1>4, <1>5, <1>6, <1>7, <1>8, <1>9 DEF LogonScreen

LEMMA DesktopType ==
  ASSUME TypeOK, StoresInOrder, NEW d \in Desktops, Desktop(d)
  PROVE  TypeOK'
<1>0. d \in Clients
  BY DEF Clients
<1>a. st[d] \in ClientState
  BY <1>0 DEF TypeOK
<1>b. pc2r.live \in BOOLEAN /\ pc2r.user \in Known /\ pc2r.pass \in Known
      /\ pc2r.dbhost \in {"none", "right", "empty"} /\ pc2r.dbname \in {"none", "right", "empty"}
  BY DEF TypeOK, UserBuffer
<1>1. CASE Start(d)
  <2>1. PICK at \in {"copyUser", "dialog"} : To(d, at)
    BY <1>1 DEF Start
  <2>2. at \in Places
    BY DEF Places, GetUp
  <2>3. st' \in [Clients -> ClientState]
    BY <1>0, <2>1, <2>2, ToType
  <2>4. crowded' \subseteq Clients /\ events' \in 0 .. MaxEvents
    BY <1>1, <1>0, CredentialsAssumption DEF Start, Crowded, Overlaps, Event, TypeOK
  <2>5. offered' \in [Desktops -> SUBSET Known]
    BY <1>1 DEF Start, TypeOK
  <2>6. SkyEyeGetReg' \in BOOLEAN
    BY <1>1 DEF Start, TypeOK
  <2> QED
    BY <1>1, <2>3, <2>4, <2>5, <2>6 DEF Start, TypeOK
<1>2. CASE CopyUser(d)
  <2>1. [st[d] EXCEPT !.at = "copyPassword", !.user = pc2r.user] \in ClientState
    BY <1>a, <1>b DEF ClientState, Places, GetUp
  <2>2. st' \in [Clients -> ClientState]
    BY <1>0, <1>2, <2>1, GoesType DEF CopyUser
  <2> QED
    BY <1>2, <1>b, <2>2 DEF CopyUser, TypeOK, driverVars, history
<1>3. CASE CopyPassword(d)
  <2>1. [st[d] EXCEPT !.at = "readHost", !.pass = pc2r.pass] \in ClientState
    BY <1>a, <1>b DEF ClientState, Places, GetUp, Query
  <2>2. st' \in [Clients -> ClientState]
    BY <1>0, <1>3, <2>1, GoesType DEF CopyPassword
  <2> QED
    BY <1>3, <1>b, <2>2 DEF CopyPassword, TypeOK, driverVars, history
<1>4. CASE CopyHost(d)
  <2>1. PICK host \in {"none", "right", "wrong"} :
          Goes(d, [st[d] EXCEPT !.at = "copyName", !.got = [Nothing EXCEPT !["dbhost"] = host]])
    BY <1>4, <1>b DEF CopyHost, Copied
  <2>2. [Nothing EXCEPT !["dbhost"] = host] \in [Strings -> {"none", "right", "wrong"}]
    BY DEF Strings, Nothing
  <2>3. [st[d] EXCEPT !.at = "copyName", !.got = [Nothing EXCEPT !["dbhost"] = host]] \in ClientState
    BY <1>a, <2>2 DEF ClientState, Places, GetUp
  <2>4. st' \in [Clients -> ClientState]
    BY <1>0, <2>1, <2>3, GoesType
  <2> QED
    BY <1>0, <1>4, <1>b, <2>4 DEF CopyHost, TypeOK, driverVars
<1>9. CASE CopyName(d)
  <2>1. PICK name \in {"none", "right", "wrong"} :
          Goes(d, [st[d] EXCEPT !.at = "lowerFlag", !.got["dbname"] = name])
    BY <1>9, <1>b DEF CopyName, Copied
  <2>2. [st[d].got EXCEPT !["dbname"] = name] \in [Strings -> {"none", "right", "wrong"}]
    BY <1>a DEF Strings, ClientState
  <2>3. [st[d] EXCEPT !.at = "lowerFlag", !.got["dbname"] = name] \in ClientState
    BY <1>a, <2>2 DEF ClientState, Places, GetUp
  <2>4. st' \in [Clients -> ClientState]
    BY <1>0, <2>1, <2>3, GoesType
  <2> QED
    BY <1>9, <1>b, <2>4 DEF CopyName, TypeOK, driverVars, history
<1>10. CASE LowerFlag(d)
  <2>1. PICK at \in {"dialog", "openDB"} : To(d, at)
    BY <1>10 DEF LowerFlag
  <2>2. st' \in [Clients -> ClientState]
    BY <1>0, <2>1, ToType DEF Places
  <2> QED
    BY <1>10, <2>2 DEF LowerFlag, TypeOK
<1>5. CASE VerifyIt(d)
  <2>1. PICK owner \in Owners : Goes(d, [st[d] EXCEPT !.at = "setReg", !.user = owner, !.pass = owner,
                !.todo = <<"dbname", "dbhost">>])
    BY <1>5 DEF VerifyIt
  <2>2. owner \in Known /\ <<"dbname", "dbhost">> \in Seq(Strings)
    BY CredentialsAssumption DEF Known, Strings
  <2>3. [st[d] EXCEPT !.at = "setReg", !.user = owner, !.pass = owner, !.todo = <<"dbname", "dbhost">>] \in ClientState
    BY <1>a, <2>2 DEF ClientState, Places
  <2>4. st' \in [Clients -> ClientState]
    BY <1>0, <2>1, <2>3, GoesType
  <2> QED
    BY <1>5, <2>4 DEF VerifyIt, TypeOK, driverVars, history
<1>6. CASE SetReg(d)
  <2>1. PICK accepted \in BOOLEAN, answer \in BOOLEAN : SetReg(d)!(accepted, answer)
    BY <1>6 DEF SetReg
  <2>2. st[d].todo \in Seq(Strings) /\ Tail(st[d].todo) \in Seq(Strings) /\ Head(st[d].todo) \in Strings
    BY <1>6, <1>a DEF StoresInOrder, SetReg, ClientState, Strings
  <2>3. [st[d] EXCEPT !.todo = Tail(@)] \in ClientState
    BY <1>a, <2>2 DEF ClientState
  <2>4. [dbhost |-> "right", dbname |-> "right"] \in [Strings -> {"none", "right", "wrong"}] /\ <<>> \in Seq(Strings)
    BY DEF Strings
  <2>5. [st[d] EXCEPT !.at = "openDB", !.todo = <<>>, !.isAdmin = TRUE,
                     !.got = [dbhost |-> "right", dbname |-> "right"]] \in ClientState
    BY <1>a, <2>4 DEF ClientState, Places
  <2>6. [Idle EXCEPT !.at = "dialog"] \in ClientState
    BY IdleType DEF ClientState, Places
  <2>7. st' \in [Clients -> ClientState]
    BY <1>0, <2>1, <2>3, <2>5, <2>6, GoesType
  <2>8. reg' \in [Strings -> BOOLEAN] /\ refused' \in BOOLEAN
    BY <2>1, <2>2 DEF TypeOK
  <2> QED
    BY <2>1, <2>7, <2>8 DEF TypeOK, driverVars
<1>7. CASE Login(d)
  <2>1. [st[d] EXCEPT !.at = "running", !.got = Nothing, !.isAdmin = @ \/ st[d].user \in Owners] \in ClientState
    <3>1. Nothing \in [Strings -> {"none", "right", "wrong"}]
      BY DEF Nothing
    <3> QED
      BY <1>a, <3>1 DEF ClientState, Places
  <2>2. st' \in [Clients -> ClientState]
    BY <1>0, <1>7, <2>1, GoesType DEF Login
  <2> QED
    BY <1>7, <2>2 DEF Login, TypeOK, driverVars
<1>8. CASE Quits(d) \/ Close(d)
  <2>1. st' \in [Clients -> ClientState]
    BY <1>0, <1>8, IdleType, GoesType DEF Quits, Close, Leaves
  <2> QED
    BY <1>8, <2>1 DEF Quits, Close, Leaves, TypeOK, driverVars
<1> QED
  BY <1>1, <1>2, <1>3, <1>4, <1>5, <1>6, <1>7, <1>8, <1>9, <1>10 DEF Desktop

(* What the steps below take from the types. *)
LEMMA Settled ==
  ASSUME TypeOK
  PROVE  /\ CP \in Clients /\ Desktops \subseteq Clients /\ CP \notin Desktops
         /\ \A c \in Clients : st[c] \in ClientState
         /\ DOMAIN st = Clients
         /\ pc2r \in UserBuffer
BY CredentialsAssumption DEF TypeOK, Clients

(* A step of one client leaves the others alone. *)
LEMMA GoesAlone ==
  ASSUME TypeOK, NEW c \in Clients, NEW new, Goes(c, new)
  PROVE  st'[c] = new /\ \A o \in Clients \ {c} : st'[o] = st[o]
BY DEF TypeOK, Goes

(* With two values left to store, the name comes first. *)
LEMMA TwoLeft ==
  ASSUME NEW t \in {<<"dbname", "dbhost">>, <<"dbhost">>}, Len(t) > 1
  PROVE  t # <<"dbhost">> /\ Tail(t) = <<"dbhost">>
<1>1. CASE t = <<"dbname", "dbhost">>
  <2>1. Len(t) # Len(<<"dbhost">>)
    BY <1>1
  <2> QED
    BY <1>1, <2>1
<1>2. CASE t = <<"dbhost">>
  <2>1. Len(t) = 1
    BY <1>2
  <2> QED
    BY <2>1
<1> QED
  BY <1>1, <1>2

-----------------------------------------------------------------------------
(* What each action does to its client. *)

LEMMA LogonMoves ==
  ASSUME TypeOK, Logon
  PROVE  /\ \A o \in Clients \ {CP} : st'[o] = st[o]
         /\ st[CP].at = "idle"
         /\ st'[CP].at \in {"readHost", "openDB"}
         /\ st'[CP].got = Nothing
<1> USE Settled
<1>1. \A o \in Clients \ {CP} : st'[o] = st[o]
  BY GoesAlone, IdleType DEF Logon, To
<1>2. st[CP] \in ClientState
  OBVIOUS
<1> QED
  BY <1>1, <1>2, IdleType, GoesAlone DEF Logon, To, ClientState

LEMMA CopyRegHostMoves ==
  ASSUME TypeOK, CopyRegHost
  PROVE  /\ \A o \in Clients \ {CP} : st'[o] = st[o]
         /\ st[CP].at = "copyRegHost"
         /\ st'[CP].at = "copyRegName"
         /\ st'[CP].got["dbhost"] \in Unterminated(pRTC["dbhost"])
<1> USE Settled
<1>1. \A o \in Clients \ {CP} : st'[o] = st[o]
  BY GoesAlone, IdleType DEF CopyRegHost, To
<1>2. PICK host \in Unterminated(pRTC["dbhost"]) :
        st'[CP] = [st[CP] EXCEPT !.at = "copyRegName", !.got = [Nothing EXCEPT !["dbhost"] = host]]
  BY GoesAlone DEF CopyRegHost
<1>3. st[CP] \in ClientState /\ st[CP].at = "copyRegHost"
  BY DEF CopyRegHost
<1>4. [Nothing EXCEPT !["dbhost"] = host]["dbhost"] = host
  BY DEF Nothing, Strings
<1> QED
  BY <1>1, <1>2, <1>3, <1>4 DEF ClientState

LEMMA CopyRegNameMoves ==
  ASSUME TypeOK, CopyRegName
  PROVE  /\ \A o \in Clients \ {CP} : st'[o] = st[o]
         /\ st[CP].at = "copyRegName"
         /\ st'[CP].at = "openDB"
         /\ st'[CP].got["dbhost"] = st[CP].got["dbhost"]
         /\ st'[CP].got["dbname"] \in Unterminated(pRTC["dbname"])
<1> USE Settled
<1>1. \A o \in Clients \ {CP} : st'[o] = st[o]
  BY GoesAlone, IdleType DEF CopyRegName, To
<1>2. PICK name \in Unterminated(pRTC["dbname"]) :
        st'[CP] = [st[CP] EXCEPT !.at = "openDB", !.got["dbname"] = name]
  BY GoesAlone DEF CopyRegName
<1>3. st[CP] \in ClientState /\ st[CP].at = "copyRegName"
  BY DEF CopyRegName
<1> QED
  BY <1>1, <1>2, <1>3 DEF ClientState, Strings

LEMMA CheckLogonMoves ==
  ASSUME TypeOK, CheckLogon
  PROVE  /\ \A o \in Clients \ {CP} : st'[o] = st[o]
         /\ st[CP].at = "openDB"
         /\ st'[CP].at = "idle" \/ (st'[CP].at = "send" /\ st'[CP].user = st'[CP].pass)
         /\ st'[CP].got = Nothing
<1> USE Settled
<1>1. \A o \in Clients \ {CP} : st'[o] = st[o]
  BY GoesAlone, IdleType DEF CheckLogon, To
<1>2. PICK user \in Users :
        st'[CP] = [Idle EXCEPT !.at = "send", !.user = user, !.pass = user] \/ st'[CP] = Idle
  BY GoesAlone, IdleType DEF CheckLogon, OpenDB
<1>3. st[CP].at = "openDB"
  BY DEF CheckLogon
<1>4. CASE st'[CP] = [Idle EXCEPT !.at = "send", !.user = user, !.pass = user]
  BY <1>1, <1>3, <1>4, IdleType DEF ClientState
<1>5. CASE st'[CP] = Idle
  BY <1>1, <1>3, <1>5, IdleType
<1> QED
  BY <1>2, <1>4, <1>5

LEMMA FreePc2rMoves ==
  ASSUME TypeOK, FreePc2r
  PROVE  /\ \A o \in Clients \ {CP} : st'[o] = st[o]
         /\ st[CP].at = "send"
         /\ st'[CP].at = "allocate" /\ st'[CP].user = st[CP].user /\ st'[CP].pass = st[CP].pass
         /\ st'[CP].got = st[CP].got
<1> USE Settled
<1>1. \A o \in Clients \ {CP} : st'[o] = st[o]
  BY GoesAlone, IdleType DEF FreePc2r, To
<1>2. st[CP] \in ClientState
  OBVIOUS
<1> QED
  BY <1>1, <1>2, IdleType, GoesAlone DEF FreePc2r, To, ClientState

LEMMA AllocatePc2rMoves ==
  ASSUME TypeOK, AllocatePc2r
  PROVE  /\ \A o \in Clients \ {CP} : st'[o] = st[o]
         /\ st[CP].at = "allocate"
         /\ st'[CP].at = "clear" /\ st'[CP].user = st[CP].user /\ st'[CP].pass = st[CP].pass
         /\ st'[CP].got = st[CP].got
<1> USE Settled
<1>1. \A o \in Clients \ {CP} : st'[o] = st[o]
  BY GoesAlone, IdleType DEF AllocatePc2r, To
<1>2. st[CP] \in ClientState
  OBVIOUS
<1> QED
  BY <1>1, <1>2, IdleType, GoesAlone DEF AllocatePc2r, To, ClientState

LEMMA ClearPc2rMoves ==
  ASSUME TypeOK, ClearPc2r
  PROVE  /\ \A o \in Clients \ {CP} : st'[o] = st[o]
         /\ st[CP].at = "clear"
         /\ st'[CP].at = "fillUser" /\ st'[CP].user = st[CP].user /\ st'[CP].pass = st[CP].pass
         /\ st'[CP].got = st[CP].got
<1> USE Settled
<1>1. \A o \in Clients \ {CP} : st'[o] = st[o]
  BY GoesAlone, IdleType DEF ClearPc2r, To
<1>2. st[CP] \in ClientState
  OBVIOUS
<1> QED
  BY <1>1, <1>2, IdleType, GoesAlone DEF ClearPc2r, To, ClientState

LEMMA FillUserMoves ==
  ASSUME TypeOK, FillUser
  PROVE  /\ \A o \in Clients \ {CP} : st'[o] = st[o]
         /\ st[CP].at = "fillUser"
         /\ st'[CP].at = "fillPassword" /\ st'[CP].user = st[CP].user /\ st'[CP].pass = st[CP].pass
         /\ st'[CP].got = st[CP].got
<1> USE Settled
<1>1. \A o \in Clients \ {CP} : st'[o] = st[o]
  BY GoesAlone, IdleType DEF FillUser, To
<1>2. st[CP] \in ClientState
  OBVIOUS
<1> QED
  BY <1>1, <1>2, IdleType, GoesAlone DEF FillUser, To, ClientState

LEMMA FillPasswordMoves ==
  ASSUME TypeOK, FillPassword
  PROVE  /\ \A o \in Clients \ {CP} : st'[o] = st[o]
         /\ st[CP].at = "fillPassword"
         /\ st'[CP].at = "idle"
         /\ st'[CP].got = Nothing
<1> USE Settled
<1>1. \A o \in Clients \ {CP} : st'[o] = st[o]
  BY GoesAlone, IdleType DEF FillPassword, To
<1>2. st[CP] \in ClientState
  OBVIOUS
<1> QED
  BY <1>1, <1>2, IdleType, GoesAlone DEF FillPassword, To, ClientState

LEMMA StartMoves ==
  ASSUME TypeOK, NEW d \in Desktops, Start(d)
  PROVE  /\ \A o \in Clients \ {d} : st'[o] = st[o]
         /\ st[d].at = "idle"
         /\ st'[d].at \in {"copyUser", "dialog"}
         /\ st'[d].got = Nothing
<1> USE Settled
<1>1. \A o \in Clients \ {d} : st'[o] = st[o]
  BY GoesAlone, IdleType DEF Start, To
<1>2. st[d] \in ClientState
  OBVIOUS
<1> QED
  BY <1>1, <1>2, IdleType, GoesAlone DEF Start, To, ClientState

LEMMA CopyUserMoves ==
  ASSUME TypeOK, NEW d \in Desktops, CopyUser(d)
  PROVE  /\ \A o \in Clients \ {d} : st'[o] = st[o]
         /\ st[d].at = "copyUser"
         /\ st'[d].at = "copyPassword" /\ st'[d].user = pc2r.user
         /\ st'[d].got = st[d].got
<1> USE Settled
<1>1. \A o \in Clients \ {d} : st'[o] = st[o]
  BY GoesAlone, IdleType DEF CopyUser, To
<1>2. st'[d] = [st[d] EXCEPT !.at = "copyPassword", !.user = pc2r.user]
  BY GoesAlone DEF CopyUser
<1>3. st[d] \in ClientState /\ st[d].at = "copyUser"
  BY DEF CopyUser
<1> QED
  BY <1>1, <1>2, <1>3 DEF ClientState

LEMMA CopyPasswordMoves ==
  ASSUME TypeOK, NEW d \in Desktops, CopyPassword(d)
  PROVE  /\ \A o \in Clients \ {d} : st'[o] = st[o]
         /\ st[d].at = "copyPassword"
         /\ st'[d].at = "readHost" /\ st'[d].user = st[d].user /\ st'[d].isAdmin = st[d].isAdmin
         /\ st'[d].got = st[d].got
<1> USE Settled
<1>1. \A o \in Clients \ {d} : st'[o] = st[o]
  BY GoesAlone, IdleType DEF CopyPassword, To
<1>2. st'[d] = [st[d] EXCEPT !.at = "readHost", !.pass = pc2r.pass]
  BY GoesAlone DEF CopyPassword
<1>3. st[d] \in ClientState /\ st[d].at = "copyPassword"
  BY DEF CopyPassword
<1> QED
  BY <1>1, <1>2, <1>3 DEF ClientState

LEMMA CopyHostMoves ==
  ASSUME TypeOK, NEW d \in Desktops, CopyHost(d)
  PROVE  /\ \A o \in Clients \ {d} : st'[o] = st[o]
         /\ st[d].at = "copyHost"
         /\ st'[d].at = "copyName" /\ st'[d].user = st[d].user /\ st'[d].isAdmin = st[d].isAdmin
         /\ st'[d].got["dbhost"] \in Copied(pc2r.dbhost)
<1> USE Settled
<1>1. \A o \in Clients \ {d} : st'[o] = st[o]
  BY GoesAlone, IdleType DEF CopyHost, To
<1>2. PICK host \in Copied(pc2r.dbhost) : st'[d] =
        [st[d] EXCEPT !.at = "copyName", !.got = [Nothing EXCEPT !["dbhost"] = host]]
  BY GoesAlone DEF CopyHost
<1>3. st[d] \in ClientState /\ st[d].at = "copyHost"
  BY DEF CopyHost
<1>4. [Nothing EXCEPT !["dbhost"] = host]["dbhost"] = host
  BY DEF Nothing, Strings
<1> QED
  BY <1>1, <1>2, <1>3, <1>4 DEF ClientState

LEMMA CopyNameMoves ==
  ASSUME TypeOK, NEW d \in Desktops, CopyName(d)
  PROVE  /\ \A o \in Clients \ {d} : st'[o] = st[o]
         /\ st[d].at = "copyName"
         /\ st'[d].at = "lowerFlag" /\ st'[d].user = st[d].user /\ st'[d].isAdmin = st[d].isAdmin
         /\ st'[d].got["dbhost"] = st[d].got["dbhost"]
         /\ st'[d].got["dbname"] \in Copied(pc2r.dbname)
<1> USE Settled
<1>1. \A o \in Clients \ {d} : st'[o] = st[o]
  BY GoesAlone, IdleType DEF CopyName, To
<1>2. PICK name \in Copied(pc2r.dbname) :
        st'[d] = [st[d] EXCEPT !.at = "lowerFlag", !.got["dbname"] = name]
  BY GoesAlone DEF CopyName
<1>3. st[d] \in ClientState /\ st[d].at = "copyName"
  BY DEF CopyName
<1> QED
  BY <1>1, <1>2, <1>3 DEF ClientState, Strings

LEMMA LowerFlagMoves ==
  ASSUME TypeOK, NEW d \in Desktops, LowerFlag(d)
  PROVE  /\ \A o \in Clients \ {d} : st'[o] = st[o]
         /\ st[d].at = "lowerFlag"
         /\ st'[d].user = st[d].user /\ st'[d].isAdmin = st[d].isAdmin /\ st'[d].got = st[d].got
         /\ \/ st'[d].at = "dialog" /\ st[d].got = Nothing /\ crowded' = crowded \ {d}
            \/ st'[d].at = "openDB" /\ UNCHANGED crowded
<1> USE Settled
<1>1. \A o \in Clients \ {d} : st'[o] = st[o]
  BY GoesAlone, IdleType DEF LowerFlag, To
<1>2. \/ /\ st'[d] = [st[d] EXCEPT !.at = "dialog"]
         /\ st[d].got = Nothing /\ crowded' = crowded \ {d}
      \/ st'[d] = [st[d] EXCEPT !.at = "openDB"] /\ UNCHANGED crowded
  BY GoesAlone DEF LowerFlag, To
<1>3. st[d] \in ClientState /\ st[d].at = "lowerFlag"
  BY DEF LowerFlag
<1> QED
  BY <1>1, <1>2, <1>3 DEF ClientState

LEMMA VerifyItMoves ==
  ASSUME TypeOK, NEW d \in Desktops, VerifyIt(d)
  PROVE  /\ \A o \in Clients \ {d} : st'[o] = st[o]
         /\ st[d].at = "dialog"
         /\ st'[d].at = "setReg" /\ st'[d].user \in Owners /\ st'[d].pass = st'[d].user /\ st'[d].todo = <<"dbname", "dbhost">>
         /\ st'[d].got = st[d].got
<1> USE Settled
<1>1. \A o \in Clients \ {d} : st'[o] = st[o]
  BY GoesAlone, IdleType DEF VerifyIt, To
<1>2. PICK owner \in Owners : st'[d] =
        [st[d] EXCEPT !.at = "setReg", !.user = owner, !.pass = owner, !.todo = <<"dbname", "dbhost">>]
  BY GoesAlone DEF VerifyIt
<1>3. st[d] \in ClientState /\ st[d].at = "dialog"
  BY DEF VerifyIt
<1> QED
  BY <1>1, <1>2, <1>3 DEF ClientState

LEMMA SetRegMoves ==
  ASSUME TypeOK, StoresInOrder, NEW d \in Desktops, SetReg(d)
  PROVE  /\ \A o \in Clients \ {d} : st'[o] = st[o]
         /\ st[d].at = "setReg"
         /\ \/ /\ st'[d].at = "setReg" /\ st'[d].todo = <<"dbhost">> /\ st[d].todo # <<"dbhost">>
               /\ st'[d].user = st[d].user /\ st'[d].pass = st[d].pass
            \/ st'[d].at = "openDB" /\ st'[d].user = st[d].user /\ st'[d].isAdmin
            \/ st'[d].at = "dialog"
         /\ st'[d].got \in {st[d].got, Nothing} \/ st'[d].got["dbname"] = "right"
<1> USE Settled
<1>1. \A o \in Clients \ {d} : st'[o] = st[o]
  BY GoesAlone, IdleType DEF SetReg, To
<1>2. \/ st'[d] = [st[d] EXCEPT !.todo = Tail(@)] /\ Len(st[d].todo) > 1
      \/ st'[d] = [st[d] EXCEPT !.at = "openDB", !.todo = <<>>, !.isAdmin = TRUE,
                      !.got = [dbhost |-> "right", dbname |-> "right"]]
      \/ st'[d] = [Idle EXCEPT !.at = "dialog"]
  BY GoesAlone DEF SetReg
<1>3. st[d] \in ClientState /\ st[d].at = "setReg"
  BY DEF SetReg
<1>4. CASE st'[d] = [st[d] EXCEPT !.todo = Tail(@)] /\ Len(st[d].todo) > 1
  <2>1. Tail(st[d].todo) = <<"dbhost">> /\ st[d].todo # <<"dbhost">>
    BY <1>3, <1>4, TwoLeft DEF StoresInOrder
  <2> QED
    BY <1>1, <1>3, <1>4, <2>1 DEF ClientState
<1>5. CASE st'[d] = [st[d] EXCEPT !.at = "openDB", !.todo = <<>>, !.isAdmin = TRUE,
                      !.got = [dbhost |-> "right", dbname |-> "right"]]
  <2>1. [dbhost |-> "right", dbname |-> "right"]["dbname"] = "right"
    OBVIOUS
  <2> QED
    BY <1>1, <1>3, <1>5, <2>1 DEF ClientState
<1>6. CASE st'[d] = [Idle EXCEPT !.at = "dialog"]
  BY <1>1, <1>3, <1>6, IdleType DEF ClientState
<1> QED
  BY <1>1, <1>2, <1>4, <1>5, <1>6

LEMMA LoginMoves ==
  ASSUME TypeOK, NEW d \in Desktops, Login(d)
  PROVE  /\ \A o \in Clients \ {d} : st'[o] = st[o]
         /\ st[d].at = "openDB"
         /\ /\ st'[d].at = "running" /\ st'[d].user = st[d].user /\ st'[d].pass = st[d].pass
            /\ st[d].isAdmin => st'[d].isAdmin
         /\ st'[d].got = Nothing
<1> USE Settled
<1>1. \A o \in Clients \ {d} : st'[o] = st[o]
  BY GoesAlone, IdleType DEF Login, To
<1>2. st'[d] = [st[d] EXCEPT !.at = "running", !.got = Nothing, !.isAdmin = @ \/ st[d].user \in Owners]
  BY GoesAlone DEF Login
<1>3. st[d] \in ClientState /\ st[d].at = "openDB"
  BY DEF Login
<1> QED
  BY <1>1, <1>2, <1>3 DEF ClientState

LEMMA QuitsMoves ==
  ASSUME TypeOK, NEW d \in Desktops, Quits(d)
  PROVE  /\ \A o \in Clients \ {d} : st'[o] = st[o]
         /\ st[d].at \in {"dialog", "openDB"}
         /\ st'[d].at = "idle"
         /\ st'[d].got = Nothing
<1> USE Settled
<1>1. \A o \in Clients \ {d} : st'[o] = st[o]
  BY GoesAlone, IdleType DEF Quits, To, Leaves
<1>2. st[d] \in ClientState
  OBVIOUS
<1> QED
  BY <1>1, <1>2, IdleType, GoesAlone DEF Quits, To, ClientState, Leaves

LEMMA CloseMoves ==
  ASSUME TypeOK, NEW d \in Desktops, Close(d)
  PROVE  /\ \A o \in Clients \ {d} : st'[o] = st[o]
         /\ st[d].at = "running"
         /\ st'[d].at = "idle"
         /\ st'[d].got = Nothing
<1> USE Settled
<1>1. \A o \in Clients \ {d} : st'[o] = st[o]
  BY GoesAlone, IdleType DEF Close, To, Leaves
<1>2. st[d] \in ClientState
  OBVIOUS
<1> QED
  BY <1>1, <1>2, IdleType, GoesAlone DEF Close, To, ClientState, Leaves

(* A look at the registry, and storing what was found. *)
LEMMA QueryMoves ==
  ASSUME TypeOK, NEW c \in Clients, QueryDBKey(c)
  PROVE  /\ \A o \in Clients \ {c} : st'[o] = st[o]
         /\ st[c].at \in Query /\ st'[c].at \in Query \union {Queried(c)}
         /\ \/ st[c].at = "readHost" /\ st'[c].at = IF reg["dbhost"] THEN "storeHost" ELSE Queried(c)
            \/ st[c].at = "readName" /\ st'[c].at = IF reg["dbname"] THEN "storeName" ELSE Queried(c)
            \/ st[c].at = "storeHost" /\ st'[c].at = "readName"
            \/ st[c].at = "storeName" /\ st'[c].at = Queried(c)
         /\ st'[c].user = st[c].user /\ st'[c].pass = st[c].pass
         /\ st'[c].isAdmin = st[c].isAdmin /\ st'[c].got = st[c].got
<1> USE Settled
<1>1. PICK at \in Query \union {Queried(c)} : To(c, at)
  BY DEF QueryDBKey, ReadHost, ReadName, StoreHost, StoreName, Read, Store, Query
<1>2. \A o \in Clients \ {c} : st'[o] = st[o]
  BY <1>1, GoesAlone DEF To
<1>3. st[c] \in ClientState /\ st'[c] = [st[c] EXCEPT !.at = at]
  BY <1>1, GoesAlone DEF To
<1>4. st[c].at \in Query
  BY DEF QueryDBKey, ReadHost, ReadName, StoreHost, StoreName, Read, Store, Query
<1>5. \A new : To(c, new) => st'[c].at = new
  BY <1>3, GoesAlone DEF To, ClientState
<1>6. \/ st[c].at = "readHost" /\ st'[c].at = IF reg["dbhost"] THEN "storeHost" ELSE Queried(c)
      \/ st[c].at = "readName" /\ st'[c].at = IF reg["dbname"] THEN "storeName" ELSE Queried(c)
      \/ st[c].at = "storeHost" /\ st'[c].at = "readName"
      \/ st[c].at = "storeName" /\ st'[c].at = Queried(c)
  BY <1>5 DEF QueryDBKey, ReadHost, ReadName, StoreHost, StoreName, Read, Store
<1> QED
  BY <1>1, <1>2, <1>3, <1>4, <1>6 DEF ClientState

-----------------------------------------------------------------------------
(* No action mixes two users. *)

LEMMA LogonHanded ==
  ASSUME HandedInv, Logon, TypeOK', ~undefined
  PROVE  HandedInv'
<1> USE Settled, CredentialsAssumption DEF HandedInv
<1>1. /\ \A o \in Clients \ {CP} : st'[o] = st[o]
      /\ st[CP].at = "idle"
      /\ st'[CP].at \in {"readHost", "openDB"}
      /\ st'[CP].got = Nothing
  BY LogonMoves
<1>3. StoresInOrder'
  BY <1>1 DEF Logon, StoresInOrder
<1>4. BufferOfLatest'
  BY <1>1, IdleType DEF Logon, BufferOfLatest, UserBuffer, driverVars, history, HandsOver
<1>5. HandsOver'
  BY <1>1 DEF Logon, HandsOver, history
<1>6. Offered'
  BY <1>1 DEF Logon, Offered, history, Asks, GetUp, GetReg, Query
<1>7. Got'
  BY <1>1 DEF Logon, Got, history, Asks, GetUp, Query
<1> QED
  BY <1>3, <1>4, <1>5, <1>6, <1>7

LEMMA CopyRegHostHanded ==
  ASSUME HandedInv, CopyRegHost, TypeOK', ~undefined
  PROVE  HandedInv'
<1> USE Settled, CredentialsAssumption DEF HandedInv
<1>1. /\ \A o \in Clients \ {CP} : st'[o] = st[o]
      /\ st[CP].at = "copyRegHost"
      /\ st'[CP].at = "copyRegName"
      /\ st'[CP].got["dbhost"] \in Unterminated(pRTC["dbhost"])
  BY CopyRegHostMoves
<1>3. StoresInOrder'
  BY <1>1 DEF CopyRegHost, StoresInOrder
<1>4. BufferOfLatest'
  BY <1>1 DEF CopyRegHost, BufferOfLatest, UserBuffer, driverVars, history, NewPc2r, HandsOver
<1>5. HandsOver'
  BY <1>1 DEF CopyRegHost, HandsOver, history
<1>6. Offered'
  BY <1>1 DEF CopyRegHost, Offered, history, Asks, GetUp, GetReg, Query
<1>7. Got'
  BY <1>1 DEF CopyRegHost, Got, history, Asks, GetUp, Query
<1> QED
  BY <1>3, <1>4, <1>5, <1>6, <1>7

LEMMA CopyRegNameHanded ==
  ASSUME HandedInv, CopyRegName, TypeOK', ~undefined
  PROVE  HandedInv'
<1> USE Settled, CredentialsAssumption DEF HandedInv
<1>1. /\ \A o \in Clients \ {CP} : st'[o] = st[o]
      /\ st[CP].at = "copyRegName"
      /\ st'[CP].at = "openDB"
      /\ st'[CP].got["dbhost"] = st[CP].got["dbhost"]
      /\ st'[CP].got["dbname"] \in Unterminated(pRTC["dbname"])
  BY CopyRegNameMoves
<1>3. StoresInOrder'
  BY <1>1 DEF CopyRegName, StoresInOrder
<1>4. BufferOfLatest'
  BY <1>1 DEF CopyRegName, BufferOfLatest, UserBuffer, driverVars, history, NewPc2r, HandsOver
<1>5. HandsOver'
  BY <1>1 DEF CopyRegName, HandsOver, history
<1>6. Offered'
  BY <1>1 DEF CopyRegName, Offered, history, Asks, GetUp, GetReg, Query
<1>7. Got'
  BY <1>1 DEF CopyRegName, Got, history, Asks, GetUp, Query
<1> QED
  BY <1>3, <1>4, <1>5, <1>6, <1>7

LEMMA CheckLogonHanded ==
  ASSUME HandedInv, CheckLogon, TypeOK', ~undefined
  PROVE  HandedInv'
<1> USE Settled, CredentialsAssumption DEF HandedInv
<1>1. /\ \A o \in Clients \ {CP} : st'[o] = st[o]
      /\ st[CP].at = "openDB"
      /\ st'[CP].at = "idle" \/ (st'[CP].at = "send" /\ st'[CP].user = st'[CP].pass)
      /\ st'[CP].got = Nothing
  BY CheckLogonMoves
<1>3. StoresInOrder'
  BY <1>1 DEF CheckLogon, StoresInOrder
<1>4. BufferOfLatest'
  BY <1>1 DEF CheckLogon, BufferOfLatest, UserBuffer, driverVars, history, HandsOver
<1>5. HandsOver'
  BY <1>1 DEF CheckLogon, HandsOver, history
<1>6. Offered'
  BY <1>1 DEF CheckLogon, Offered, history, Asks, GetUp, GetReg, Query
<1>7. Got'
  BY <1>1 DEF CheckLogon, Got, history, Asks, GetUp, Query
<1> QED
  BY <1>3, <1>4, <1>5, <1>6, <1>7

LEMMA FreePc2rHanded ==
  ASSUME HandedInv, FreePc2r, TypeOK', ~undefined
  PROVE  HandedInv'
<1> USE Settled, CredentialsAssumption DEF HandedInv
<1>1. /\ \A o \in Clients \ {CP} : st'[o] = st[o]
      /\ st[CP].at = "send"
      /\ st'[CP].at = "allocate" /\ st'[CP].user = st[CP].user /\ st'[CP].pass = st[CP].pass
      /\ st'[CP].got = st[CP].got
  BY FreePc2rMoves
<1>3. StoresInOrder'
  BY <1>1 DEF FreePc2r, StoresInOrder
<1>4. BufferOfLatest'
  BY <1>1 DEF FreePc2r, BufferOfLatest, UserBuffer, driverVars, history, HandsOver
<1>5. HandsOver'
  BY <1>1 DEF FreePc2r, HandsOver, history
<1>6. Offered'
  BY <1>1 DEF FreePc2r, Offered, history, Asks, GetUp, GetReg, Query
<1>7. Got'
  BY <1>1 DEF FreePc2r, Got, history, Asks, GetUp, Query
<1> QED
  BY <1>3, <1>4, <1>5, <1>6, <1>7

LEMMA AllocatePc2rHanded ==
  ASSUME HandedInv, AllocatePc2r, TypeOK', ~undefined
  PROVE  HandedInv'
<1> USE Settled, CredentialsAssumption DEF HandedInv
<1>1. /\ \A o \in Clients \ {CP} : st'[o] = st[o]
      /\ st[CP].at = "allocate"
      /\ st'[CP].at = "clear" /\ st'[CP].user = st[CP].user /\ st'[CP].pass = st[CP].pass
      /\ st'[CP].got = st[CP].got
  BY AllocatePc2rMoves
<1>3. StoresInOrder'
  BY <1>1 DEF AllocatePc2r, StoresInOrder
<1>4. BufferOfLatest'
  BY <1>1 DEF AllocatePc2r, BufferOfLatest, UserBuffer, driverVars, history, NewPc2r, HandsOver
<1>5. HandsOver'
  BY <1>1 DEF AllocatePc2r, HandsOver, history
<1>6. Offered'
  BY <1>1 DEF AllocatePc2r, Offered, history, Asks, GetUp, GetReg, Query
<1>7. Got'
  BY <1>1 DEF AllocatePc2r, Got, history, Asks, GetUp, Query
<1> QED
  BY <1>3, <1>4, <1>5, <1>6, <1>7

LEMMA ClearPc2rHanded ==
  ASSUME HandedInv, ClearPc2r, TypeOK', ~undefined
  PROVE  HandedInv'
<1> USE Settled, CredentialsAssumption DEF HandedInv
<1>1. /\ \A o \in Clients \ {CP} : st'[o] = st[o]
      /\ st[CP].at = "clear"
      /\ st'[CP].at = "fillUser" /\ st'[CP].user = st[CP].user /\ st'[CP].pass = st[CP].pass
      /\ st'[CP].got = st[CP].got
  BY ClearPc2rMoves
<1>3. StoresInOrder'
  BY <1>1 DEF ClearPc2r, StoresInOrder
<1>4. BufferOfLatest'
  BY <1>1 DEF ClearPc2r, BufferOfLatest, UserBuffer, driverVars, history, NewPc2r, HandsOver
<1>5. HandsOver'
  BY <1>1 DEF ClearPc2r, HandsOver, history
<1>6. Offered'
  BY <1>1 DEF ClearPc2r, Offered, history, Asks, GetUp, GetReg, Query
<1>7. Got'
  BY <1>1 DEF ClearPc2r, Got, history, Asks, GetUp, Query
<1> QED
  BY <1>3, <1>4, <1>5, <1>6, <1>7

LEMMA FillUserHanded ==
  ASSUME HandedInv, FillUser, TypeOK', ~undefined
  PROVE  HandedInv'
<1> USE Settled, CredentialsAssumption DEF HandedInv
<1>1. /\ \A o \in Clients \ {CP} : st'[o] = st[o]
      /\ st[CP].at = "fillUser"
      /\ st'[CP].at = "fillPassword" /\ st'[CP].user = st[CP].user /\ st'[CP].pass = st[CP].pass
      /\ st'[CP].got = st[CP].got
  BY FillUserMoves
<1>3. StoresInOrder'
  BY <1>1 DEF FillUser, StoresInOrder
<1>4. BufferOfLatest'
  BY <1>1 DEF FillUser, BufferOfLatest, UserBuffer, driverVars, history, HandsOver
<1>5. HandsOver'
  BY <1>1 DEF FillUser, HandsOver, history
<1>6. Offered'
  BY <1>1 DEF FillUser, Offered, history, Asks, GetUp, GetReg, Query
<1>7. Got'
  BY <1>1 DEF FillUser, Got, history, Asks, GetUp, Query
<1> QED
  BY <1>3, <1>4, <1>5, <1>6, <1>7

LEMMA FillPasswordHanded ==
  ASSUME HandedInv, FillPassword, TypeOK', ~undefined
  PROVE  HandedInv'
<1> USE Settled, CredentialsAssumption DEF HandedInv
<1>1. /\ \A o \in Clients \ {CP} : st'[o] = st[o]
      /\ st[CP].at = "fillPassword"
      /\ st'[CP].at = "idle"
      /\ st'[CP].got = Nothing
  BY FillPasswordMoves
<1>3. StoresInOrder'
  BY <1>1 DEF FillPassword, StoresInOrder
<1>4. BufferOfLatest'
  BY <1>1 DEF FillPassword, BufferOfLatest, UserBuffer, driverVars, history, HandsOver
<1>5. HandsOver'
  BY <1>1 DEF FillPassword, HandsOver, history
<1>6. Offered'
  BY <1>1 DEF FillPassword, Offered, history, Asks, GetUp, GetReg, Query
<1>7. Got'
  BY <1>1 DEF FillPassword, Got, history, Asks, GetUp, Query
<1> QED
  BY <1>3, <1>4, <1>5, <1>6, <1>7

LEMMA StartHanded ==
  ASSUME HandedInv, NEW d \in Desktops, Start(d), TypeOK', ~undefined
  PROVE  HandedInv'
<1> USE Settled, CredentialsAssumption DEF HandedInv
<1>1. /\ \A o \in Clients \ {d} : st'[o] = st[o]
      /\ st[d].at = "idle"
      /\ st'[d].at \in {"copyUser", "dialog"}
      /\ st'[d].got = Nothing
  BY StartMoves
<1>a. /\ \A o \in Desktops \ {d} : offered'[o] = offered[o]
      /\ st'[d].at = "copyUser" => offered'[d] = {latest}
  <2>1. CASE To(d, "copyUser") /\ offered' = [offered EXCEPT ![d] = {latest}]
    BY <2>1 DEF TypeOK
  <2>2. CASE To(d, "dialog") /\ offered' = offered
    <3>1. st'[d].at = "dialog"
      BY <2>2, GoesAlone DEF To, ClientState
    <3> QED
      BY <2>2, <3>1
  <2> QED
    BY <2>1, <2>2 DEF Start
<1>3. StoresInOrder'
  BY <1>1 DEF Start, StoresInOrder
<1>4. BufferOfLatest'
  BY <1>1 DEF Start, BufferOfLatest, UserBuffer, driverVars, history
<1>5. HandsOver'
  BY <1>1 DEF Start, HandsOver, history
<1>6. Offered'
  BY <1>1, <1>a DEF Start, Offered, history, Asks, GetUp, GetReg, Query
<1>7. Got'
  BY <1>1, <1>a DEF Start, Got, history, Asks, GetUp, Query
<1> QED
  BY <1>3, <1>4, <1>5, <1>6, <1>7

LEMMA CopyUserHanded ==
  ASSUME HandedInv, NEW d \in Desktops, CopyUser(d), TypeOK', ~undefined
  PROVE  HandedInv'
<1> USE Settled, CredentialsAssumption DEF HandedInv
<1>1. /\ \A o \in Clients \ {d} : st'[o] = st[o]
      /\ st[d].at = "copyUser"
      /\ st'[d].at = "copyPassword" /\ st'[d].user = pc2r.user
      /\ st'[d].got = st[d].got
  BY CopyUserMoves
<1>3. StoresInOrder'
  BY <1>1 DEF CopyUser, StoresInOrder
<1>4. BufferOfLatest'
  BY <1>1 DEF CopyUser, BufferOfLatest, UserBuffer, driverVars, history
<1>5. HandsOver'
  BY <1>1 DEF CopyUser, HandsOver, history
<1>6. Offered'
  BY <1>1 DEF CopyUser, Offered, history, Asks, GetUp, GetReg, Query
<1>a. undefined' \/ st'[d].user \in offered[d] \union {NoUser}
  BY <1>1 DEF CopyUser, BufferOfLatest, Offered, Asks, GetUp
<1>b. offered' = offered
  BY DEF CopyUser, history
<1>7. Got'
  BY <1>1, <1>a, <1>b DEF Got, Query
<1> QED
  BY <1>3, <1>4, <1>5, <1>6, <1>7

LEMMA CopyPasswordHanded ==
  ASSUME HandedInv, NEW d \in Desktops, CopyPassword(d), TypeOK', ~undefined
  PROVE  HandedInv'
<1> USE Settled, CredentialsAssumption DEF HandedInv
<1>1. /\ \A o \in Clients \ {d} : st'[o] = st[o]
      /\ st[d].at = "copyPassword"
      /\ st'[d].at = "readHost" /\ st'[d].user = st[d].user /\ st'[d].isAdmin = st[d].isAdmin
      /\ st'[d].got = st[d].got
  BY CopyPasswordMoves
<1>3. StoresInOrder'
  BY <1>1 DEF CopyPassword, StoresInOrder
<1>4. BufferOfLatest'
  BY <1>1 DEF CopyPassword, BufferOfLatest, UserBuffer, driverVars, history
<1>5. HandsOver'
  BY <1>1 DEF CopyPassword, HandsOver, history
<1>6. Offered'
  BY <1>1 DEF CopyPassword, Offered, history, Asks, GetUp, GetReg, Query
<1>7. Got'
  BY <1>1 DEF CopyPassword, Got, history, Asks, GetUp, Query
<1> QED
  BY <1>3, <1>4, <1>5, <1>6, <1>7

LEMMA CopyHostHanded ==
  ASSUME HandedInv, NEW d \in Desktops, CopyHost(d), TypeOK', ~undefined
  PROVE  HandedInv'
<1> USE Settled, CredentialsAssumption DEF HandedInv
<1>1. /\ \A o \in Clients \ {d} : st'[o] = st[o]
      /\ st[d].at = "copyHost"
      /\ st'[d].at = "copyName" /\ st'[d].user = st[d].user /\ st'[d].isAdmin = st[d].isAdmin
      /\ st'[d].got["dbhost"] \in Copied(pc2r.dbhost)
  BY CopyHostMoves
<1>3. StoresInOrder'
  BY <1>1 DEF CopyHost, StoresInOrder
<1>4. BufferOfLatest'
  BY <1>1 DEF CopyHost, BufferOfLatest, UserBuffer, driverVars, history, NewPc2r, HandsOver
<1>5. HandsOver'
  BY <1>1 DEF CopyHost, HandsOver, history
<1>6. Offered'
  BY <1>1 DEF CopyHost, Offered, history, Asks, GetUp, GetReg, Query
<1>7. Got'
  BY <1>1 DEF CopyHost, Got, history, Asks, GetUp, Query
<1> QED
  BY <1>3, <1>4, <1>5, <1>6, <1>7

LEMMA CopyNameHanded ==
  ASSUME HandedInv, NEW d \in Desktops, CopyName(d), TypeOK', ~undefined
  PROVE  HandedInv'
<1> USE Settled, CredentialsAssumption DEF HandedInv
<1>1. /\ \A o \in Clients \ {d} : st'[o] = st[o]
      /\ st[d].at = "copyName"
      /\ st'[d].at = "lowerFlag" /\ st'[d].user = st[d].user /\ st'[d].isAdmin = st[d].isAdmin
      /\ st'[d].got["dbhost"] = st[d].got["dbhost"]
      /\ st'[d].got["dbname"] \in Copied(pc2r.dbname)
  BY CopyNameMoves
<1>3. StoresInOrder'
  BY <1>1 DEF CopyName, StoresInOrder
<1>4. BufferOfLatest'
  BY <1>1 DEF CopyName, BufferOfLatest, UserBuffer, driverVars, history, NewPc2r, HandsOver
<1>5. HandsOver'
  BY <1>1 DEF CopyName, HandsOver, history
<1>6. Offered'
  BY <1>1 DEF CopyName, Offered, history, Asks, GetUp, GetReg, Query
<1>7. Got'
  BY <1>1 DEF CopyName, Got, history, Asks, GetUp, Query
<1> QED
  BY <1>3, <1>4, <1>5, <1>6, <1>7

LEMMA LowerFlagHanded ==
  ASSUME HandedInv, NEW d \in Desktops, LowerFlag(d), TypeOK', ~undefined
  PROVE  HandedInv'
<1> USE Settled, CredentialsAssumption DEF HandedInv
<1>1. /\ \A o \in Clients \ {d} : st'[o] = st[o]
      /\ st[d].at = "lowerFlag"
      /\ st'[d].user = st[d].user /\ st'[d].isAdmin = st[d].isAdmin /\ st'[d].got = st[d].got
      /\ \/ st'[d].at = "dialog" /\ st[d].got = Nothing /\ crowded' = crowded \ {d}
         \/ st'[d].at = "openDB" /\ UNCHANGED crowded
  BY LowerFlagMoves
<1>3. StoresInOrder'
  BY <1>1 DEF LowerFlag, StoresInOrder
<1>4. BufferOfLatest'
  BY <1>1 DEF LowerFlag, BufferOfLatest, UserBuffer, driverVars, history, NewPc2r, HandsOver
<1>5. HandsOver'
  BY <1>1 DEF LowerFlag, HandsOver, history
<1>6. Offered'
  BY <1>1 DEF LowerFlag, Offered, history, Asks, GetUp, GetReg, Query
<1>7. Got'
  BY <1>1 DEF LowerFlag, Got, history, Asks, GetUp, Query
<1> QED
  BY <1>3, <1>4, <1>5, <1>6, <1>7

LEMMA VerifyItHanded ==
  ASSUME HandedInv, NEW d \in Desktops, VerifyIt(d), TypeOK', ~undefined
  PROVE  HandedInv'
<1> USE Settled, CredentialsAssumption DEF HandedInv
<1>1. /\ \A o \in Clients \ {d} : st'[o] = st[o]
      /\ st[d].at = "dialog"
      /\ st'[d].at = "setReg" /\ st'[d].user \in Owners /\ st'[d].pass = st'[d].user /\ st'[d].todo = <<"dbname", "dbhost">>
      /\ st'[d].got = st[d].got
  BY VerifyItMoves
<1>3. StoresInOrder'
  BY <1>1 DEF VerifyIt, StoresInOrder
<1>4. BufferOfLatest'
  BY <1>1 DEF VerifyIt, BufferOfLatest, UserBuffer, driverVars, history
<1>5. HandsOver'
  BY <1>1 DEF VerifyIt, HandsOver, history
<1>6. Offered'
  BY <1>1 DEF VerifyIt, Offered, history, Asks, GetUp, GetReg, Query
<1>7. Got'
  BY <1>1 DEF VerifyIt, Got, history, Asks, GetUp, Query
<1> QED
  BY <1>3, <1>4, <1>5, <1>6, <1>7

LEMMA SetRegHanded ==
  ASSUME HandedInv, NEW d \in Desktops, SetReg(d), TypeOK', ~undefined
  PROVE  HandedInv'
<1> USE Settled, CredentialsAssumption DEF HandedInv
<1>1. /\ \A o \in Clients \ {d} : st'[o] = st[o]
      /\ st[d].at = "setReg"
      /\ \/ /\ st'[d].at = "setReg" /\ st'[d].todo = <<"dbhost">> /\ st[d].todo # <<"dbhost">>
            /\ st'[d].user = st[d].user /\ st'[d].pass = st[d].pass
         \/ st'[d].at = "openDB" /\ st'[d].user = st[d].user /\ st'[d].isAdmin
         \/ st'[d].at = "dialog"
      /\ st'[d].got \in {st[d].got, Nothing} \/ st'[d].got["dbname"] = "right"
  BY SetRegMoves
<1>3. StoresInOrder'
  BY <1>1 DEF SetReg, StoresInOrder
<1>4. BufferOfLatest'
  BY <1>1 DEF SetReg, BufferOfLatest, UserBuffer, driverVars, history
<1>5. HandsOver'
  BY <1>1 DEF SetReg, HandsOver, history
<1>6. Offered'
  BY <1>1 DEF SetReg, Offered, history, Asks, GetUp, GetReg, Query
<1>7. Got'
  BY <1>1 DEF SetReg, Got, history, Asks, GetUp, Query
<1> QED
  BY <1>3, <1>4, <1>5, <1>6, <1>7

LEMMA LoginHanded ==
  ASSUME HandedInv, NEW d \in Desktops, Login(d), TypeOK', ~undefined
  PROVE  HandedInv'
<1> USE Settled, CredentialsAssumption DEF HandedInv
<1>1. /\ \A o \in Clients \ {d} : st'[o] = st[o]
      /\ st[d].at = "openDB"
      /\ /\ st'[d].at = "running" /\ st'[d].user = st[d].user /\ st'[d].pass = st[d].pass
         /\ st[d].isAdmin => st'[d].isAdmin
      /\ st'[d].got = Nothing
  BY LoginMoves
<1>a. /\ UNCHANGED <<pc2r, latest, offered, undefined>> /\ st[d].at = "openDB"
      /\ st[d].pass = st[d].user /\ st[d].user # NoUser
  BY DEF Login, OpenDB, driverVars, history
<1>3. StoresInOrder'
  BY <1>1, <1>a DEF StoresInOrder
<1>4. BufferOfLatest'
  BY <1>1, <1>a DEF BufferOfLatest, UserBuffer, driverVars, history
<1>5. HandsOver'
  BY <1>1, <1>a DEF HandsOver, history
<1>6. Offered'
  BY <1>1, <1>a DEF Offered, history, Asks, GetUp, GetReg, Query
<1>7. Got'
  BY <1>1, <1>a DEF Got, history, Asks, GetUp, Query, OpenDB
<1> QED
  BY <1>3, <1>4, <1>5, <1>6, <1>7

LEMMA QuitsHanded ==
  ASSUME HandedInv, NEW d \in Desktops, Quits(d), TypeOK', ~undefined
  PROVE  HandedInv'
<1> USE Settled, CredentialsAssumption DEF HandedInv
<1>1. /\ \A o \in Clients \ {d} : st'[o] = st[o]
      /\ st[d].at \in {"dialog", "openDB"}
      /\ st'[d].at = "idle"
      /\ st'[d].got = Nothing
  BY QuitsMoves
<1>3. StoresInOrder'
  BY <1>1 DEF Quits, StoresInOrder, Leaves
<1>4. BufferOfLatest'
  BY <1>1 DEF Quits, BufferOfLatest, UserBuffer, driverVars, history, Leaves
<1>5. HandsOver'
  BY <1>1 DEF Quits, HandsOver, history, Leaves
<1>6. Offered'
  BY <1>1 DEF Quits, Offered, history, Asks, GetUp, GetReg, Query, Leaves
<1>7. Got'
  BY <1>1 DEF Quits, Got, history, Asks, GetUp, Query, Leaves
<1> QED
  BY <1>3, <1>4, <1>5, <1>6, <1>7

LEMMA CloseHanded ==
  ASSUME HandedInv, NEW d \in Desktops, Close(d), TypeOK', ~undefined
  PROVE  HandedInv'
<1> USE Settled, CredentialsAssumption DEF HandedInv
<1>1. /\ \A o \in Clients \ {d} : st'[o] = st[o]
      /\ st[d].at = "running"
      /\ st'[d].at = "idle"
      /\ st'[d].got = Nothing
  BY CloseMoves
<1>3. StoresInOrder'
  BY <1>1 DEF Close, StoresInOrder, Leaves
<1>4. BufferOfLatest'
  BY <1>1 DEF Close, BufferOfLatest, UserBuffer, driverVars, history, Leaves
<1>5. HandsOver'
  BY <1>1 DEF Close, HandsOver, history, Leaves
<1>6. Offered'
  BY <1>1 DEF Close, Offered, history, Asks, GetUp, GetReg, Query, Leaves
<1>7. Got'
  BY <1>1 DEF Close, Got, history, Asks, GetUp, Query, Leaves
<1> QED
  BY <1>3, <1>4, <1>5, <1>6, <1>7

LEMMA QueryHanded ==
  ASSUME HandedInv, NEW c \in Clients, QueryDBKey(c), TypeOK', ~undefined
  PROVE  HandedInv'
<1> USE Settled, CredentialsAssumption DEF HandedInv
<1>1. /\ \A o \in Clients \ {c} : st'[o] = st[o]
      /\ st[c].at \in Query /\ st'[c].at \in Query \union {Queried(c)}
      /\ st'[c].user = st[c].user /\ st'[c].isAdmin = st[c].isAdmin
  BY QueryMoves
<1>2. UNCHANGED <<latest, offered>> /\ undefined' \in BOOLEAN
  BY DEF QueryDBKey, ReadHost, ReadName, StoreHost, StoreName, Read, Store, history, TypeOK
<1>3. /\ pc2r'.live = pc2r.live /\ pc2r'.user = pc2r.user /\ pc2r'.pass = pc2r.pass
  <2>1. CASE pc2r' = pc2r
    BY <2>1
  <2>2. CASE \E v \in Strings : pc2r' = [pc2r EXCEPT ![v] = "right"]
    BY <2>2 DEF UserBuffer, Strings
  <2>3. pc2r' = pc2r \/ \E v \in Strings : pc2r' = [pc2r EXCEPT ![v] = "right"]
    BY DEF QueryDBKey, ReadHost, ReadName, StoreHost, StoreName, Read, Store, driverVars, Strings
  <2> QED
    BY <2>1, <2>2, <2>3
<1>4. StoresInOrder'
  BY <1>1 DEF StoresInOrder, Query, Queried
<1>5. BufferOfLatest'
  BY <1>1, <1>2, <1>3 DEF BufferOfLatest, Query, Queried
<1>6. HandsOver'
  BY <1>1, <1>2 DEF HandsOver, Query, Queried
<1>7. Offered'
  BY <1>1, <1>2 DEF Offered, Asks, GetUp, Query, Queried
<1>8. Got'
  BY <1>1, <1>2 DEF Got, Query, Queried
<1> QED
  BY <1>4, <1>5, <1>6, <1>7, <1>8

LEMMA RestartHanded ==
  ASSUME HandedInv, Restart, TypeOK'
  PROVE  HandedInv'
<1> USE Settled, CredentialsAssumption DEF HandedInv
<1>1. \A c \in Clients : st'[c].at = "idle"
  BY IdleType DEF Restart
<1>2. pc2r'.live /\ pc2r'.user = NoUser /\ pc2r'.pass = NoUser
  BY DEF Restart, NewPc2r
<1> QED
  BY <1>1, <1>2 DEF StoresInOrder, BufferOfLatest, HandsOver, Offered, Got, Asks, GetUp, Query

-----------------------------------------------------------------------------
(* No action parts the host from the name. *)

LEMMA LogonPaired ==
  ASSUME HostInv, Logon, TypeOK', ~undefined
  PROVE  HostInv'
<1> USE Settled, CredentialsAssumption DEF HostInv
<1>1. /\ \A o \in Clients \ {CP} : st'[o] = st[o]
      /\ st[CP].at = "idle"
      /\ st'[CP].at \in {"readHost", "openDB"}
      /\ st'[CP].got = Nothing
  BY LogonMoves
<1>2. /\ UNCHANGED <<reg, refused, SkyEyeGetReg, pRTC, pc2r>>
      /\ st'[CP].at = "readHost" => Crowded(CP)
      /\ st'[CP].at # "readHost" => UNCHANGED crowded
  <2>1. \A at : To(CP, at) => st'[CP].at = at
    BY GoesAlone DEF To, ClientState
  <2>2. \/ To(CP, "readHost") /\ Crowded(CP)
        \/ To(CP, "openDB") /\ UNCHANGED crowded
    BY DEF Logon
  <2> QED
    BY <2>1, <2>2 DEF Logon, driverVars
<1>3. StoresInOrder'
  BY <1>1 DEF StoresInOrder
<1>4. RegistryInOrder'
  BY <1>1, <1>2 DEF RegistryInOrder
<1>5. FoundInRegistry'
  BY <1>1, <1>2 DEF FoundInRegistry
<1>6. FlagOfAsker'
  BY <1>1, <1>2 DEF FlagOfAsker, Asks, GetUp, GetReg, Query, Clients, Crowded, Overlaps
<1>7. PairInBuffer'
  BY <1>1, <1>2 DEF PairInBuffer, Crowded, Clients
<1>8. HostComesWithName'
  BY <1>1, <1>2, NothingGot DEF HostComesWithName, Crowded
<1>9. Replaced'
  BY <1>1, <1>2 DEF Replaced, Crowded
<1> QED
  BY <1>3, <1>4, <1>5, <1>6, <1>7, <1>8, <1>9

LEMMA CopyRegHostPaired ==
  ASSUME HostInv, CopyRegHost, TypeOK', ~undefined
  PROVE  HostInv'
<1> USE Settled, CredentialsAssumption DEF HostInv
<1>1. /\ \A o \in Clients \ {CP} : st'[o] = st[o]
      /\ st[CP].at = "copyRegHost"
      /\ st'[CP].at = "copyRegName"
      /\ st'[CP].got["dbhost"] \in Unterminated(pRTC["dbhost"])
  BY CopyRegHostMoves
<1>2. /\ UNCHANGED <<reg, refused, crowded, SkyEyeGetReg, pRTC>>
      /\ pc2r'.dbhost = pc2r.dbhost /\ pc2r'.dbname = pc2r.dbname /\ pc2r'.live = pc2r.live
  BY <1>1 DEF CopyRegHost, driverVars, history, UserBuffer
<1>3. StoresInOrder'
  BY <1>1 DEF StoresInOrder
<1>4. RegistryInOrder'
  BY <1>1, <1>2 DEF RegistryInOrder
<1>5. FoundInRegistry'
  BY <1>1, <1>2 DEF FoundInRegistry
<1>6. FlagOfAsker'
  BY <1>1, <1>2 DEF FlagOfAsker, Asks, GetUp, GetReg, Query, Clients
<1>7. PairInBuffer'
  BY <1>1, <1>2 DEF PairInBuffer, Unterminated
<1>8. HostComesWithName'
  BY <1>1, <1>2 DEF HostComesWithName
<1>9. Replaced'
  BY <1>1, <1>2 DEF Replaced
<1> QED
  BY <1>3, <1>4, <1>5, <1>6, <1>7, <1>8, <1>9

LEMMA CopyRegNamePaired ==
  ASSUME HostInv, CopyRegName, TypeOK', ~undefined
  PROVE  HostInv'
<1> USE Settled, CredentialsAssumption DEF HostInv
<1>1. /\ \A o \in Clients \ {CP} : st'[o] = st[o]
      /\ st[CP].at = "copyRegName"
      /\ st'[CP].at = "openDB"
      /\ st'[CP].got["dbhost"] = st[CP].got["dbhost"]
      /\ st'[CP].got["dbname"] \in Unterminated(pRTC["dbname"])
  BY CopyRegNameMoves
<1>2. /\ UNCHANGED <<reg, refused, crowded, SkyEyeGetReg, pRTC>>
      /\ pc2r'.dbhost = pc2r.dbhost /\ pc2r'.dbname = pc2r.dbname /\ pc2r'.live = pc2r.live
  BY <1>1 DEF CopyRegName, driverVars, history, UserBuffer
<1>3. StoresInOrder'
  BY <1>1 DEF StoresInOrder
<1>4. RegistryInOrder'
  BY <1>1, <1>2 DEF RegistryInOrder
<1>5. FoundInRegistry'
  BY <1>1, <1>2 DEF FoundInRegistry
<1>6. FlagOfAsker'
  BY <1>1, <1>2 DEF FlagOfAsker, Asks, GetUp, GetReg, Query, Clients
<1>7. PairInBuffer'
  BY <1>1, <1>2 DEF PairInBuffer
<1>8. HostComesWithName'
  BY <1>1, <1>2 DEF HostComesWithName, PairInBuffer, Unterminated
<1>9. Replaced'
  BY <1>1, <1>2 DEF Replaced
<1> QED
  BY <1>3, <1>4, <1>5, <1>6, <1>7, <1>8, <1>9

LEMMA CheckLogonPaired ==
  ASSUME HostInv, CheckLogon, TypeOK', ~undefined
  PROVE  HostInv'
<1> USE Settled, CredentialsAssumption DEF HostInv
<1>1. /\ \A o \in Clients \ {CP} : st'[o] = st[o]
      /\ st[CP].at = "openDB"
      /\ st'[CP].at = "idle" \/ (st'[CP].at = "send" /\ st'[CP].user = st'[CP].pass)
      /\ st'[CP].got = Nothing
  BY CheckLogonMoves
<1>2. /\ UNCHANGED <<reg, refused, SkyEyeGetReg, pRTC>>
      /\ crowded' = crowded \ {CP}
      /\ pc2r'.dbhost = pc2r.dbhost /\ pc2r'.dbname = pc2r.dbname /\ pc2r'.live = pc2r.live
  BY <1>1 DEF CheckLogon, driverVars, history, UserBuffer
<1>3. StoresInOrder'
  BY <1>1 DEF StoresInOrder
<1>4. RegistryInOrder'
  BY <1>1, <1>2 DEF RegistryInOrder
<1>5. FoundInRegistry'
  BY <1>1, <1>2 DEF FoundInRegistry
<1>6. FlagOfAsker'
  BY <1>1, <1>2 DEF FlagOfAsker, Asks, GetUp, GetReg, Query, Clients
<1>7. PairInBuffer'
  BY <1>1, <1>2 DEF PairInBuffer
<1>8. HostComesWithName'
  BY <1>1, <1>2, NothingGot DEF HostComesWithName
<1>9. Replaced'
  BY <1>1, <1>2 DEF Replaced
<1> QED
  BY <1>3, <1>4, <1>5, <1>6, <1>7, <1>8, <1>9

LEMMA FreePc2rPaired ==
  ASSUME HostInv, FreePc2r, TypeOK', ~undefined
  PROVE  HostInv'
<1> USE Settled, CredentialsAssumption DEF HostInv
<1>1. /\ \A o \in Clients \ {CP} : st'[o] = st[o]
      /\ st[CP].at = "send"
      /\ st'[CP].at = "allocate" /\ st'[CP].user = st[CP].user /\ st'[CP].pass = st[CP].pass
      /\ st'[CP].got = st[CP].got
  BY FreePc2rMoves
<1>2. /\ UNCHANGED <<reg, refused, SkyEyeGetReg, pRTC>>
      /\ crowded' = crowded \union {d \in Desktops : st[d].at = "copyName"}
      /\ pc2r'.dbhost = pc2r.dbhost /\ pc2r'.dbname = pc2r.dbname /\ ~pc2r'.live
  BY <1>1 DEF FreePc2r, driverVars, history, UserBuffer
<1>3. StoresInOrder'
  BY <1>1 DEF StoresInOrder
<1>4. RegistryInOrder'
  BY <1>1, <1>2 DEF RegistryInOrder
<1>5. FoundInRegistry'
  BY <1>1, <1>2 DEF FoundInRegistry
<1>6. FlagOfAsker'
  BY <1>1, <1>2 DEF FlagOfAsker, Asks, GetUp, GetReg, Query, Clients
<1>7. PairInBuffer'
  BY <1>1, <1>2 DEF PairInBuffer
<1>8. HostComesWithName'
  BY <1>1, <1>2 DEF HostComesWithName
<1>9. Replaced'
  BY <1>1, <1>2 DEF Replaced
<1> QED
  BY <1>3, <1>4, <1>5, <1>6, <1>7, <1>8, <1>9

LEMMA AllocatePc2rPaired ==
  ASSUME HostInv, AllocatePc2r, TypeOK', ~undefined
  PROVE  HostInv'
<1> USE Settled, CredentialsAssumption DEF HostInv
<1>1. /\ \A o \in Clients \ {CP} : st'[o] = st[o]
      /\ st[CP].at = "allocate"
      /\ st'[CP].at = "clear" /\ st'[CP].user = st[CP].user /\ st'[CP].pass = st[CP].pass
      /\ st'[CP].got = st[CP].got
  BY AllocatePc2rMoves
<1>2. /\ UNCHANGED <<reg, refused, crowded, SkyEyeGetReg, pRTC>>
      /\ pc2r'.dbhost = "empty" /\ pc2r'.live
  BY <1>1 DEF AllocatePc2r, driverVars, history, UserBuffer, NewPc2r
<1>3. StoresInOrder'
  BY <1>1 DEF StoresInOrder
<1>4. RegistryInOrder'
  BY <1>1, <1>2 DEF RegistryInOrder
<1>5. FoundInRegistry'
  BY <1>1, <1>2 DEF FoundInRegistry
<1>6. FlagOfAsker'
  BY <1>1, <1>2 DEF FlagOfAsker, Asks, GetUp, GetReg, Query, Clients
<1>7. PairInBuffer'
  BY <1>1, <1>2 DEF PairInBuffer, Replaced
<1>8. HostComesWithName'
  BY <1>1, <1>2 DEF HostComesWithName
<1>9. Replaced'
  BY <1>1, <1>2 DEF Replaced
<1> QED
  BY <1>3, <1>4, <1>5, <1>6, <1>7, <1>8, <1>9

LEMMA ClearPc2rPaired ==
  ASSUME HostInv, ClearPc2r, TypeOK', ~undefined
  PROVE  HostInv'
<1> USE Settled, CredentialsAssumption DEF HostInv
<1>1. /\ \A o \in Clients \ {CP} : st'[o] = st[o]
      /\ st[CP].at = "clear"
      /\ st'[CP].at = "fillUser" /\ st'[CP].user = st[CP].user /\ st'[CP].pass = st[CP].pass
      /\ st'[CP].got = st[CP].got
  BY ClearPc2rMoves
<1>2. /\ UNCHANGED <<reg, refused, crowded, SkyEyeGetReg, pRTC>>
      /\ pc2r'.dbhost = "none" /\ pc2r'.live = pc2r.live
  BY <1>1 DEF ClearPc2r, driverVars, history, UserBuffer
<1>3. StoresInOrder'
  BY <1>1 DEF StoresInOrder
<1>4. RegistryInOrder'
  BY <1>1, <1>2 DEF RegistryInOrder
<1>5. FoundInRegistry'
  BY <1>1, <1>2 DEF FoundInRegistry
<1>6. FlagOfAsker'
  BY <1>1, <1>2 DEF FlagOfAsker, Asks, GetUp, GetReg, Query, Clients
<1>7. PairInBuffer'
  BY <1>1, <1>2 DEF PairInBuffer, Replaced
<1>8. HostComesWithName'
  BY <1>1, <1>2 DEF HostComesWithName
<1>9. Replaced'
  BY <1>1, <1>2 DEF Replaced
<1> QED
  BY <1>3, <1>4, <1>5, <1>6, <1>7, <1>8, <1>9

LEMMA FillUserPaired ==
  ASSUME HostInv, FillUser, TypeOK', ~undefined
  PROVE  HostInv'
<1> USE Settled, CredentialsAssumption DEF HostInv
<1>1. /\ \A o \in Clients \ {CP} : st'[o] = st[o]
      /\ st[CP].at = "fillUser"
      /\ st'[CP].at = "fillPassword" /\ st'[CP].user = st[CP].user /\ st'[CP].pass = st[CP].pass
      /\ st'[CP].got = st[CP].got
  BY FillUserMoves
<1>2. /\ UNCHANGED <<reg, refused, crowded, SkyEyeGetReg, pRTC>>
      /\ pc2r'.dbhost = pc2r.dbhost /\ pc2r'.dbname = pc2r.dbname /\ pc2r'.live = pc2r.live
  BY <1>1 DEF FillUser, driverVars, history, UserBuffer
<1>3. StoresInOrder'
  BY <1>1 DEF StoresInOrder
<1>4. RegistryInOrder'
  BY <1>1, <1>2 DEF RegistryInOrder
<1>5. FoundInRegistry'
  BY <1>1, <1>2 DEF FoundInRegistry
<1>6. FlagOfAsker'
  BY <1>1, <1>2 DEF FlagOfAsker, Asks, GetUp, GetReg, Query, Clients
<1>7. PairInBuffer'
  BY <1>1, <1>2 DEF PairInBuffer
<1>8. HostComesWithName'
  BY <1>1, <1>2 DEF HostComesWithName
<1>9. Replaced'
  BY <1>1, <1>2 DEF Replaced
<1> QED
  BY <1>3, <1>4, <1>5, <1>6, <1>7, <1>8, <1>9

LEMMA FillPasswordPaired ==
  ASSUME HostInv, FillPassword, TypeOK', ~undefined
  PROVE  HostInv'
<1> USE Settled, CredentialsAssumption DEF HostInv
<1>1. /\ \A o \in Clients \ {CP} : st'[o] = st[o]
      /\ st[CP].at = "fillPassword"
      /\ st'[CP].at = "idle"
      /\ st'[CP].got = Nothing
  BY FillPasswordMoves
<1>2. /\ UNCHANGED <<reg, refused, crowded, SkyEyeGetReg, pRTC>>
      /\ pc2r'.dbhost = pc2r.dbhost /\ pc2r'.dbname = pc2r.dbname /\ pc2r'.live = pc2r.live
  BY <1>1 DEF FillPassword, driverVars, history, UserBuffer
<1>3. StoresInOrder'
  BY <1>1 DEF StoresInOrder
<1>4. RegistryInOrder'
  BY <1>1, <1>2 DEF RegistryInOrder
<1>5. FoundInRegistry'
  BY <1>1, <1>2 DEF FoundInRegistry
<1>6. FlagOfAsker'
  BY <1>1, <1>2 DEF FlagOfAsker, Asks, GetUp, GetReg, Query, Clients
<1>7. PairInBuffer'
  BY <1>1, <1>2 DEF PairInBuffer
<1>8. HostComesWithName'
  BY <1>1, <1>2, NothingGot DEF HostComesWithName
<1>9. Replaced'
  BY <1>1, <1>2 DEF Replaced
<1> QED
  BY <1>3, <1>4, <1>5, <1>6, <1>7, <1>8, <1>9

LEMMA StartPaired ==
  ASSUME HostInv, NEW d \in Desktops, Start(d), TypeOK', ~undefined
  PROVE  HostInv'
<1> USE Settled, CredentialsAssumption DEF HostInv
<1>1. /\ \A o \in Clients \ {d} : st'[o] = st[o]
      /\ st[d].at = "idle"
      /\ st'[d].at \in {"copyUser", "dialog"}
      /\ st'[d].got = Nothing
  BY StartMoves
<1>2. /\ UNCHANGED <<reg, refused, pRTC, pc2r>>
      /\ st'[d].at = "copyUser" => Crowded(d) /\ SkyEyeGetReg'
      /\ st'[d].at # "copyUser" => UNCHANGED crowded /\ UNCHANGED SkyEyeGetReg
  <2>1. \A at : To(d, at) => st'[d].at = at
    BY GoesAlone DEF To, ClientState
  <2>2. \/ To(d, "copyUser") /\ Crowded(d) /\ SkyEyeGetReg'
        \/ To(d, "dialog") /\ UNCHANGED crowded /\ UNCHANGED SkyEyeGetReg
    BY DEF Start
  <2> QED
    BY <2>1, <2>2 DEF Start, driverVars
<1>3. StoresInOrder'
  BY <1>1 DEF StoresInOrder
<1>4. RegistryInOrder'
  BY <1>1, <1>2 DEF RegistryInOrder
<1>5. FoundInRegistry'
  BY <1>1, <1>2 DEF FoundInRegistry
<1>6. FlagOfAsker'
  BY <1>1, <1>2 DEF FlagOfAsker, Asks, GetUp, GetReg, Query, Clients, Crowded, Overlaps
<1>7. PairInBuffer'
  BY <1>1, <1>2 DEF PairInBuffer, Crowded, Clients
<1>8. HostComesWithName'
  BY <1>1, <1>2, NothingGot DEF HostComesWithName, Crowded
<1>9. Replaced'
  BY <1>1, <1>2 DEF Replaced, Crowded
<1> QED
  BY <1>3, <1>4, <1>5, <1>6, <1>7, <1>8, <1>9

LEMMA CopyUserPaired ==
  ASSUME HostInv, NEW d \in Desktops, CopyUser(d), TypeOK', ~undefined
  PROVE  HostInv'
<1> USE Settled, CredentialsAssumption DEF HostInv
<1>1. /\ \A o \in Clients \ {d} : st'[o] = st[o]
      /\ st[d].at = "copyUser"
      /\ st'[d].at = "copyPassword" /\ st'[d].user = pc2r.user
      /\ st'[d].got = st[d].got
  BY CopyUserMoves
<1>2. /\ UNCHANGED <<reg, refused, crowded, SkyEyeGetReg, pRTC>>
      /\ pc2r'.dbhost = pc2r.dbhost /\ pc2r'.dbname = pc2r.dbname /\ pc2r'.live = pc2r.live
  BY <1>1 DEF CopyUser, driverVars, history, UserBuffer
<1>3. StoresInOrder'
  BY <1>1 DEF StoresInOrder
<1>4. RegistryInOrder'
  BY <1>1, <1>2 DEF RegistryInOrder
<1>5. FoundInRegistry'
  BY <1>1, <1>2 DEF FoundInRegistry
<1>6. FlagOfAsker'
  BY <1>1, <1>2 DEF FlagOfAsker, Asks, GetUp, GetReg, Query, Clients
<1>7. PairInBuffer'
  BY <1>1, <1>2 DEF PairInBuffer
<1>8. HostComesWithName'
  BY <1>1, <1>2 DEF HostComesWithName
<1>9. Replaced'
  BY <1>1, <1>2 DEF Replaced
<1> QED
  BY <1>3, <1>4, <1>5, <1>6, <1>7, <1>8, <1>9

LEMMA CopyPasswordPaired ==
  ASSUME HostInv, NEW d \in Desktops, CopyPassword(d), TypeOK', ~undefined
  PROVE  HostInv'
<1> USE Settled, CredentialsAssumption DEF HostInv
<1>1. /\ \A o \in Clients \ {d} : st'[o] = st[o]
      /\ st[d].at = "copyPassword"
      /\ st'[d].at = "readHost" /\ st'[d].user = st[d].user /\ st'[d].isAdmin = st[d].isAdmin
      /\ st'[d].got = st[d].got
  BY CopyPasswordMoves
<1>2. /\ UNCHANGED <<reg, refused, crowded, SkyEyeGetReg, pRTC>>
      /\ pc2r'.dbhost = pc2r.dbhost /\ pc2r'.dbname = pc2r.dbname /\ pc2r'.live = pc2r.live
  BY <1>1 DEF CopyPassword, driverVars, history, UserBuffer
<1>3. StoresInOrder'
  BY <1>1 DEF StoresInOrder
<1>4. RegistryInOrder'
  BY <1>1, <1>2 DEF RegistryInOrder
<1>5. FoundInRegistry'
  BY <1>1, <1>2 DEF FoundInRegistry
<1>6. FlagOfAsker'
  BY <1>1, <1>2 DEF FlagOfAsker, Asks, GetUp, GetReg, Query, Clients
<1>7. PairInBuffer'
  BY <1>1, <1>2 DEF PairInBuffer
<1>8. HostComesWithName'
  BY <1>1, <1>2 DEF HostComesWithName
<1>9. Replaced'
  BY <1>1, <1>2 DEF Replaced
<1> QED
  BY <1>3, <1>4, <1>5, <1>6, <1>7, <1>8, <1>9

LEMMA CopyHostPaired ==
  ASSUME HostInv, NEW d \in Desktops, CopyHost(d), TypeOK', ~undefined
  PROVE  HostInv'
<1> USE Settled, CredentialsAssumption DEF HostInv
<1>1. /\ \A o \in Clients \ {d} : st'[o] = st[o]
      /\ st[d].at = "copyHost"
      /\ st'[d].at = "copyName" /\ st'[d].user = st[d].user /\ st'[d].isAdmin = st[d].isAdmin
      /\ st'[d].got["dbhost"] \in Copied(pc2r.dbhost)
  BY CopyHostMoves
<1>2. /\ UNCHANGED <<reg, refused, SkyEyeGetReg, pRTC, pc2r>>
      /\ crowded' = IF st[CP].at = "clear" THEN crowded \union {d} ELSE crowded
      /\ undefined' = ~pc2r.live
  BY <1>1 DEF CopyHost, driverVars
<1>3. StoresInOrder'
  BY <1>1 DEF StoresInOrder
<1>4. RegistryInOrder'
  BY <1>1, <1>2 DEF RegistryInOrder
<1>5. FoundInRegistry'
  BY <1>1, <1>2 DEF FoundInRegistry
<1>6. FlagOfAsker'
  BY <1>1, <1>2 DEF FlagOfAsker, Asks, GetUp, GetReg, Query, Clients
<1>7. PairInBuffer'
  BY <1>1, <1>2 DEF PairInBuffer, Replaced, Copied
<1>8. HostComesWithName'
  BY <1>1, <1>2 DEF HostComesWithName
<1>9. Replaced'
  BY <1>1, <1>2 DEF Replaced
<1> QED
  BY <1>3, <1>4, <1>5, <1>6, <1>7, <1>8, <1>9

LEMMA CopyNamePaired ==
  ASSUME HostInv, NEW d \in Desktops, CopyName(d), TypeOK', ~undefined
  PROVE  HostInv'
<1> USE Settled, CredentialsAssumption DEF HostInv
<1>1. /\ \A o \in Clients \ {d} : st'[o] = st[o]
      /\ st[d].at = "copyName"
      /\ st'[d].at = "lowerFlag" /\ st'[d].user = st[d].user /\ st'[d].isAdmin = st[d].isAdmin
      /\ st'[d].got["dbhost"] = st[d].got["dbhost"]
      /\ st'[d].got["dbname"] \in Copied(pc2r.dbname)
  BY CopyNameMoves
<1>2. /\ UNCHANGED <<reg, refused, crowded, SkyEyeGetReg, pRTC, pc2r>>
  BY <1>1 DEF CopyName, driverVars, history
<1>3. StoresInOrder'
  BY <1>1 DEF StoresInOrder
<1>4. RegistryInOrder'
  BY <1>1, <1>2 DEF RegistryInOrder
<1>5. FoundInRegistry'
  BY <1>1, <1>2 DEF FoundInRegistry
<1>6. FlagOfAsker'
  BY <1>1, <1>2 DEF FlagOfAsker, Asks, GetUp, GetReg, Query, Clients
<1>7. PairInBuffer'
  BY <1>1, <1>2 DEF PairInBuffer
<1>8. HostComesWithName'
  BY <1>1, <1>2 DEF HostComesWithName, PairInBuffer, Copied
<1>9. Replaced'
  BY <1>1, <1>2 DEF Replaced
<1> QED
  BY <1>3, <1>4, <1>5, <1>6, <1>7, <1>8, <1>9

LEMMA LowerFlagPaired ==
  ASSUME HostInv, NEW d \in Desktops, LowerFlag(d), TypeOK', ~undefined
  PROVE  HostInv'
<1> USE Settled, CredentialsAssumption DEF HostInv
<1>1. /\ \A o \in Clients \ {d} : st'[o] = st[o]
      /\ st[d].at = "lowerFlag"
      /\ st'[d].user = st[d].user /\ st'[d].isAdmin = st[d].isAdmin /\ st'[d].got = st[d].got
      /\ \/ st'[d].at = "dialog" /\ st[d].got = Nothing /\ crowded' = crowded \ {d}
         \/ st'[d].at = "openDB" /\ UNCHANGED crowded
  BY LowerFlagMoves
<1>2. UNCHANGED <<reg, refused, pRTC, pc2r>> /\ SkyEyeGetReg' = FALSE
  BY <1>1 DEF LowerFlag
<1>3. StoresInOrder'
  BY <1>1 DEF StoresInOrder
<1>4. RegistryInOrder'
  BY <1>1, <1>2 DEF RegistryInOrder
<1>5. FoundInRegistry'
  BY <1>1, <1>2 DEF FoundInRegistry
<1>6. FlagOfAsker'
  BY <1>1, <1>2 DEF FlagOfAsker, Asks, GetUp, GetReg, Query, Clients
<1>7. PairInBuffer'
  BY <1>1, <1>2 DEF PairInBuffer
<1>8. HostComesWithName'
  BY <1>1, <1>2, NothingGot DEF HostComesWithName
<1>9. Replaced'
  BY <1>1, <1>2 DEF Replaced
<1> QED
  BY <1>3, <1>4, <1>5, <1>6, <1>7, <1>8, <1>9

LEMMA VerifyItPaired ==
  ASSUME HostInv, NEW d \in Desktops, VerifyIt(d), TypeOK', ~undefined
  PROVE  HostInv'
<1> USE Settled, CredentialsAssumption DEF HostInv
<1>1. /\ \A o \in Clients \ {d} : st'[o] = st[o]
      /\ st[d].at = "dialog"
      /\ st'[d].at = "setReg" /\ st'[d].user \in Owners /\ st'[d].pass = st'[d].user /\ st'[d].todo = <<"dbname", "dbhost">>
      /\ st'[d].got = st[d].got
  BY VerifyItMoves
<1>2. /\ UNCHANGED <<reg, refused, crowded, SkyEyeGetReg, pRTC>>
      /\ pc2r'.dbhost = pc2r.dbhost /\ pc2r'.dbname = pc2r.dbname /\ pc2r'.live = pc2r.live
  BY <1>1 DEF VerifyIt, driverVars, history, UserBuffer
<1>3. StoresInOrder'
  BY <1>1 DEF StoresInOrder
<1>4. RegistryInOrder'
  BY <1>1, <1>2 DEF RegistryInOrder
<1>5. FoundInRegistry'
  BY <1>1, <1>2 DEF FoundInRegistry
<1>6. FlagOfAsker'
  BY <1>1, <1>2 DEF FlagOfAsker, Asks, GetUp, GetReg, Query, Clients
<1>7. PairInBuffer'
  BY <1>1, <1>2 DEF PairInBuffer
<1>8. HostComesWithName'
  BY <1>1, <1>2 DEF HostComesWithName
<1>9. Replaced'
  BY <1>1, <1>2 DEF Replaced
<1> QED
  BY <1>3, <1>4, <1>5, <1>6, <1>7, <1>8, <1>9

LEMMA SetRegPaired ==
  ASSUME HostInv, NEW d \in Desktops, SetReg(d), TypeOK', ~undefined
  PROVE  HostInv'
<1> USE Settled, CredentialsAssumption DEF HostInv
<1>1. /\ \A o \in Clients \ {d} : st'[o] = st[o]
      /\ st[d].at = "setReg"
      /\ \/ /\ st'[d].at = "setReg" /\ st'[d].todo = <<"dbhost">> /\ st[d].todo # <<"dbhost">>
            /\ st'[d].user = st[d].user /\ st'[d].pass = st[d].pass
         \/ st'[d].at = "openDB" /\ st'[d].user = st[d].user /\ st'[d].isAdmin
         \/ st'[d].at = "dialog"
      /\ st'[d].got \in {st[d].got, Nothing} \/ st'[d].got["dbname"] = "right"
  BY SetRegMoves
<1>2. /\ UNCHANGED <<crowded, SkyEyeGetReg, pRTC>>
      /\ pc2r'.dbhost = pc2r.dbhost /\ pc2r'.dbname = pc2r.dbname /\ pc2r'.live = pc2r.live
  BY <1>1 DEF SetReg, driverVars, history, UserBuffer
<1>a. /\ reg["dbhost"] => reg'["dbhost"]
      /\ reg["dbname"] => reg'["dbname"]
      /\ refused => refused'
      /\ st[d].todo = <<"dbhost">> \/ refused' \/ reg'["dbname"]
      /\ st[d].todo = <<"dbhost">> \/ reg'["dbhost"] = reg["dbhost"]
  <2>1. PICK accepted \in BOOLEAN :
          /\ reg' = [reg EXCEPT ![Head(st[d].todo)] = @ \/ accepted]
          /\ refused' = (refused \/ ~accepted)
    BY DEF SetReg
  <2>2. \/ st[d].todo = <<"dbhost">> /\ Head(st[d].todo) = "dbhost"
        \/ Head(st[d].todo) = "dbname"
    BY <1>1 DEF StoresInOrder
  <2>3. reg \in [Strings -> BOOLEAN] /\ {"dbhost", "dbname"} = Strings
    BY DEF TypeOK, Strings
  <2>4. CASE st[d].todo = <<"dbhost">> /\ Head(st[d].todo) = "dbhost"
    BY <2>1, <2>3, <2>4
  <2>5. CASE Head(st[d].todo) = "dbname"
    BY <2>1, <2>3, <2>5
  <2> QED
    BY <2>2, <2>4, <2>5
<1>3. StoresInOrder'
  BY <1>1 DEF StoresInOrder
<1>4. RegistryInOrder'
  BY <1>1, <1>2, <1>a DEF RegistryInOrder
<1>5. FoundInRegistry'
  BY <1>1, <1>2, <1>a DEF FoundInRegistry
<1>6. FlagOfAsker'
  BY <1>1, <1>2, <1>a DEF FlagOfAsker, Asks, GetUp, GetReg, Query, Clients
<1>7. PairInBuffer'
  BY <1>1, <1>2, <1>a DEF PairInBuffer
<1>8. HostComesWithName'
  BY <1>1, <1>2, <1>a, NothingGot DEF HostComesWithName
<1>9. Replaced'
  BY <1>1, <1>2 DEF Replaced
<1> QED
  BY <1>3, <1>4, <1>5, <1>6, <1>7, <1>8, <1>9

LEMMA LoginPaired ==
  ASSUME HostInv, NEW d \in Desktops, Login(d), TypeOK', ~undefined
  PROVE  HostInv'
<1> USE Settled, CredentialsAssumption DEF HostInv
<1>1. /\ \A o \in Clients \ {d} : st'[o] = st[o]
      /\ st[d].at = "openDB"
      /\ /\ st'[d].at = "running" /\ st'[d].user = st[d].user /\ st'[d].pass = st[d].pass
         /\ st[d].isAdmin => st'[d].isAdmin
      /\ st'[d].got = Nothing
  BY LoginMoves
<1>2. /\ UNCHANGED <<reg, refused, SkyEyeGetReg, pRTC>>
      /\ crowded' = crowded \ {d}
      /\ pc2r'.dbhost = pc2r.dbhost /\ pc2r'.dbname = pc2r.dbname /\ pc2r'.live = pc2r.live
  BY <1>1 DEF Login, driverVars, history, UserBuffer
<1>3. StoresInOrder'
  BY <1>1 DEF StoresInOrder
<1>4. RegistryInOrder'
  BY <1>1, <1>2 DEF RegistryInOrder
<1>5. FoundInRegistry'
  BY <1>1, <1>2 DEF FoundInRegistry
<1>6. FlagOfAsker'
  BY <1>1, <1>2 DEF FlagOfAsker, Asks, GetUp, GetReg, Query, Clients
<1>7. PairInBuffer'
  BY <1>1, <1>2 DEF PairInBuffer
<1>8. HostComesWithName'
  BY <1>1, <1>2, NothingGot DEF HostComesWithName
<1>9. Replaced'
  BY <1>1, <1>2 DEF Replaced
<1> QED
  BY <1>3, <1>4, <1>5, <1>6, <1>7, <1>8, <1>9

LEMMA QuitsPaired ==
  ASSUME HostInv, NEW d \in Desktops, Quits(d), TypeOK', ~undefined
  PROVE  HostInv'
<1> USE Settled, CredentialsAssumption DEF HostInv
<1>1. /\ \A o \in Clients \ {d} : st'[o] = st[o]
      /\ st[d].at \in {"dialog", "openDB"}
      /\ st'[d].at = "idle"
      /\ st'[d].got = Nothing
  BY QuitsMoves
<1>2. /\ UNCHANGED <<reg, refused, SkyEyeGetReg, pRTC>>
      /\ crowded' = crowded \ {d}
      /\ pc2r'.dbhost = pc2r.dbhost /\ pc2r'.dbname = pc2r.dbname /\ pc2r'.live = pc2r.live
  BY <1>1 DEF Quits, driverVars, history, UserBuffer, Leaves
<1>3. StoresInOrder'
  BY <1>1 DEF StoresInOrder
<1>4. RegistryInOrder'
  BY <1>1, <1>2 DEF RegistryInOrder
<1>5. FoundInRegistry'
  BY <1>1, <1>2 DEF FoundInRegistry
<1>6. FlagOfAsker'
  BY <1>1, <1>2 DEF FlagOfAsker, Asks, GetUp, GetReg, Query, Clients
<1>7. PairInBuffer'
  BY <1>1, <1>2 DEF PairInBuffer
<1>8. HostComesWithName'
  BY <1>1, <1>2, NothingGot DEF HostComesWithName
<1>9. Replaced'
  BY <1>1, <1>2 DEF Replaced
<1> QED
  BY <1>3, <1>4, <1>5, <1>6, <1>7, <1>8, <1>9

LEMMA ClosePaired ==
  ASSUME HostInv, NEW d \in Desktops, Close(d), TypeOK', ~undefined
  PROVE  HostInv'
<1> USE Settled, CredentialsAssumption DEF HostInv
<1>1. /\ \A o \in Clients \ {d} : st'[o] = st[o]
      /\ st[d].at = "running"
      /\ st'[d].at = "idle"
      /\ st'[d].got = Nothing
  BY CloseMoves
<1>2. /\ UNCHANGED <<reg, refused, SkyEyeGetReg, pRTC>>
      /\ crowded' = crowded \ {d}
      /\ pc2r'.dbhost = pc2r.dbhost /\ pc2r'.dbname = pc2r.dbname /\ pc2r'.live = pc2r.live
  BY <1>1 DEF Close, driverVars, history, UserBuffer, Leaves
<1>3. StoresInOrder'
  BY <1>1 DEF StoresInOrder
<1>4. RegistryInOrder'
  BY <1>1, <1>2 DEF RegistryInOrder
<1>5. FoundInRegistry'
  BY <1>1, <1>2 DEF FoundInRegistry
<1>6. FlagOfAsker'
  BY <1>1, <1>2 DEF FlagOfAsker, Asks, GetUp, GetReg, Query, Clients
<1>7. PairInBuffer'
  BY <1>1, <1>2 DEF PairInBuffer
<1>8. HostComesWithName'
  BY <1>1, <1>2, NothingGot DEF HostComesWithName
<1>9. Replaced'
  BY <1>1, <1>2 DEF Replaced
<1> QED
  BY <1>3, <1>4, <1>5, <1>6, <1>7, <1>8, <1>9

(* Who alone asks finds in its own buffer what it stores there. *)
LEMMA QueryPaired ==
  ASSUME HostInv, NEW c \in Clients, QueryDBKey(c), TypeOK', ~undefined
  PROVE  HostInv'
<1> USE Settled, CredentialsAssumption DEF HostInv
<1>1. /\ \A o \in Clients \ {c} : st'[o] = st[o]
      /\ st[c].at \in Query /\ st'[c].at \in Query \union {Queried(c)}
      /\ \/ st[c].at = "readHost" /\ st'[c].at = IF reg["dbhost"] THEN "storeHost" ELSE Queried(c)
         \/ st[c].at = "readName" /\ st'[c].at = IF reg["dbname"] THEN "storeName" ELSE Queried(c)
         \/ st[c].at = "storeHost" /\ st'[c].at = "readName"
         \/ st[c].at = "storeName" /\ st'[c].at = Queried(c)
      /\ st'[c].got = st[c].got
  BY QueryMoves
<1>2. UNCHANGED <<reg, refused, crowded, SkyEyeGetReg>>
  BY DEF QueryDBKey, ReadHost, ReadName, StoreHost, StoreName, Read, Store, driverVars, history
<1>3. /\ pc2r'.dbhost = IF st[c].at = "storeHost" /\ SkyEyeGetReg THEN "right" ELSE pc2r.dbhost
      /\ pc2r'.dbname = IF st[c].at = "storeName" /\ SkyEyeGetReg THEN "right" ELSE pc2r.dbname
      /\ pRTC'["dbhost"] = IF st[c].at = "storeHost" /\ ~SkyEyeGetReg THEN "right" ELSE pRTC["dbhost"]
      /\ pRTC'["dbname"] = IF st[c].at = "storeName" /\ ~SkyEyeGetReg THEN "right" ELSE pRTC["dbname"]
  <2>1. CASE ReadHost(c) \/ ReadName(c)
    BY <2>1 DEF ReadHost, ReadName, Read, driverVars
  <2>2. CASE StoreHost(c)
    BY <2>2 DEF StoreHost, Store, UserBuffer, TypeOK, Strings
  <2>3. CASE StoreName(c)
    BY <2>3 DEF StoreName, Store, UserBuffer, TypeOK, Strings
  <2> QED
    BY <2>1, <2>2, <2>3 DEF QueryDBKey
<1>4. StoresInOrder'
  BY <1>1 DEF StoresInOrder, Query, Queried
<1>5. RegistryInOrder'
  BY <1>1, <1>2 DEF RegistryInOrder, Query, Queried
<1>6. FoundInRegistry'
  BY <1>1, <1>2, <1>3 DEF FoundInRegistry, Queried
<1>7. Asks(c) /\ \A o \in Clients : Asks(o)' <=> Asks(o)
  BY <1>1 DEF Asks, GetUp, GetReg, Query, Queried
<1>8. FlagOfAsker'
  BY <1>2, <1>7 DEF FlagOfAsker
<1>9. PairInBuffer'
  <2>1. \A o \in Clients : o # c /\ Asks(o) => o \in crowded
    BY <1>7 DEF FlagOfAsker
  <2>2. ASSUME ~refused, NEW d \in Desktops, st'[d].at = "copyHost", d \notin crowded,
               pc2r'.dbhost = "right"
        PROVE  pc2r'.dbname = "right"
    <3>1. CASE d = c
      <4>1. SkyEyeGetReg
        BY <1>7, <2>2, <3>1 DEF FlagOfAsker
      <4> QED
        BY <1>1, <1>3, <2>2, <3>1, <4>1 DEF FoundInRegistry, RegistryInOrder, Queried
    <3>2. CASE d # c
      BY <1>1, <2>1, <2>2, <3>2 DEF Asks, GetUp
    <3> QED
      BY <3>1, <3>2
  <2>3. ASSUME ~refused, st'[CP].at = "copyRegHost", CP \notin crowded, pRTC'["dbhost"] = "right"
        PROVE  pRTC'["dbname"] = "right"
    <3>1. CASE CP = c
      <4>1. ~SkyEyeGetReg
        BY <1>7, <2>3, <3>1 DEF FlagOfAsker
      <4> QED
        BY <1>1, <1>3, <2>3, <3>1, <4>1 DEF FoundInRegistry, RegistryInOrder, Queried
    <3>2. CASE CP # c
      BY <1>1, <2>1, <2>3, <3>2 DEF Asks, GetReg
    <3> QED
      BY <3>1, <3>2
  <2>4. ASSUME ~refused, NEW d \in Desktops, st'[d].at = "copyName", d \notin crowded,
               st'[d].got["dbhost"] = "right"
        PROVE  pc2r'.dbname = "right"
    BY <1>1, <1>3, <2>4 DEF PairInBuffer, Query, Queried
  <2>5. ASSUME ~refused, st'[CP].at = "copyRegName", CP \notin crowded,
               st'[CP].got["dbhost"] = "right"
        PROVE  pRTC'["dbname"] = "right"
    BY <1>1, <1>3, <2>5 DEF PairInBuffer, Query, Queried
  <2> QED
    BY <1>2, <2>2, <2>3, <2>4, <2>5 DEF PairInBuffer
<1>10. HostComesWithName'
  BY <1>1, <1>2 DEF HostComesWithName, Query, Queried
<1>11. Replaced'
  <2>1. pc2r'.live = pc2r.live
    BY DEF QueryDBKey, ReadHost, ReadName, StoreHost, StoreName, Read, Store, driverVars, Strings, UserBuffer
  <2> QED
    BY <1>1, <1>2, <1>3, <2>1 DEF Replaced, Query, Queried
<1> QED
  BY <1>4, <1>5, <1>6, <1>8, <1>9, <1>10, <1>11

LEMMA RestartPaired ==
  ASSUME HostInv, Restart, TypeOK'
  PROVE  HostInv'
<1> USE Settled, CredentialsAssumption DEF HostInv
<1>1. \A c \in Clients : st'[c].at = "idle" /\ st'[c].got = Nothing
  BY IdleType DEF Restart
<1>2. /\ pc2r'.dbhost = "none" /\ pc2r'.live /\ pRTC'["dbhost"] = "none" /\ ~SkyEyeGetReg'
      /\ reg' = reg /\ refused' = refused
  BY NothingGot DEF Restart, NewPc2r
<1>3. StoresInOrder' /\ RegistryInOrder' /\ FoundInRegistry' /\ PairInBuffer' /\ Replaced'
  BY <1>1, <1>2 DEF StoresInOrder, RegistryInOrder, FoundInRegistry, PairInBuffer, Replaced
<1>4. FlagOfAsker'
  BY <1>1, <1>2 DEF FlagOfAsker, Asks, GetUp, GetReg, Query
<1>5. HostComesWithName'
  BY <1>1, NothingGot DEF HostComesWithName
<1> QED
  BY <1>3, <1>4, <1>5

-----------------------------------------------------------------------------
(* The theorems. *)

LEMMA TypeInit == Init => TypeOK
<1> SUFFICES ASSUME Init PROVE TypeOK
  OBVIOUS
<1>1. st \in [Clients -> ClientState]
  BY IdleType DEF Init
<1>2. /\ pc2r \in UserBuffer /\ pRTC \in [Strings -> {"none", "right"}]
      /\ SkyEyeGetReg \in BOOLEAN /\ undefined \in BOOLEAN /\ refused \in BOOLEAN
      /\ reg \in [Strings -> BOOLEAN]
  BY BufferType DEF Init
<1>3. /\ latest \in Known /\ offered \in [Desktops -> SUBSET Known]
      /\ crowded \subseteq Clients /\ events \in 0 .. MaxEvents
  BY CredentialsAssumption DEF Init, Known
<1> QED
  BY <1>1, <1>2, <1>3 DEF TypeOK

LEMMA TypeStep == TypeOK /\ StoresInOrder /\ [Next]_vars => TypeOK'
<1> SUFFICES ASSUME TypeOK, StoresInOrder, [Next]_vars PROVE TypeOK'
  OBVIOUS
<1>1. CASE LogonScreen
  BY <1>1, LogonScreenType
<1>2. CASE Restart
  <2>1. st' \in [Clients -> ClientState]
    BY <1>2, IdleType DEF Restart
  <2>2. pc2r' \in UserBuffer /\ pRTC' \in [Strings -> {"none", "right"}] /\ SkyEyeGetReg' \in BOOLEAN
    BY <1>2, BufferType DEF Restart
  <2>3. /\ latest' \in Known /\ offered' \in [Desktops -> SUBSET Known]
        /\ crowded' \subseteq Clients /\ events' \in 0 .. MaxEvents
    BY <1>2, CredentialsAssumption DEF Restart, Known, TypeOK, Event
  <2> QED
    BY <1>2, <2>1, <2>2, <2>3 DEF Restart, TypeOK
<1>3. ASSUME NEW d \in Desktops, Desktop(d) PROVE TypeOK'
  BY <1>3, DesktopType
<1>4. ASSUME NEW c \in Clients, QueryDBKey(c) PROVE TypeOK'
  BY <1>4, ReadType, StoreType DEF QueryDBKey
<1>5. CASE UNCHANGED vars
  BY <1>5 DEF vars, driverVars, history, TypeOK
<1> QED
  BY <1>1, <1>2, <1>3, <1>4, <1>5 DEF Next

LEMMA HandedInit == Init => HandedInv
<1> SUFFICES ASSUME Init PROVE HandedInv
  OBVIOUS
<1>1. TypeOK
  BY TypeInit
<1>2. \A c \in Clients : st[c].at = "idle"
  BY IdleType DEF Init
<1>3. pc2r.live /\ pc2r.user = NoUser /\ pc2r.pass = NoUser
  BY DEF Init, NewPc2r
<1> QED
  BY <1>1, <1>2, <1>3, Settled
  DEF HandedInv, StoresInOrder, BufferOfLatest, HandsOver, Offered, Got, Asks, GetUp, Query

LEMMA HandedStep == HandedInv /\ [Next]_vars => HandedInv'
<1> SUFFICES ASSUME HandedInv, [Next]_vars PROVE HandedInv'
  OBVIOUS
<1>0. TypeOK'
  BY TypeStep DEF HandedInv
<1>1. CASE UNCHANGED vars
  BY <1>1 DEF HandedInv, TypeOK, StoresInOrder, BufferOfLatest, HandsOver, Offered, Got,
              vars, driverVars, history, Asks
<1>2. CASE ~undefined /\ LogonScreen
  BY <1>0, <1>2, LogonHanded, CopyRegHostHanded, CopyRegNameHanded, CheckLogonHanded, FreePc2rHanded,
     AllocatePc2rHanded, ClearPc2rHanded, FillUserHanded, FillPasswordHanded DEF LogonScreen
<1>3. CASE Restart
  BY <1>0, <1>3, RestartHanded
<1>4. ASSUME ~undefined, NEW d \in Desktops, Desktop(d) PROVE HandedInv'
  BY <1>0, <1>4, StartHanded, CopyUserHanded, CopyPasswordHanded, CopyHostHanded, CopyNameHanded, LowerFlagHanded,
     VerifyItHanded, SetRegHanded, LoginHanded, QuitsHanded, CloseHanded DEF Desktop
<1>5. ASSUME ~undefined, NEW c \in Clients, QueryDBKey(c) PROVE HandedInv'
  BY <1>0, <1>5, QueryHanded
<1> QED
  BY <1>1, <1>2, <1>3, <1>4, <1>5 DEF Next

(* Every variable keeps its type. *)
THEOREM TypeCorrect == Spec => []TypeOK
<1>1. HandedInv => TypeOK
  BY DEF HandedInv
<1> QED
  BY <1>1, HandedInit, HandedStep, PTL DEF Spec

(* A desktop runs as one user, whose password the database knows and who   *)
(* was handed over to it or owns the machine, for any number of users,     *)
(* desktops, logons and restarts, however the questions to the driver and  *)
(* the answers it overwrites overlap.                                      *)
THEOREM NoMixing == Spec => []RunsAsWhoLoggedOn
<1>1. HandedInv => RunsAsWhoLoggedOn
  BY DEF HandedInv, Got, RunsAsWhoLoggedOn
<1> QED
  BY <1>1, HandedInit, HandedStep, PTL DEF Spec

LEMMA HostInit == Init => HostInv
<1> SUFFICES ASSUME Init PROVE HostInv
  OBVIOUS
<1>1. TypeOK
  BY TypeInit
<1>2. \A c \in Clients : st[c].at = "idle" /\ st[c].got = Nothing
  BY IdleType DEF Init
<1>3. pc2r.dbhost = "none" /\ pc2r.live /\ pRTC["dbhost"] = "none" /\ ~SkyEyeGetReg /\ ~reg["dbhost"]
  BY NothingGot DEF Init, NewPc2r, Strings
<1>4. StoresInOrder /\ RegistryInOrder /\ FoundInRegistry /\ PairInBuffer /\ Replaced
  BY <1>1, <1>2, <1>3, Settled
  DEF StoresInOrder, RegistryInOrder, FoundInRegistry, PairInBuffer, Replaced
<1>5. FlagOfAsker
  BY <1>1, <1>2, <1>3, Settled DEF FlagOfAsker, Asks, GetUp, GetReg, Query
<1>6. HostComesWithName
  BY <1>2, NothingGot DEF HostComesWithName
<1> QED
  BY <1>1, <1>4, <1>5, <1>6 DEF HostInv

LEMMA HostStep == HostInv /\ [Next]_vars => HostInv'
<1> SUFFICES ASSUME HostInv, [Next]_vars PROVE HostInv'
  OBVIOUS
<1>0. TypeOK'
  BY TypeStep DEF HostInv
<1>1. CASE UNCHANGED vars
  BY <1>1 DEF HostInv, TypeOK, StoresInOrder, RegistryInOrder, FoundInRegistry, FlagOfAsker,
              PairInBuffer, Replaced, HostComesWithName, vars, driverVars, history, Asks
<1>2. CASE ~undefined /\ LogonScreen
  BY <1>0, <1>2, LogonPaired, CopyRegHostPaired, CopyRegNamePaired, CheckLogonPaired,
     FreePc2rPaired, AllocatePc2rPaired, ClearPc2rPaired, FillUserPaired, FillPasswordPaired DEF LogonScreen
<1>3. CASE Restart
  BY <1>0, <1>3, RestartPaired
<1>4. ASSUME ~undefined, NEW d \in Desktops, Desktop(d) PROVE HostInv'
  BY <1>0, <1>4, StartPaired, CopyUserPaired, CopyPasswordPaired, CopyHostPaired,
     CopyNamePaired, LowerFlagPaired, VerifyItPaired, SetRegPaired, LoginPaired, QuitsPaired, ClosePaired DEF Desktop
<1>5. ASSUME ~undefined, NEW c \in Clients, QueryDBKey(c) PROVE HostInv'
  BY <1>0, <1>5, QueryPaired
<1> QED
  BY <1>1, <1>2, <1>3, <1>4, <1>5 DEF Next

(* Who asks alone and gets the host of the database gets its name as well, *)
(* whatever the owner of the database stores meanwhile, and however often  *)
(* logons replace the buffer before the host is copied or after the name.  *)
THEOREM HostWithName == Spec => []HostComesWithName
<1>1. HostInv => HostComesWithName
  BY DEF HostInv
<1> QED
  BY <1>1, HostInit, HostStep, PTL DEF Spec
=============================================================================
