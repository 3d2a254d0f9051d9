---------------------------- MODULE ServerProofs ----------------------------
(***************************************************************************)
(* Theorems about Server, one part after the other, for any requests,      *)
(* keys, names, windows, limits, months and timers.                        *)
(***************************************************************************)
EXTENDS Server, SequenceTheorems, FiniteSetTheorems, SumProofs, TLAPS

-----------------------------------------------------------------------------
(* What a step of the server is to each of its parts.                      *)
LEMMA PartsStep ==
    ASSUME [ServerNext]_allVars
    PROVE  /\ [Next]_vars /\ [Pre!Next]_preVars /\ [Grd!Next]_grdVars /\ [Pic!Next]_picVars
           /\ [Bak!Next]_bakVars /\ [Hks!Next]_hksVars /\ [Cal!Next]_calVars
  BY DEF ServerNext, AccountsStep, PresenceStep, GuardStep, PicturesStep, BackupsStep,
     WebhooksStep, CalendarStep, allVars, accVars

-----------------------------------------------------------------------------
(* Accounts.                                                               *)

(* A request that arrived barred finds the account still blocked at every  *)
(* await, and has not been let in.                                         *)
BarredInv ==
    \A c \in Callers :
        ~At(c, "idle") /\ caller[c].barred => row = "blocked" /\ ~At(c, "admitted")

AccountsInv == TypeOK /\ BarredInv

(* A request that goes from one await to another keeps its record.         *)
LEMMA GotoKeeps ==
    ASSUME TypeOK, NEW c \in Callers, ~At(c, "idle"), NEW pc \in Steps, Goto(c, pc)
    PROVE  /\ caller' = [caller EXCEPT ![c] = [pc |-> pc, barred |-> caller[c].barred]]
           /\ caller[c].barred \in BOOLEAN
  <1>1. caller[c] \in [pc : Steps, barred : BOOLEAN]
    BY DEF TypeOK, At, Idle
  <1>2. [caller[c] EXCEPT !.pc = pc] = [pc |-> pc, barred |-> caller[c].barred]
    BY <1>1
  <1> QED
    BY <1>1, <1>2 DEF Goto

(* What a step may do to the requests: nothing, or one of them arrives,    *)
(* goes on or leaves.                                                      *)
LEMMA StepsKeepInv == AccountsInv /\ [Next]_vars => AccountsInv'
  <1> SUFFICES ASSUME AccountsInv, [Next]_vars PROVE AccountsInv'
    OBVIOUS
  <1> USE DEF AccountsInv
  <1>1. ASSUME NEW c \in Callers, NEW pc \in Steps, ~At(c, "idle"), Goto(c, pc),
               pc = "admitted" => row # "blocked",
               row' \in {"none", "open", "blocked"}, row = "blocked" => row' = "blocked"
        PROVE  /\ caller' \in [Callers -> {Idle} \cup [pc : Steps, barred : BOOLEAN]]
               /\ BarredInv'
    <2>1. caller' = [caller EXCEPT ![c] = [pc |-> pc, barred |-> caller[c].barred]]
          /\ caller[c].barred \in BOOLEAN
      BY <1>1, GotoKeeps
    <2> QED
      BY <1>1, <2>1 DEF BarredInv, TypeOK, At, Idle, Steps
  <1>2. ASSUME NEW c \in Callers, Leaves(c), UNCHANGED row
        PROVE  /\ caller' \in [Callers -> {Idle} \cup [pc : Steps, barred : BOOLEAN]]
               /\ BarredInv'
    BY <1>2 DEF BarredInv, TypeOK, At, Idle, Leaves
  <1>3. ASSUME NEW c \in Callers, NEW pc \in Steps, Arrives(c, pc), UNCHANGED row,
               pc = "admitted" => row = "open"
        PROVE  /\ caller' \in [Callers -> {Idle} \cup [pc : Steps, barred : BOOLEAN]]
               /\ BarredInv'
    BY <1>3 DEF BarredInv, TypeOK, At, Idle, Arrives, Steps
  <1>4. ASSUME caller' = Forgiven \/ caller' = [c \in Callers |-> Idle]
        PROVE  /\ caller' \in [Callers -> {Idle} \cup [pc : Steps, barred : BOOLEAN]]
               /\ BarredInv'
    <2>1. \A c \in Callers : caller[c] = Idle \/ caller[c] \in [pc : Steps, barred : BOOLEAN]
      BY DEF TypeOK
    <2>2. \A c \in Callers : Forgiven[c] = Idle
                \/ (Forgiven[c] \in [pc : Steps, barred : BOOLEAN] /\ ~Forgiven[c].barred)
      BY <2>1 DEF Forgiven, At, Idle
    <2>3. Forgiven \in [Callers -> {Idle} \cup [pc : Steps, barred : BOOLEAN]]
      BY <2>2 DEF Forgiven
    <2>4. \A c \in Callers : caller'[c] = Idle \/ ~caller'[c].barred
      BY <1>4, <2>2
    <2> QED
      BY <1>4, <2>3, <2>4 DEF BarredInv, At, Idle
  <1> DEFINE Kept == TypeOK' /\ BarredInv'
  <1>a. ASSUME UNCHANGED <<row, caller>>,
               listed' \in BOOLEAN, cached' \in BOOLEAN, cookie' \in BOOLEAN,
               link' \in BOOLEAN, operator' \in {"idle", "clear"}
        PROVE  Kept
    BY <1>a DEF TypeOK, BarredInv, At
  <1>b. ASSUME NEW c \in Callers, LauncherCalls(c) PROVE Kept
    BY <1>b, <1>3 DEF LauncherCalls, Steps, TypeOK, tickets
  <1>c. ASSUME NEW c \in Callers, Verify(c) PROVE Kept
    BY <1>c, <1>1, <1>2 DEF Verify, Steps, TypeOK, tickets, At
  <1>d. ASSUME NEW c \in Callers, Upsert(c) PROVE Kept
    BY <1>d, <1>1 DEF Upsert, UpsertRow, Steps, TypeOK, tickets, At
  <1>e. ASSUME NEW c \in Callers, Remember(c) PROVE Kept
    BY <1>e, <1>1 DEF Remember, Steps, TypeOK, tickets, At
  <1>f. ASSUME NEW c \in Callers, CheckAllowed(c) PROVE Kept
    BY <1>f, <1>1, <1>2 DEF CheckAllowed, Steps, TypeOK, tickets, At
  <1>g. ASSUME NEW c \in Callers, Touch(c) PROVE Kept
    BY <1>g, <1>1, <1>2 DEF Touch, Blocked, Steps, TypeOK, tickets, At
  <1>h. ASSUME NEW c \in Callers, Serve(c) PROVE Kept
    BY <1>h, <1>2 DEF Serve, TypeOK, tickets
  <1>i. ASSUME NEW c \in Callers, PortalLogin(c) PROVE Kept
    BY <1>i, <1>3 DEF PortalLogin, Steps, TypeOK, tickets
  <1>j. ASSUME NEW c \in Callers, PortalTouch(c) PROVE Kept
    BY <1>j, <1>1, <1>2 DEF PortalTouch, Blocked, Steps, TypeOK, At
  <1>k. ASSUME NEW c \in Callers, LinkSignIn(c) PROVE Kept
    BY <1>k, <1>3 DEF LinkSignIn, Steps, TypeOK
  <1>l. ASSUME NEW c \in Callers, PortalCalls(c) PROVE Kept
    BY <1>l, <1>3 DEF PortalCalls, SessionStands, Steps, TypeOK, tickets
  <1>m. CASE SignOut \/ LinkExpires \/ TokenForgotten \/ MintLink \/ SetListed \/ ClearCache
    BY <1>m, <1>a DEF SignOut, LinkExpires, TokenForgotten, MintLink, SetListed, ClearCache,
       TypeOK, tickets
  <1>n. ASSUME NEW status \in {"open", "blocked"}, SetBlocked(status) PROVE Kept
    <2>1. CASE status = "open"
      BY <1>n, <2>1, <1>4 DEF SetBlocked, TypeOK, tickets
    <2>2. CASE status = "blocked"
      BY <1>n, <2>2 DEF SetBlocked, TypeOK, tickets, BarredInv, At
    <2> QED
      BY <2>1, <2>2
  <1>o. CASE DeleteUser
    BY <1>o, <1>4 DEF DeleteUser, TypeOK, tickets
  <1>p. CASE Restart
    BY <1>p, <1>4 DEF Restart, TypeOK, tickets
  <1>q. CASE UNCHANGED vars
    BY <1>q, <1>a DEF vars, tickets, TypeOK
  <1> QED
    BY <1>b, <1>c, <1>d, <1>e, <1>f, <1>g, <1>h, <1>i, <1>j, <1>k, <1>l, <1>m, <1>n, <1>o,
       <1>p, <1>q DEF Next

LEMMA InitAccounts == Init => AccountsInv
  <1> SUFFICES ASSUME Init PROVE TypeOK /\ BarredInv
    BY DEF AccountsInv
  <1>1. TypeOK
    BY DEF Init, TypeOK
  <1>2. BarredInv
    BY DEF Init, BarredInv, At, Idle
  <1> QED
    BY <1>1, <1>2

(* No request that arrives while the account is blocked is let in before   *)
(* it is unblocked or deleted, for any number of requests, and whatever is *)
(* cached, signed or under way.                                            *)
THEOREM BlockHolds == ServerSpec => []BlockedIsOut
  <1>1. ServerInit => AccountsInv
    BY InitAccounts DEF ServerInit
  <1>2. AccountsInv => BlockedIsOut
    BY DEF AccountsInv, BarredInv, BlockedIsOut, At
  <1>3. AccountsInv /\ [ServerNext]_allVars => AccountsInv'
    BY PartsStep, StepsKeepInv
  <1> QED
    BY <1>1, <1>2, <1>3, PTL DEF ServerSpec

-----------------------------------------------------------------------------
(* Presence.  Memory and the row are read in the tick in which they are    *)
(* written, so that while an announcement is ahead of its bump the entry   *)
(* in memory is of this tick, and no other request asks the row.           *)
PresenceInv ==
    /\ seen \in Nat \cup {Pre!Never} /\ lastSeen \in Nat /\ quiet = lastSeen
    /\ call \in [Callers -> {Pre!Idle} \cup [pc : {"enter", "ask", "bump"}]]
    /\ announced \in {0, 1}
    /\ \A c, o \in Callers : Pre!At(c, "ask") /\ Pre!At(o, "ask") => c = o
    /\ \A c \in Callers : Pre!At(c, "ask") => Pre!Previous(c) # Pre!Never
    /\ announced = 1 /\ lastSeen >= IdleWindow =>
        /\ seen # Pre!Never /\ seen < IdleWindow
        /\ \A c \in Callers : ~Pre!At(c, "ask")
        /\ \E c \in Callers : Pre!At(c, "bump")

LEMMA InitPresence == Pre!Init => PresenceInv
  BY IdleWindowAssumption DEF PresenceInv, Pre!Init, Pre!Never, Pre!Idle, Pre!At

LEMMA StepPresence ==
    ASSUME PresenceInv, [Pre!Next]_preVars
    PROVE  PresenceInv'
  <1> USE IdleWindowAssumption DEF PresenceInv, Pre!Never, Pre!Idle, Pre!At, Pre!Previous
  <1>1. CASE Pre!Tick
    BY <1>1 DEF Pre!Tick, Pre!Older
  <1>2. CASE Pre!Restart
    BY <1>2 DEF Pre!Restart
  <1>3. ASSUME NEW c \in Callers, Pre!Look(c) PROVE PresenceInv'
    BY <1>3 DEF Pre!Look, Pre!Goto
  <1>4. ASSUME NEW c \in Callers, Pre!Enter(c) PROVE PresenceInv'
    BY <1>4 DEF Pre!Enter, Pre!Goto
  <1>5. ASSUME NEW c \in Callers, Pre!Ask(c) PROVE PresenceInv'
    BY <1>5 DEF Pre!Ask, Pre!Goto
  <1>6. ASSUME NEW c \in Callers, Pre!Bump(c) PROVE PresenceInv'
    BY <1>6 DEF Pre!Bump, Pre!Goto
  <1>7. CASE UNCHANGED preVars
    BY <1>7 DEF preVars
  <1> QED
    BY <1>1, <1>2, <1>3, <1>4, <1>5, <1>6, <1>7 DEF Pre!Next

(* A user who comes back is announced once, however many requests the      *)
(* launcher opens with, and whatever a restart forgets between requests.   *)
THEOREM ArrivalsOnce == ServerSpec => []AnnouncedOnce
  <1>1. ServerInit => PresenceInv
    BY InitPresence DEF ServerInit
  <1>2. PresenceInv => AnnouncedOnce
    BY DEF PresenceInv, AnnouncedOnce, Pre!AnnouncedOnce
  <1>3. PresenceInv /\ [ServerNext]_allVars => PresenceInv'
    BY PartsStep, StepPresence
  <1> QED
    BY <1>1, <1>2, <1>3, PTL DEF ServerSpec

-----------------------------------------------------------------------------
(* LoginGuard.  The misses of the window that counts are the last          *)
(* entry.failures; those before it are at least as old as it.  A lockout   *)
(* outlasts every miss but those that came too late to renew it, and while *)
(* it lasts a sign-in under way has one miss left to make, and no more     *)
(* come.                                                                   *)
Busy == {c \in Callers : try[c] # "idle"}
Most == 2 * (MaxAttempts - 1) + Cardinality(Callers)

GuardEntries == [failures : Nat, age : 0..MissWindow, lock : 0..Lockout]

GuardTyped ==
    /\ entry \in GuardEntries
    /\ try = [c \in Callers |-> try[c]]
    /\ misses \in Seq(0..(MissWindow - 1))

Outlasted(n) == \A i \in 1..Len(misses) : i <= n => misses[i] + entry.lock >= Lockout

GuardInv ==
    /\ GuardTyped
    /\ \A i \in 1..Len(misses) : i <= Len(misses) - entry.failures => misses[i] >= entry.age
    /\ entry.failures >= MaxAttempts => Outlasted(Len(misses))
    /\ entry.failures >= MaxAttempts /\ entry.age < MissWindow => entry.lock + entry.age >= Lockout
    /\ Outlasted(Len(misses) - entry.failures - (MaxAttempts - 1))
    /\ entry.lock > 0 => Len(misses) + Cardinality(Busy) <= Most

LEMMA GuardEntriesStay ==
    ASSUME NEW k \in GuardEntries
    PROVE  /\ [k EXCEPT !.failures = @ + 1] \in GuardEntries
           /\ [k EXCEPT !.failures = 1, !.age = 0] \in GuardEntries
           /\ [k EXCEPT !.lock = Lockout] \in GuardEntries
           /\ \A age \in 0..MissWindow, lock \in 0..Lockout :
                 [k EXCEPT !.age = age, !.lock = lock] \in GuardEntries
  <1>1. [k EXCEPT !.failures = @ + 1] \in GuardEntries
    BY DEF GuardEntries
  <1>2. ASSUME NEW n \in Nat, NEW age \in 0..MissWindow
        PROVE  [k EXCEPT !.failures = n, !.age = age] \in GuardEntries
    BY DEF GuardEntries
  <1>3. [k EXCEPT !.lock = Lockout] \in GuardEntries
    BY GuardAssumption DEF GuardEntries
  <1>4. ASSUME NEW age \in 0..MissWindow, NEW lock \in 0..Lockout
        PROVE  [k EXCEPT !.age = age, !.lock = lock] \in GuardEntries
    BY DEF GuardEntries
  <1>5. 1 \in Nat /\ 0 \in 0..MissWindow
    BY GuardAssumption
  <1> QED
    BY <1>1, <1>2, <1>3, <1>4, <1>5

LEMMA BusySize ==
    ASSUME IsFiniteSet(Callers)
    PROVE  /\ Cardinality(Callers) \in Nat /\ Cardinality(Busy) \in Nat
           /\ Cardinality(Busy) <= Cardinality(Callers)
           /\ \A c \in Busy : Cardinality(Busy \ {c}) = Cardinality(Busy) - 1
  <1>1. Busy \subseteq Callers
    BY DEF Busy
  <1>2. IsFiniteSet(Busy) /\ Cardinality(Busy) <= Cardinality(Callers)
    BY <1>1, FS_Subset
  <1> QED
    BY <1>2, FS_CardinalityType, FS_RemoveElement

LEMMA EmptySlate ==
    ASSUME misses = <<>>, entry = Grd!Nothing, try = [c \in Callers |-> try[c]]
    PROVE  GuardInv
  <1>1. Len(misses) = 0 /\ 1..0 = {} /\ entry.lock = 0 /\ entry.failures = 0
    BY DEF Grd!Nothing
  <1>2. GuardTyped
    BY GuardAssumption DEF GuardTyped, GuardEntries, Grd!Nothing
  <1> QED
    BY <1>1, <1>2, GuardAssumption DEF GuardInv, Outlasted

LEMMA SlateCleared ==
    ASSUME misses' = <<>>, entry' = Grd!Nothing, try' = [c \in Callers |-> try'[c]]
    PROVE  GuardInv'
  <1>1. Len(misses') = 0 /\ 1..0 = {} /\ entry'.lock = 0 /\ entry'.failures = 0
    BY DEF Grd!Nothing
  <1>2. GuardTyped'
    BY GuardAssumption DEF GuardTyped, GuardEntries, Grd!Nothing
  <1> QED
    BY <1>1, <1>2, GuardAssumption DEF GuardInv, Outlasted

(* What holds when no lockout is on.                                       *)
LEMMA Unlocked ==
    ASSUME GuardInv, MissWindow <= Lockout, entry.lock = 0
    PROVE  /\ entry.age < MissWindow => entry.failures < MaxAttempts
           /\ Len(misses) <= entry.failures + (MaxAttempts - 1)
           /\ entry.age = MissWindow => Len(misses) < MaxAttempts
  <1> USE GuardAssumption
  <1>1. /\ entry.failures \in Nat /\ entry.age \in 0..MissWindow
        /\ Len(misses) \in Nat /\ \A i \in 1..Len(misses) : misses[i] \in 0..(MissWindow - 1)
    BY DEF GuardInv, GuardTyped, GuardEntries
  <1>2. \A i \in 1..Len(misses) : ~(misses[i] + entry.lock >= Lockout)
    BY <1>1
  <1>3. Len(misses) <= entry.failures + (MaxAttempts - 1)
    <2>1. SUFFICES ASSUME Len(misses) > entry.failures + (MaxAttempts - 1) PROVE FALSE
      BY <1>1
    <2>2. 1 \in 1..Len(misses) /\ 1 <= Len(misses) - entry.failures - (MaxAttempts - 1)
      BY <2>1, <1>1
    <2> QED
      BY <2>2, <1>2 DEF GuardInv, Outlasted
  <1>4. entry.age < MissWindow => entry.failures < MaxAttempts
    BY <1>1 DEF GuardInv
  <1>5. ASSUME entry.age = MissWindow PROVE Len(misses) < MaxAttempts
    <2>1. SUFFICES ASSUME Len(misses) >= MaxAttempts PROVE FALSE
      BY <1>1
    <2>2. 1 \in 1..Len(misses)
      BY <2>1, <1>1
    <2>3. ~(entry.failures >= MaxAttempts)
      BY <2>2, <1>1, <1>2 DEF GuardInv, Outlasted
    <2>4. 1 <= Len(misses) - entry.failures
      BY <2>1, <2>3, <1>1
    <2>5. misses[1] >= entry.age
      BY <2>2, <2>4 DEF GuardInv
    <2> QED
      BY <2>2, <2>5, <1>1, <1>5
  <1> QED
    BY <1>3, <1>4, <1>5

LEMMA Appended ==
    ASSUME GuardTyped, misses' = Append(misses, 0)
    PROVE  /\ Len(misses)' = Len(misses) + 1
           /\ \A i \in 1..Len(misses) : misses'[i] = misses[i]
           /\ misses'[Len(misses) + 1] = 0
           /\ misses' \in Seq(0..(MissWindow - 1))
  BY GuardAssumption DEF GuardTyped

LEMMA BusyStays ==
    ASSUME GuardTyped, NEW c \in Callers, NEW pc, Grd!Goto(c, pc)
    PROVE  /\ try' = [d \in Callers |-> try'[d]]
           /\ Busy' = IF pc = "idle" THEN Busy \ {c} ELSE Busy \cup {c}
  <1>1. /\ try'[c] = pc /\ \A d \in Callers \ {c} : try'[d] = try[d]
        /\ try' = [d \in Callers |-> try'[d]]
    BY DEF GuardTyped, Grd!Goto
  <1> QED
    BY <1>1 DEF Busy

LEMMA MissKeeps ==
    ASSUME IsFiniteSet(Callers), MissWindow <= Lockout, GuardInv,
           NEW c \in Callers, Grd!RecordFailure(c)
    PROVE  GuardInv'
  <1> USE GuardAssumption
  <1> DEFINE n == Len(misses)  kept == Grd!Kept  f == entry'.failures
  <1>0. /\ entry.failures \in Nat /\ entry.age \in 0..MissWindow /\ entry.lock \in 0..Lockout
        /\ n \in Nat
    BY DEF GuardInv, GuardTyped, GuardEntries
  <1>a. entry \in GuardEntries
    BY DEF GuardInv, GuardTyped
  <1>b. \A i \in 1..n : misses[i] \in 0..(MissWindow - 1)
    BY DEF GuardInv, GuardTyped, GuardEntries
  <1>c. \A i \in 1..n : i <= n - entry.failures => misses[i] >= entry.age
    BY DEF GuardInv
  <1>d. \A i \in 1..n :
          entry.failures >= MaxAttempts \/ i <= n - entry.failures - (MaxAttempts - 1)
              => misses[i] + entry.lock >= Lockout
    BY <1>0 DEF GuardInv, Outlasted
  <1>1. /\ Len(misses') = n + 1 /\ \A i \in 1..n : misses'[i] = misses[i]
        /\ misses'[n + 1] = 0 /\ misses' \in Seq(0..(MissWindow - 1))
    BY Appended DEF GuardInv, Grd!RecordFailure
  <1> HIDE DEF n
  <1>2. /\ try' = [d \in Callers |-> try'[d]] /\ Busy' = Busy \ {c}
        /\ c \in Busy
    BY BusyStays DEF GuardInv, Grd!RecordFailure, Grd!At, Busy
  <1>3. \/ /\ entry.age < MissWindow /\ entry'.failures = entry.failures + 1
           /\ entry'.age = entry.age
        \/ /\ entry.age = MissWindow /\ entry'.failures = 1 /\ entry'.age = 0
    BY <1>0, <1>a DEF GuardEntries, Grd!RecordFailure, Grd!Counted, Grd!Kept, Grd!Nothing,
       Grd!Locked
  <1>4. /\ f >= MaxAttempts => entry'.lock = Lockout
        /\ f < MaxAttempts => entry'.lock = entry.lock
    BY <1>0, <1>a DEF GuardEntries, Grd!RecordFailure, Grd!Counted, Grd!Kept, Grd!Nothing,
       Grd!Locked, Grd!LastStraw
  <1>5. entry' \in GuardEntries
    <2>2. Grd!Nothing \in GuardEntries
      BY DEF GuardEntries, Grd!Nothing
    <2>3. Grd!Kept \in GuardEntries
      BY <1>a, <2>2 DEF Grd!Kept
    <2>4. Grd!Counted \in GuardEntries
      BY <2>3, GuardEntriesStay DEF Grd!Counted
    <2> QED
      BY <2>4, GuardEntriesStay DEF Grd!RecordFailure
  <1>6. GuardTyped'
    BY <1>1, <1>2, <1>5 DEF GuardTyped
  <1>7. \A i \in 1..(n + 1) : i <= n + 1 - f => misses'[i] >= entry'.age
    <2> SUFFICES ASSUME NEW i \in 1..(n + 1), i <= n + 1 - f PROVE misses'[i] >= entry'.age
      OBVIOUS
    <2>1. i \in 1..n
      BY <1>0, <1>3
    <2>2. misses'[i] = misses[i] /\ misses[i] \in 0..(MissWindow - 1)
      BY <1>1, <1>b, <2>1
    <2>3. CASE entry.age < MissWindow /\ f = entry.failures + 1 /\ entry'.age = entry.age
      <3>1. i <= n - entry.failures
        BY <1>0, <2>3
      <3>2. misses[i] >= entry.age
        BY <1>c, <2>1, <3>1
      <3> QED
        BY <2>2, <2>3, <3>2
    <2>4. CASE entry'.age = 0
      BY <2>2, <2>4
    <2> QED
      BY <1>3, <2>3, <2>4
  <1>8. f >= MaxAttempts => \A i \in 1..(n + 1) : misses'[i] + entry'.lock >= Lockout
    BY <1>0, <1>1, <1>4
  <1>9. f >= MaxAttempts /\ entry'.age < MissWindow => entry'.lock + entry'.age >= Lockout
    BY <1>0, <1>3, <1>4
  <1>10. \A i \in 1..(n + 1) :
           i <= n + 1 - f - (MaxAttempts - 1) => misses'[i] + entry'.lock >= Lockout
    <2> SUFFICES ASSUME NEW i \in 1..(n + 1), i <= n + 1 - f - (MaxAttempts - 1), f < MaxAttempts
                 PROVE  misses'[i] + entry'.lock >= Lockout
      BY <1>0, <1>3, <1>8
    <2>0. i \in 1..n
      BY <1>0, <1>3
    <2>1. misses'[i] = misses[i] /\ misses[i] \in 0..(MissWindow - 1) /\ entry'.lock = entry.lock
      BY <1>1, <1>4, <1>b, <2>0
    <2>2. CASE entry.age < MissWindow
      <3>1. i <= n - entry.failures - (MaxAttempts - 1)
        BY <1>0, <1>3, <2>2
      <3> QED
        BY <1>d, <2>0, <2>1, <3>1
    <2>3. CASE entry.age = MissWindow /\ entry.failures >= MaxAttempts
      BY <1>d, <2>0, <2>1, <2>3
    <2>4. CASE entry.age = MissWindow /\ entry.failures < MaxAttempts
      <3>1. i <= n - entry.failures
        BY <1>0, <1>3, <2>0, <2>4
      <3> QED
        BY <1>0, <1>c, <2>0, <2>1, <2>4, <3>1
    <2> QED
      BY <1>0, <2>2, <2>3, <2>4
  <1>11. entry'.lock > 0 => n + 1 + Cardinality(Busy') <= Most
    <2>0. Cardinality(Busy') = Cardinality(Busy) - 1 /\ Cardinality(Busy) \in Nat
          /\ Cardinality(Callers) \in Nat /\ Cardinality(Busy) <= Cardinality(Callers)
      BY <1>2, BusySize
    <2>1. CASE entry.lock > 0
      BY <1>0, <2>0, <2>1 DEF GuardInv, Most, n
    <2>2. CASE entry.lock = 0
      <3>1. \/ n < MaxAttempts
            \/ n <= entry.failures + (MaxAttempts - 1) /\ entry.failures < MaxAttempts
        <4>1. /\ entry.age < MissWindow => entry.failures < MaxAttempts
              /\ n <= entry.failures + (MaxAttempts - 1)
              /\ entry.age = MissWindow => n < MaxAttempts
          BY <2>2, Unlocked DEF n
        <4> QED
          BY <1>0, <4>1
      <3>2. n + 1 <= 2 * (MaxAttempts - 1) + 1
        BY <1>0, <3>1
      <3> QED
        BY <1>0, <2>0, <3>2 DEF Most
    <2> QED
      BY <1>0, <2>1, <2>2
  <1> QED
    <2> DEFINE after == Len(misses')
    <2>1. after = n + 1
      BY <1>1
    <2> HIDE DEF after
    <2>2. \A i \in 1..after :
            /\ i <= after - f => misses'[i] >= entry'.age
            /\ f >= MaxAttempts => misses'[i] + entry'.lock >= Lockout
            /\ i <= after - f - (MaxAttempts - 1) => misses'[i] + entry'.lock >= Lockout
      BY <2>1, <1>0, <1>3, <1>7, <1>8, <1>10
    <2>3. entry'.lock > 0 => after + Cardinality(Busy') <= Most
      BY <2>1, <1>11
    <2> QED
      BY <2>2, <2>3, <1>6, <1>9 DEF GuardInv, Outlasted, Most, after

LEMMA TickKeeps ==
    ASSUME IsFiniteSet(Callers), MissWindow <= Lockout, GuardInv, Grd!Tick
    PROVE  GuardInv'
  <1> USE GuardAssumption
  <1>0. /\ entry.failures \in Nat /\ entry.age \in 0..MissWindow /\ entry.lock \in 0..Lockout
        /\ Len(misses) \in Nat
    BY DEF GuardInv, GuardTyped, GuardEntries
  <1>a. entry \in GuardEntries
    BY DEF GuardInv, GuardTyped
  <1>b. /\ DOMAIN misses = 1..Len(misses)
        /\ \A i \in 1..Len(misses) : misses[i] \in 0..(MissWindow - 1)
    BY DEF GuardInv, GuardTyped, GuardEntries
  <1>1. PICK gone \in 0..Len(misses) :
           /\ \A i \in DOMAIN misses : i <= gone <=> misses[i] + 1 >= MissWindow
           /\ misses' = [i \in 1..(Len(misses) - gone) |-> misses[i + gone] + 1]
    BY DEF Grd!Tick
  <1> DEFINE m == Len(misses) - gone
  <1>2. /\ m \in Nat
        /\ \A i \in 1..m : i + gone \in 1..Len(misses) /\ misses'[i] = misses[i + gone] + 1
    BY <1>0, <1>1, <1>b
  <1>3. \A i \in 1..m : misses'[i] \in 0..(MissWindow - 1)
    <2> SUFFICES ASSUME NEW i \in 1..m PROVE misses'[i] \in 0..(MissWindow - 1)
      OBVIOUS
    <2>1. ~(i + gone <= gone)
      BY <1>0, <1>2
    <2> QED
      <3>1. misses[i + gone] \in 0..(MissWindow - 1) /\ misses'[i] = misses[i + gone] + 1
        BY <1>2, <1>b
      <3>2. ~(misses[i + gone] + 1 >= MissWindow)
        BY <1>1, <1>2, <1>b, <2>1
      <3> QED
        BY <3>1, <3>2
  <1>4. misses' \in Seq(0..(MissWindow - 1)) /\ Len(misses') = m
    BY <1>1, <1>2, <1>3
  <1>5. /\ entry'.failures = entry.failures
        /\ entry'.age = (IF entry.age < MissWindow THEN entry.age + 1 ELSE MissWindow)
        /\ entry'.lock = (IF entry.lock > 0 THEN entry.lock - 1 ELSE 0)
    BY <1>0, <1>a DEF Grd!Tick, Grd!Older, GuardEntries
  <1>c. entry' \in GuardEntries
    <2> DEFINE age == Grd!Older(entry.age)  lock == IF entry.lock > 0 THEN entry.lock - 1 ELSE 0
    <2>1. age \in 0..MissWindow /\ lock \in 0..Lockout
      BY <1>0 DEF Grd!Older
    <2>2. entry' = [entry EXCEPT !.age = age, !.lock = lock]
      BY DEF Grd!Tick
    <2> HIDE DEF age, lock
    <2> QED
      BY <1>a, <2>1, <2>2, GuardEntriesStay
  <1>6. GuardTyped' /\ Busy' = Busy
    BY <1>4, <1>c DEF GuardTyped, GuardInv, Grd!Tick, Busy
  <1>7. \A i \in 1..m : misses'[i] + entry'.lock >= misses[i + gone] + entry.lock
    BY <1>0, <1>2, <1>5, <1>b
  <1>8. \A i \in 1..m : i <= m - entry'.failures => misses'[i] >= entry'.age
    <2> SUFFICES ASSUME NEW i \in 1..m, i <= m - entry'.failures PROVE misses'[i] >= entry'.age
      OBVIOUS
    <2>0. m = Len(misses) - gone
      OBVIOUS
    <2>1. i + gone \in 1..Len(misses) /\ i + gone <= Len(misses) - entry.failures
      BY <1>0, <1>2, <1>5
    <2>2. misses[i + gone] >= entry.age
      BY <2>1 DEF GuardInv
    <2>3. misses'[i] = misses[i + gone] + 1 /\ misses[i + gone] \in 0..(MissWindow - 1)
      BY <1>2, <1>b, <2>1
    <2>4. entry'.age = entry.age + 1 \/ entry.age = MissWindow
      BY <1>0, <1>5
    <2> QED
      BY <1>0, <2>2, <2>3, <2>4
  <1>9. entry'.failures >= MaxAttempts => \A i \in 1..m : misses'[i] + entry'.lock >= Lockout
    <2> SUFFICES ASSUME entry.failures >= MaxAttempts, NEW i \in 1..m
                 PROVE  misses'[i] + entry'.lock >= Lockout
      BY <1>5
    <2>1. misses[i + gone] + entry.lock >= Lockout
      BY <1>0, <1>2 DEF GuardInv, Outlasted
    <2> QED
      BY <1>0, <1>2, <1>3, <1>5, <1>7, <1>b, <2>1
  <1>10. entry'.failures >= MaxAttempts /\ entry'.age < MissWindow =>
           entry'.lock + entry'.age >= Lockout
    <2> SUFFICES ASSUME entry.failures >= MaxAttempts, entry'.age < MissWindow
                 PROVE  entry'.lock + entry'.age >= Lockout
      BY <1>5
    <2>1. entry.age < MissWindow /\ entry'.age = entry.age + 1
      BY <1>0, <1>5
    <2>2. entry.lock + entry.age >= Lockout
      BY <2>1 DEF GuardInv
    <2> QED
      BY <1>0, <1>5, <2>1, <2>2
  <1>11. \A i \in 1..m :
           i <= m - entry'.failures - (MaxAttempts - 1) => misses'[i] + entry'.lock >= Lockout
    <2> SUFFICES ASSUME NEW i \in 1..m, i <= m - entry'.failures - (MaxAttempts - 1)
                 PROVE  misses'[i] + entry'.lock >= Lockout
      OBVIOUS
    <2>0. m = Len(misses) - gone
      OBVIOUS
    <2>1. /\ i + gone \in 1..Len(misses)
          /\ i + gone <= Len(misses) - entry.failures - (MaxAttempts - 1)
      BY <1>0, <1>2, <1>5
    <2>2. misses[i + gone] + entry.lock >= Lockout
      BY <2>1 DEF GuardInv, Outlasted
    <2> QED
      BY <1>0, <1>2, <1>3, <1>5, <1>7, <1>b, <2>2
  <1>12. entry'.lock > 0 => m + Cardinality(Busy) <= Most
    BY <1>0, <1>5, BusySize DEF GuardInv, Most
  <1> QED
    <2> DEFINE after == Len(misses')
    <2>1. after = m
      BY <1>4
    <2> HIDE DEF after, m
    <2>2. \A i \in 1..after :
            /\ i <= after - entry'.failures => misses'[i] >= entry'.age
            /\ entry'.failures >= MaxAttempts => misses'[i] + entry'.lock >= Lockout
            /\ i <= after - entry'.failures - (MaxAttempts - 1) =>
                 misses'[i] + entry'.lock >= Lockout
      BY <2>1, <1>8, <1>9, <1>11
    <2>3. entry'.lock > 0 => after + Cardinality(Busy') <= Most
      BY <2>1, <1>6, <1>12
    <2> QED
      BY <2>2, <2>3, <1>6, <1>10 DEF GuardInv, Outlasted, Most, after

(* A sign-in that goes on, or ends without a miss.                         *)
LEMMA OthersKeep ==
    ASSUME IsFiniteSet(Callers), GuardInv, UNCHANGED <<entry, misses>>,
           try' = [c \in Callers |-> try'[c]],
           entry.lock > 0 => Busy' \subseteq Busy
    PROVE  GuardInv'
  <1>1. entry.lock > 0 => Cardinality(Busy') <= Cardinality(Busy) /\ Cardinality(Busy') \in Nat
    <2>1. Busy \subseteq Callers
      BY DEF Busy
    <2>2. IsFiniteSet(Busy)
      BY <2>1, FS_Subset
    <2> QED
      BY <2>2, FS_Subset, FS_CardinalityType
  <1>2. Len(misses) \in Nat /\ Cardinality(Busy) \in Nat /\ Most \in Int
    BY BusySize, GuardAssumption DEF GuardInv, GuardTyped, Most
  <1> QED
    BY <1>1, <1>2 DEF GuardInv, GuardTyped, Outlasted, Most

LEMMA StepGuard ==
    ASSUME IsFiniteSet(Callers), MissWindow <= Lockout, GuardInv, [Grd!Next]_grdVars
    PROVE  GuardInv'
  <1>1. ASSUME NEW c \in Callers, Grd!Check(c) PROVE GuardInv'
    <2>1. entry.lock = 0
      BY <1>1, GuardAssumption DEF Grd!Check, Grd!Locked, GuardInv, GuardTyped, GuardEntries
    <2> QED
      BY <1>1, <2>1, BusyStays, OthersKeep DEF Grd!Check, GuardInv
  <1>2. ASSUME NEW c \in Callers, Grd!Try(c) PROVE GuardInv'
    <2>1. PICK answer \in {"miss", "hit", "idle"} : Grd!Goto(c, answer)
      BY <1>2 DEF Grd!Try
    <2>2. c \in Busy /\ Busy' \subseteq Busy /\ try' = [d \in Callers |-> try'[d]]
      BY <1>2, <2>1, BusyStays DEF Grd!Try, GuardInv, Grd!At, Busy
    <2> QED
      BY <1>2, <2>2, OthersKeep DEF Grd!Try
  <1>3. ASSUME NEW c \in Callers, Grd!RecordFailure(c) PROVE GuardInv'
    BY <1>3, MissKeeps
  <1>4. ASSUME NEW c \in Callers, Grd!RecordSuccess(c) PROVE GuardInv'
    <2>1. try' = [d \in Callers |-> try'[d]] /\ entry' = Grd!Nothing /\ misses' = <<>>
      BY <1>4, BusyStays DEF GuardInv, Grd!RecordSuccess
    <2> QED
      BY <2>1, SlateCleared
  <1>5. CASE Grd!Tick
    BY <1>5, TickKeeps
  <1>6. CASE Grd!Restart
    <2>1. try' = [d \in Callers |-> try'[d]] /\ entry' = Grd!Nothing /\ misses' = <<>>
      BY <1>6 DEF Grd!Restart
    <2> QED
      BY <2>1, SlateCleared
  <1>7. CASE UNCHANGED grdVars
    BY <1>7, OthersKeep DEF grdVars, Busy, GuardInv, GuardTyped
  <1> QED
    BY <1>1, <1>2, <1>3, <1>4, <1>5, <1>6, <1>7 DEF Grd!Next

(* However many sign-ins are in flight together, an address that never     *)
(* gets in misses at most what two adjoining windows allow and once for    *)
(* each of them, in any window, if a lockout lasts a window.               *)
THEOREM GuessesStayBounded ==
    ASSUME IsFiniteSet(Callers)
    PROVE  ServerSpec => []GuessesBounded
  <1>1. CASE MissWindow <= Lockout
    <2>1. ServerInit => GuardInv
      BY EmptySlate DEF ServerInit, Grd!Init
    <2>2. GuardInv => GuessesBounded
      <3> SUFFICES ASSUME GuardInv PROVE Len(misses) <= Most
        BY DEF GuessesBounded, Grd!GuessesBounded, Most, Grd!Cardinality, Cardinality
      <3>1. /\ Len(misses) \in Nat /\ entry.failures \in Nat /\ entry.age \in 0..MissWindow
            /\ entry.lock \in 0..Lockout /\ Cardinality(Callers) \in Nat /\ Cardinality(Busy) \in Nat
        BY BusySize, GuardAssumption DEF GuardInv, GuardTyped, GuardEntries
      <3>2. CASE entry.lock > 0
        BY <3>1, <3>2, GuardAssumption DEF GuardInv, Most
      <3>3. CASE entry.lock = 0
        <4>1. \/ Len(misses) < MaxAttempts
              \/ Len(misses) <= entry.failures + (MaxAttempts - 1) /\ entry.failures < MaxAttempts
          <5>1. /\ entry.age < MissWindow => entry.failures < MaxAttempts
                /\ Len(misses) <= entry.failures + (MaxAttempts - 1)
                /\ entry.age = MissWindow => Len(misses) < MaxAttempts
            BY <3>3, <1>1, Unlocked
          <5> QED
            BY <3>1, <5>1, GuardAssumption
        <4> QED
          BY <3>1, <4>1, GuardAssumption DEF Most
      <3> QED
        BY <3>1, <3>2, <3>3
    <2>3. GuardInv /\ [ServerNext]_allVars => GuardInv'
      BY <1>1, PartsStep, StepGuard
    <2> QED
      BY <2>1, <2>2, <2>3, PTL DEF ServerSpec
  <1>2. CASE ~(MissWindow <= Lockout)
    <2>1. GuessesBounded
      BY <1>2, GuardAssumption DEF GuessesBounded, Grd!GuessesBounded
    <2> QED
      BY <2>1, PTL
  <1> QED
    BY <1>1, <1>2

-----------------------------------------------------------------------------
(* Webhooks.  failure_count is the length of the run, tests included.      *)
HookInv ==
    /\ hook \in {"none", "off", "on"} /\ hand \in {"none", "off", "on"}
    /\ worn \in Nat /\ run \in [deliveries : Nat, all : Nat]
    /\ count = run.all /\ run.deliveries <= run.all
    /\ Hks!SwitchedOffAfterARun

LEMMA StepHook ==
    ASSUME HookInv, [Hks!Next]_hksVars
    PROVE  HookInv'
  <1> USE FailureLimitAssumption DEF HookInv, Hks!SwitchedOffAfterARun, Hks!NoRun
  <1>1. ASSUME NEW t \in Callers, Hks!Dispatch(t) PROVE HookInv'
    BY <1>1 DEF Hks!Dispatch, Hks!history
  <1>2. ASSUME NEW t \in Callers, Hks!Delivered(t) PROVE HookInv'
    BY <1>2 DEF Hks!Delivered
  <1>3. ASSUME NEW t \in Callers, Hks!Failed(t) PROVE HookInv'
    <2>1. CASE hook = "none"
      BY <1>3, <2>1 DEF Hks!Failed
    <2>2. CASE hook # "none"
      <3>1. /\ count' = count + 1
            /\ run' = [deliveries |-> run.deliveries + 1, all |-> run.all + 1]
            /\ hook' = IF count + 1 >= FAILURE_LIMIT THEN "off" ELSE hook
            /\ worn' = IF hook = "on" /\ hook' = "off" THEN run'.all ELSE worn
            /\ hand' = hand
        BY <1>3, <2>2 DEF Hks!Failed, Hks!Exhausted
      <3> QED
        BY <2>2, <3>1
    <2> QED
      BY <2>1, <2>2
  <1>4. ASSUME NEW enabled \in {"on", "off"}, Hks!Create(enabled) \/ Hks!Update(enabled)
        PROVE  HookInv'
    BY <1>4 DEF Hks!Create, Hks!Update, Hks!FreshCount
  <1>5. CASE Hks!Remove
    BY <1>5 DEF Hks!Remove
  <1>6. ASSUME NEW ok \in BOOLEAN, Hks!Test(ok) PROVE HookInv'
    BY <1>6 DEF Hks!Test
  <1>7. CASE Hks!Restart
    BY <1>7 DEF Hks!Restart, Hks!history
  <1>8. CASE UNCHANGED hksVars
    BY <1>8 DEF hksVars
  <1> QED
    BY <1>1, <1>2, <1>3, <1>4, <1>5, <1>6, <1>7, <1>8 DEF Hks!Next

(* A webhook is switched off after a run of FAILURE_LIMIT failures, no     *)
(* later and no sooner, in whatever order deliveries are answered and      *)
(* among whatever tests and edits of the operator.                         *)
THEOREM HooksWearOut == ServerSpec => []SwitchedOffAfterARun
  <1>1. ServerInit => HookInv
    BY FailureLimitAssumption
    DEF ServerInit, Hks!Init, HookInv, Hks!SwitchedOffAfterARun, Hks!NoRun
  <1>2. HookInv => SwitchedOffAfterARun
    BY DEF HookInv, SwitchedOffAfterARun
  <1>3. HookInv /\ [ServerNext]_allVars => HookInv'
    BY PartsStep, StepHook
  <1> QED
    BY <1>1, <1>2, <1>3, PTL DEF ServerSpec

-----------------------------------------------------------------------------
(* Pictures.                                                               *)

PictureTasks ==
    {Pic!Idle} \cup [pc : {"read"}, key : Keys \cup {Pic!NoKey}, sized : BOOLEAN]
    \cup [pc : {"write"}, key : Keys \cup {Pic!NoKey}, sized : BOOLEAN, old : Keys \cup {Pic!NoKey}]
    \cup [pc : {"unlink"}, old : Keys]

PicturesTyped ==
    /\ disk \subseteq Keys /\ found \subseteq Keys /\ orphaned \subseteq Keys
    /\ shown \in Keys \cup {Pic!NoKey} /\ sized \in BOOLEAN
    /\ claims \in [Keys -> {0, 1, 2}]
    /\ picWork \in [Callers -> PictureTasks]

(* A key about to be put on the row for the first time, and whose size was *)
(* that of a file, has its file, or is one the sweep found unreferenced; a *)
(* key that is or was read off the row has been put there; and a file      *)
(* about to be removed is one the sweep found, or one whose key has left   *)
(* the row, and would be put there a second time if it came back.          *)
WrittenHaveFiles ==
    \A w \in Callers, k \in Keys :
        (Pic!At(w, "read") \/ Pic!At(w, "write")) /\ picWork[w].key = k /\ picWork[w].sized
            => k \in disk \cup orphaned \/ claims[k] # 0
OldWereClaimed ==
    /\ shown # Pic!NoKey => claims[shown] # 0
    /\ \A w \in Callers, k \in Keys : Pic!At(w, "write") /\ picWork[w].old = k => claims[k] # 0
UnlinkedAreGone ==
    \A w \in Callers, k \in Keys :
        Pic!At(w, "unlink") /\ picWork[w].old = k
            => k \in orphaned \/ claims[k] = 2 \/ (claims[k] = 1 /\ shown # k)

PictureInv == PicturesTyped /\ WrittenHaveFiles /\ OldWereClaimed /\ UnlinkedAreGone /\ Pic!PictureIsThere

LEMMA PictureTaskAt ==
    ASSUME PicturesTyped, NEW w \in Callers
    PROVE  /\ Pic!At(w, "read")
                => picWork[w] \in [pc : {"read"}, key : Keys \cup {Pic!NoKey}, sized : BOOLEAN]
           /\ Pic!At(w, "write")
                => picWork[w] \in [pc : {"write"}, key : Keys \cup {Pic!NoKey}, sized : BOOLEAN,
                                   old : Keys \cup {Pic!NoKey}]
           /\ Pic!At(w, "unlink") => picWork[w] \in [pc : {"unlink"}, old : Keys]
  BY DEF PicturesTyped, PictureTasks, Pic!At, Pic!Idle

LEMMA PictureGotoIs ==
    ASSUME PicturesTyped, NEW w \in Callers, NEW state \in PictureTasks, Pic!Goto(w, state)
    PROVE  /\ picWork' \in [Callers -> PictureTasks]
           /\ picWork'[w] = state
           /\ \A v \in Callers \ {w} : picWork'[v] = picWork[v]
  BY DEF PicturesTyped, Pic!Goto

(* A request that goes on without touching the row, with a task that is    *)
(* sound for it; files may land, and the sweep may find more.              *)
LEMMA PictureGoesOn ==
    ASSUME PictureInv, NEW w \in Callers, NEW state \in PictureTasks, Pic!Goto(w, state),
           UNCHANGED <<shown, sized, claims>>, disk \subseteq disk', disk' \subseteq Keys,
           found' \subseteq Keys, orphaned \subseteq orphaned', orphaned' \subseteq Keys,
           state.pc \in {"read", "write"} /\ state.key # Pic!NoKey /\ state.sized
                => state.key \in disk' \cup orphaned' \/ claims[state.key] # 0,
           state.pc = "write" /\ state.old # Pic!NoKey => claims[state.old] # 0,
           state.pc = "unlink" => state.old \in orphaned',
           Pic!NoKey \notin Keys
    PROVE  PictureInv'
  <1>1. /\ picWork' \in [Callers -> PictureTasks] /\ picWork'[w] = state
        /\ \A v \in Callers \ {w} : picWork'[v] = picWork[v]
    BY PictureGotoIs DEF PictureInv
  <1>2. PicturesTyped'
    BY <1>1 DEF PictureInv, PicturesTyped
  <1>3. WrittenHaveFiles'
    BY <1>1 DEF PictureInv, WrittenHaveFiles, Pic!At
  <1>4. OldWereClaimed'
    BY <1>1 DEF PictureInv, OldWereClaimed, Pic!At
  <1>5. UnlinkedAreGone'
    BY <1>1 DEF PictureInv, UnlinkedAreGone, Pic!At
  <1>6. Pic!PictureIsThere'
    BY DEF PictureInv, Pic!PictureIsThere
  <1> QED
    BY <1>2, <1>3, <1>4, <1>5, <1>6 DEF PictureInv

LEMMA WriteKeeps ==
    ASSUME PictureInv, Pic!NoKey \notin Keys, NEW w \in Callers, Pic!Write(w)
    PROVE  PictureInv'
  <1> DEFINE key == picWork[w].key
             old == picWork[w].old
  <1>0. PicturesTyped /\ Pic!At(w, "write") /\ key \in Keys \cup {Pic!NoKey} /\ old \in Keys \cup {Pic!NoKey}
       /\ picWork[w].sized \in BOOLEAN
    BY PictureTaskAt DEF PictureInv, Pic!Write
  <1> DEFINE state == IF old \in {Pic!NoKey, key} THEN Pic!Idle ELSE [pc |-> "unlink", old |-> old]
  <1>1. state \in PictureTasks /\ Pic!Goto(w, state)
    BY <1>0 DEF PictureTasks, Pic!Write
  <1>2. /\ picWork' \in [Callers -> PictureTasks] /\ picWork'[w] = state
        /\ \A v \in Callers \ {w} : picWork'[v] = picWork[v]
    BY <1>0, <1>1, PictureGotoIs
  <1>3. PICK k \in Keys \cup {Pic!NoKey}, o \in Keys \cup {Pic!NoKey} : k = key /\ o = old
    BY <1>0
  <1>4. /\ shown' = k /\ sized' = picWork[w].sized /\ UNCHANGED <<disk, found, orphaned>>
        /\ picWork'[w].pc \in {"idle", "unlink"}
        /\ picWork'[w].pc = "unlink" => picWork'[w].old = o /\ o # Pic!NoKey /\ o # k
    BY <1>2, <1>3 DEF Pic!Write, Pic!Idle
  <1>5. /\ claims' \in [Keys -> {0, 1, 2}]
        /\ \A j \in Keys : j # k => claims'[j] = claims[j]
        /\ k # Pic!NoKey => claims'[k] = IF claims[k] = 0 THEN 1 ELSE 2
    <2>1. claims' = IF k = Pic!NoKey \/ claims[k] = 2 THEN claims ELSE [claims EXCEPT ![k] = @ + 1]
      BY <1>3 DEF Pic!Write
    <2> QED
      BY <1>0, <2>1 DEF PicturesTyped
  <1>6. PicturesTyped'
    BY <1>0, <1>2, <1>4, <1>5 DEF PicturesTyped
  <1>7. WrittenHaveFiles'
    BY <1>0, <1>2, <1>4, <1>5 DEF PictureInv, WrittenHaveFiles, Pic!At, PicturesTyped
  <1>8. OldWereClaimed'
    BY <1>0, <1>2, <1>4, <1>5 DEF PictureInv, OldWereClaimed, Pic!At, PicturesTyped
  <1>9. UnlinkedAreGone'
    <2>1. o # Pic!NoKey => claims[o] # 0
      BY <1>0, <1>3 DEF PictureInv, OldWereClaimed
    <2> QED
      BY <1>0, <1>2, <1>4, <1>5, <2>1 DEF PictureInv, UnlinkedAreGone, Pic!At, PicturesTyped
  <1>10. Pic!PictureIsThere'
    <2>1. k # Pic!NoKey /\ picWork[w].sized => k \in disk \cup orphaned \/ claims[k] # 0
      BY <1>0, <1>3 DEF PictureInv, WrittenHaveFiles
    <2> QED
      BY <1>4, <1>5, <2>1 DEF Pic!PictureIsThere
  <1> QED
    BY <1>6, <1>7, <1>8, <1>9, <1>10 DEF PictureInv

LEMMA StepPictures ==
    ASSUME PictureInv, [Pic!Next]_picVars, Pic!NoKey \notin Keys
    PROVE  PictureInv'
  <1>t. PicturesTyped
    BY DEF PictureInv
  <1>i. Pic!Idle \in PictureTasks /\ Pic!Idle.pc = "idle"
    BY DEF PictureTasks, Pic!Idle
  <1>k. disk \subseteq Keys /\ found \subseteq Keys /\ orphaned \subseteq Keys
    BY <1>t DEF PicturesTyped
  <1>1. CASE UNCHANGED <<disk, shown, sized, picWork, claims, orphaned>> /\ found' \subseteq Keys
    BY <1>1 DEF PictureInv, PicturesTyped, WrittenHaveFiles, OldWereClaimed, UnlinkedAreGone, Pic!PictureIsThere, Pic!At
  <1>2. ASSUME NEW w \in Callers, NEW k \in Keys, Pic!Upload(w, k) PROVE PictureInv'
    <2>1. [pc |-> "read", key |-> k, sized |-> TRUE] \in PictureTasks
      BY DEF PictureTasks
    <2> QED
      BY <1>2, <1>i, <1>k, <2>1, PictureGoesOn DEF Pic!Upload, Pic!row, Pic!history
  <1>3. ASSUME NEW w \in Callers, NEW k \in Keys \cup {Pic!NoKey}, Pic!Save(w, k) PROVE PictureInv'
    <2>1. [pc |-> "read", key |-> k, sized |-> k \in disk] \in PictureTasks
      BY DEF PictureTasks
    <2> QED
      BY <1>3, <1>k, <2>1, PictureGoesOn DEF Pic!Save, Pic!row, Pic!history
  <1>4. ASSUME NEW w \in Callers, Pic!DeleteBanner(w) PROVE PictureInv'
    <2>1. [pc |-> "read", key |-> Pic!NoKey, sized |-> FALSE] \in PictureTasks
      BY DEF PictureTasks
    <2> QED
      BY <1>4, <1>k, <2>1, PictureGoesOn DEF Pic!DeleteBanner, Pic!row, Pic!history
  <1>5. ASSUME NEW w \in Callers, Pic!Read(w) PROVE PictureInv'
    <2>1. PICK k \in Keys \cup {Pic!NoKey}, z \in BOOLEAN : k = picWork[w].key /\ z = picWork[w].sized
      BY <1>5, <1>t, PictureTaskAt DEF Pic!Read
    <2> DEFINE state == [pc |-> "write", key |-> k, sized |-> z, old |-> shown]
    <2>2. state \in PictureTasks /\ Pic!Goto(w, state)
      BY <1>5, <1>t, <2>1 DEF Pic!Read, PictureTasks, PicturesTyped
    <2>3. k # Pic!NoKey /\ z => k \in disk \cup orphaned \/ claims[k] # 0
      BY <1>5, <2>1 DEF Pic!Read, PictureInv, WrittenHaveFiles
    <2>4. shown # Pic!NoKey => claims[shown] # 0
      BY DEF PictureInv, OldWereClaimed
    <2>5. state.pc = "write" /\ state.key = k /\ state.sized = z /\ state.old = shown
      OBVIOUS
    <2> HIDE DEF state
    <2> QED
      BY <1>5, <1>k, <2>2, <2>3, <2>4, <2>5, PictureGoesOn DEF Pic!Read, Pic!row, Pic!history
  <1>6. ASSUME NEW w \in Callers, NEW k \in Keys, Pic!SweepCheck(w, k) PROVE PictureInv'
    <2>1. [pc |-> "unlink", old |-> k] \in PictureTasks
      BY DEF PictureTasks
    <2>2. k \in orphaned' /\ orphaned \subseteq orphaned' /\ orphaned' \subseteq Keys
      BY <1>6, <1>k DEF Pic!SweepCheck, Pic!StillReferenced
    <2> QED
      BY <1>6, <1>k, <2>1, <2>2, PictureGoesOn DEF Pic!SweepCheck, Pic!row
  <1>7. ASSUME NEW w \in Callers, Pic!DeleteArtwork(w) PROVE PictureInv'
    <2>1. PICK k \in Keys : k = shown
      BY <1>7, <1>t DEF Pic!DeleteArtwork, PicturesTyped
    <2> DEFINE state == [pc |-> "unlink", old |-> k]
    <2>2. state \in PictureTasks /\ Pic!Goto(w, state)
      BY <1>7, <2>1 DEF Pic!DeleteArtwork, PictureTasks
    <2>3. /\ picWork' \in [Callers -> PictureTasks] /\ picWork'[w] = state
          /\ \A v \in Callers \ {w} : picWork'[v] = picWork[v]
      BY <1>t, <2>2, PictureGotoIs
    <2>4. shown' = Pic!NoKey /\ sized' = FALSE /\ UNCHANGED <<disk, found, claims, orphaned>>
      BY <1>7 DEF Pic!DeleteArtwork, Pic!history
    <2>5. claims[k] \in {1, 2}
      BY <1>t, <2>1 DEF PictureInv, OldWereClaimed, PicturesTyped
    <2>6. PicturesTyped'
      BY <1>t, <2>3, <2>4 DEF PicturesTyped
    <2>7. WrittenHaveFiles' /\ OldWereClaimed'
      BY <2>3, <2>4 DEF PictureInv, WrittenHaveFiles, OldWereClaimed, Pic!At
    <2>8. UnlinkedAreGone'
      BY <2>3, <2>4, <2>5 DEF PictureInv, UnlinkedAreGone, Pic!At
    <2> QED
      BY <2>4, <2>6, <2>7, <2>8 DEF PictureInv, Pic!PictureIsThere
  <1>8. ASSUME NEW w \in Callers, Pic!Unlink(w) PROVE PictureInv'
    <2>1. PICK k \in Keys : k = picWork[w].old
      BY <1>8, <1>t, PictureTaskAt DEF Pic!Unlink
    <2>2. k \in orphaned \/ claims[k] = 2 \/ (claims[k] = 1 /\ shown # k)
      BY <1>8, <2>1 DEF Pic!Unlink, PictureInv, UnlinkedAreGone
    <2>3. /\ picWork' \in [Callers -> PictureTasks] /\ picWork'[w].pc = "idle"
          /\ \A v \in Callers \ {w} : picWork'[v] = picWork[v]
      BY <1>8, <1>i, <1>t, PictureGotoIs DEF Pic!Unlink
    <2>4. disk' = disk \ {k} /\ UNCHANGED <<shown, sized, found, claims, orphaned>>
      BY <1>8, <2>1 DEF Pic!Unlink, Pic!row, Pic!history
    <2>5. PicturesTyped' /\ OldWereClaimed' /\ UnlinkedAreGone'
      BY <1>t, <2>3, <2>4 DEF PictureInv, PicturesTyped, OldWereClaimed, UnlinkedAreGone, Pic!At
    <2>6. WrittenHaveFiles'
      BY <1>t, <2>2, <2>3, <2>4 DEF PictureInv, WrittenHaveFiles, Pic!At
    <2>7. Pic!PictureIsThere'
      BY <2>2, <2>4 DEF PictureInv, Pic!PictureIsThere
    <2> QED
      BY <2>5, <2>6, <2>7 DEF PictureInv
  <1>9. CASE Pic!Restart
    <2>1. \A w \in Callers : picWork'[w] = Pic!Idle
      BY <1>9 DEF Pic!Restart
    <2> QED
      BY <1>9, <1>i, <2>1 DEF Pic!Restart, Pic!row, Pic!history, PictureInv, PicturesTyped, WrittenHaveFiles, OldWereClaimed,
         UnlinkedAreGone, Pic!PictureIsThere, Pic!At
  <1>10. CASE Pic!Scan
    BY <1>10, <1>1, <1>k DEF Pic!Scan, Pic!row, Pic!history
  <1>11. ASSUME NEW k \in Keys, Pic!Presign(k) PROVE PictureInv'
    BY <1>11, <1>1, <1>k DEF Pic!Presign, Pic!row, Pic!history
  <1>12. CASE UNCHANGED picVars
    BY <1>12, <1>1, <1>k DEF picVars
  <1> QED
    BY <1>2, <1>3, <1>4, <1>5, <1>6, <1>7, <1>8, <1>9, <1>10, <1>11, <1>12, WriteKeeps DEF Pic!Next

LEMMA InitPictures == Pic!Init => PictureInv
  <1> SUFFICES ASSUME Pic!Init PROVE PictureInv
    OBVIOUS
  <1>1. \A w \in Callers : Pic!At(w, "idle") /\ picWork[w] \in PictureTasks
    BY DEF Pic!Init, Pic!At, Pic!Idle, PictureTasks
  <1> QED
    BY <1>1 DEF Pic!Init, PictureInv, PicturesTyped, WrittenHaveFiles, OldWereClaimed,
       UnlinkedAreGone, Pic!PictureIsThere, Pic!At

(* The picture a profile names has its file, whatever replacements,        *)
(* removals and sweeps overlap, for any number of them: unless its key was *)
(* put on the row twice, the sweep had found it unreferenced, or it is     *)
(* artwork that was saved while its file was not there.                    *)
THEOREM PicturesStay == ServerSpec => []PictureIsThere
  <1>1. ServerInit => PictureInv
    BY InitPictures DEF ServerInit
  <1>2. PictureInv => PictureIsThere
    BY DEF PictureInv, PictureIsThere
  <1>3. PictureInv /\ [ServerNext]_allVars => PictureInv'
    BY PartsStep, StepPictures, KeysAssumption
  <1> QED
    BY <1>1, <1>2, <1>3, PTL DEF ServerSpec

-----------------------------------------------------------------------------
(* Sequences: what a new first element and the removal of one leave.       *)
LEMMA ConsIs ==
    ASSUME NEW S, NEW e \in S, NEW s \in Seq(S), NEW t, t = <<e>> \o s
    PROVE  /\ t \in Seq(S) /\ Len(t) = Len(s) + 1 /\ t[1] = e
           /\ \A i \in 1..Len(s) : t[i + 1] = s[i]
  <1>1. <<e>> \in Seq(S) /\ Len(<<e>>) = 1 /\ <<e>>[1] = e
    OBVIOUS
  <1>2. Len(s) \in Nat
    BY LenProperties
  <1>3. /\ t \in Seq(S) /\ Len(t) = 1 + Len(s)
        /\ \A i \in 1..(1 + Len(s)) : t[i] = IF i <= 1 THEN <<e>>[i] ELSE s[i - 1]
    BY <1>1, ConcatProperties
  <1> QED
    BY <1>1, <1>2, <1>3

Cut(s, p) == SubSeq(s, 1, p - 1) \o SubSeq(s, p + 1, Len(s))

LEMMA RemoveAtIs ==
    ASSUME NEW S, NEW s \in Seq(S), NEW p \in 1..Len(s)
    PROVE  /\ Cut(s, p) \in Seq(S) /\ Len(Cut(s, p)) = Len(s) - 1
           /\ \A i \in 1..(Len(s) - 1) : Cut(s, p)[i] = IF i < p THEN s[i] ELSE s[i + 1]
  <1> DEFINE t == Cut(s, p)
             a == SubSeq(s, 1, p - 1)
             b == SubSeq(s, p + 1, Len(s))
  <1>1. Len(s) \in Nat /\ p \in Nat
    BY LenProperties
  <1>2. \A i \in 1..Len(s) : s[i] \in S
    BY ElementOfSeq
  <1>3. /\ a \in Seq(S) /\ Len(a) = p - 1
        /\ \A i \in 1..(p - 1) : a[i] = s[i]
    <2>1. \A i \in 1..(p - 1) : s[i] \in S
      BY <1>1, <1>2
    <2>2. /\ a \in Seq(S) /\ Len(a) = IF 1 <= p - 1 THEN p - 1 - 1 + 1 ELSE 0
          /\ \A i \in 1..(p - 1 - 1 + 1) : a[i] = s[1 + i - 1]
      BY <1>1, <2>1, SubSeqProperties
    <2> HIDE DEF a
    <2> QED
      BY <1>1, <2>2
  <1>4. /\ b \in Seq(S) /\ Len(b) = Len(s) - p
        /\ \A i \in 1..(Len(s) - p) : b[i] = s[i + p]
    <2>1. \A i \in (p + 1)..Len(s) : s[i] \in S
      BY <1>1, <1>2
    <2>2. /\ b \in Seq(S) /\ Len(b) = IF p + 1 <= Len(s) THEN Len(s) - (p + 1) + 1 ELSE 0
          /\ \A i \in 1..(Len(s) - (p + 1) + 1) : b[i] = s[p + 1 + i - 1]
      BY <1>1, <2>1, SubSeqProperties
    <2> HIDE DEF b
    <2>3. \A i \in 1..(Len(s) - p) : i \in 1..(Len(s) - (p + 1) + 1) /\ p + 1 + i - 1 = i + p
      BY <1>1
    <2> QED
      BY <1>1, <2>2, <2>3
  <1>5. t = a \o b
    BY DEF Cut
  <1> HIDE DEF a, b, t
  <1>6. /\ t \in Seq(S) /\ Len(t) = Len(a) + Len(b)
        /\ \A i \in 1..(Len(a) + Len(b)) : t[i] = IF i <= Len(a) THEN a[i] ELSE b[i - Len(a)]
    <2>1. a \in Seq(S) /\ b \in Seq(S)
      BY <1>3, <1>4
    <2>2. /\ a \o b \in Seq(S) /\ Len(a \o b) = Len(a) + Len(b)
          /\ \A i \in 1..(Len(a) + Len(b)) :
                (a \o b)[i] = IF i <= Len(a) THEN a[i] ELSE b[i - Len(a)]
      BY <2>1, ConcatProperties
    <2> QED
      BY <1>5, <2>2
  <1>7. Len(a) + Len(b) = Len(s) - 1
    BY <1>1, <1>3, <1>4
  <1>8. ASSUME NEW i \in 1..(Len(s) - 1) PROVE t[i] = IF i < p THEN s[i] ELSE s[i + 1]
    <2>1. CASE i < p
      <3>1. i \in 1..(Len(a) + Len(b)) /\ i <= Len(a) /\ i \in 1..(p - 1)
        BY <1>1, <1>3, <1>7, <2>1
      <3> QED
        BY <1>3, <1>6, <2>1, <3>1
    <2>2. CASE ~(i < p)
      <3>1. i - (p - 1) \in 1..(Len(s) - p) /\ i - (p - 1) + p = i + 1
        BY <1>1, <2>2
      <3>2. t[i] = b[i - (p - 1)]
        <4>1. i \in 1..(Len(a) + Len(b)) /\ ~(i <= Len(a)) /\ Len(a) = p - 1
          BY <1>1, <1>3, <1>7, <2>2
        <4> QED
          BY <1>6, <4>1
      <3> QED
        BY <1>4, <2>2, <3>1, <3>2
    <2> QED
      BY <2>1, <2>2
  <1> QED
    BY <1>6, <1>7, <1>8 DEF t

-----------------------------------------------------------------------------
(* DatabaseBackups.  The directory lists each name once.                   *)
BackupNames == CopyNames \cup UploadNames

Entries == [name : BackupNames, contents : Nat]

IsDirectory(d) ==
    /\ d \in Seq(Entries)
    /\ \A i, j \in DOMAIN d : d[i].name = d[j].name => i = j

HeldIn(d, name) == \E i \in DOMAIN d : d[i].name = name /\ d[i].contents # Bak!Broken

Directory == IsDirectory(files)
Holds(name) == HeldIn(files, name)

LEMMA DirectoryIs ==
    ASSUME NEW d, IsDirectory(d)
    PROVE  /\ Len(d) \in Nat /\ DOMAIN d = 1..Len(d)
           /\ \A i \in 1..Len(d) : d[i] \in Entries
           /\ d # <<>> <=> 1 \in DOMAIN d
  <1>1. Len(d) \in Nat /\ DOMAIN d = 1..Len(d)
    BY LenProperties DEF IsDirectory
  <1>2. \A i \in 1..Len(d) : d[i] \in Entries
    BY ElementOfSeq DEF IsDirectory
  <1>3. d # <<>> => Len(d) # 0
    BY EmptySeq DEF IsDirectory
  <1> QED
    BY <1>1, <1>2, <1>3

LEMMA ContentsOf ==
    ASSUME Directory, NEW i \in DOMAIN files, NEW name, files[i].name = name
    PROVE  /\ Bak!Place(name) = i /\ Bak!Contents(name) = files[i].contents
           /\ name \in BackupNames /\ files[i].contents \in Nat
           /\ Holds(name) <=> files[i].contents # Bak!Broken
  <1>1. \A j \in DOMAIN files : files[j].name = name => j = i
    BY DEF Directory, IsDirectory
  <1>2. Bak!Place(name) = i
    BY <1>1 DEF Bak!Place
  <1>3. files[i] \in Entries
    BY DirectoryIs DEF Directory
  <1> QED
    BY <1>1, <1>2, <1>3 DEF Bak!Contents, Holds, HeldIn, Entries

LEMMA WithIn ==
    ASSUME NEW d, IsDirectory(d), NEW name \in BackupNames, NEW contents \in Nat,
           \A i \in DOMAIN d : d[i].name # name
    PROVE  LET t == Bak!With(name, contents, d) IN
           /\ IsDirectory(t) /\ t # <<>>
           /\ t[1] = [name |-> name, contents |-> contents]
           /\ \A n : HeldIn(d, n) => HeldIn(t, n)
  <1> DEFINE e == [name |-> name, contents |-> contents]
             t == Bak!With(name, contents, d)
  <1>0. e \in Entries /\ e.name = name
    BY DEF Entries
  <1>1. /\ Len(d) \in Nat /\ DOMAIN d = 1..Len(d)
        /\ \A i \in 1..Len(d) : d[i].name # name
    BY DirectoryIs
  <1>2. t = <<e>> \o d
    BY DEF Bak!With
  <1> HIDE DEF e, t
  <1>3. /\ t \in Seq(Entries) /\ Len(t) = Len(d) + 1 /\ t[1] = e
        /\ \A i \in 1..Len(d) : t[i + 1] = d[i]
    BY <1>0, <1>2, ConsIs DEF IsDirectory
  <1>4. DOMAIN t = 1..(Len(d) + 1)
    BY <1>3, LenProperties
  <1>5. ASSUME NEW i \in DOMAIN t, NEW j \in DOMAIN t, t[i].name = t[j].name
        PROVE  i = j
    <2>1. \A k \in DOMAIN t : k = 1 \/ (k - 1 \in 1..Len(d) /\ t[k] = d[k - 1])
      BY <1>1, <1>3, <1>4
    <2>2. CASE i = 1 \/ j = 1
      BY <1>0, <1>1, <1>3, <1>5, <2>1, <2>2
    <2>3. CASE i # 1 /\ j # 1
      <3>1. i - 1 = j - 1
        BY <1>1, <1>5, <2>1, <2>3 DEF IsDirectory
      <3> QED
        BY <1>1, <1>4, <3>1
    <2> QED
      BY <2>2, <2>3
  <1>6. IsDirectory(t)
    BY <1>3, <1>5 DEF IsDirectory
  <1>7. ASSUME NEW n, HeldIn(d, n) PROVE HeldIn(t, n)
    <2>1. PICK i \in 1..Len(d) : d[i].name = n /\ d[i].contents # Bak!Broken
      BY <1>1, <1>7 DEF HeldIn
    <2>2. i + 1 \in DOMAIN t /\ t[i + 1] = d[i]
      BY <1>1, <1>3, <1>4
    <2> QED
      BY <2>1, <2>2 DEF HeldIn
  <1>8. t # <<>>
    BY <1>1, <1>3, EmptySeq
  <1> QED
    BY <1>3, <1>6, <1>7, <1>8 DEF e, t

LEMMA WithoutIn ==
    ASSUME Directory, NEW name
    PROVE  LET t == Bak!Without(name) IN
           /\ IsDirectory(t)
           /\ \A i \in DOMAIN t : t[i].name # name
           /\ \A n : n # name /\ Holds(n) => HeldIn(t, n)
           /\ files # <<>> /\ files[1].name # name => t # <<>> /\ t[1] = files[1]
  <1> DEFINE t == Bak!Without(name)
  <1>0. /\ Len(files) \in Nat /\ DOMAIN files = 1..Len(files)
        /\ \A i \in 1..Len(files) : files[i] \in Entries
    BY DirectoryIs DEF Directory
  <1>1. CASE name \notin Bak!Listed
    BY <1>1 DEF Bak!Without, Directory, Holds, Bak!Listed
  <1>2. CASE name \in Bak!Listed
    <2>1. PICK p \in 1..Len(files) : files[p].name = name
      BY <1>0, <1>2 DEF Bak!Listed
    <2>2. p = Bak!Place(name)
      BY <1>0, <2>1, ContentsOf
    <2>3. t = Cut(files, p)
      BY <1>2, <2>2 DEF Bak!Without, Bak!RemoveAt, Cut
    <2> HIDE DEF t
    <2>4. /\ t \in Seq(Entries) /\ Len(t) = Len(files) - 1
          /\ \A i \in 1..(Len(files) - 1) : t[i] = IF i < p THEN files[i] ELSE files[i + 1]
      <3>1. files \in Seq(Entries)
        BY DEF Directory, IsDirectory
      <3> QED
        BY <2>1, <2>3, <3>1, RemoveAtIs
    <2>5. DOMAIN t = 1..(Len(files) - 1)
      BY <2>4, LenProperties
    <2> DEFINE From(i) == IF i < p THEN i ELSE i + 1
    <2>6. \A i \in 1..(Len(files) - 1) :
              From(i) \in 1..Len(files) /\ From(i) # p /\ t[i] = files[From(i)]
      BY <1>0, <2>4
    <2>7. \A i, j \in 1..(Len(files) - 1) : From(i) = From(j) => i = j
      BY <1>0
    <2> HIDE DEF From
    <2>8. ASSUME NEW i \in DOMAIN t, NEW j \in DOMAIN t, t[i].name = t[j].name
          PROVE  i = j
      <3>1. From(i) = From(j)
        BY <1>0, <2>5, <2>6, <2>8 DEF Directory, IsDirectory
      <3> QED
        BY <2>5, <2>7, <3>1
    <2>9. IsDirectory(t)
      BY <2>4, <2>8 DEF IsDirectory
    <2>10. \A i \in DOMAIN t : t[i].name # name
      BY <1>0, <2>1, <2>5, <2>6 DEF Directory, IsDirectory
    <2>11. ASSUME NEW n, n # name, Holds(n) PROVE HeldIn(t, n)
      <3>1. PICK i \in 1..Len(files) : files[i].name = n /\ files[i].contents # Bak!Broken
        BY <1>0, <2>11 DEF Holds, HeldIn
      <3>2. i # p
        BY <2>1, <2>11, <3>1
      <3>3. PICK j \in 1..(Len(files) - 1) : t[j] = files[i]
        <4>1. CASE i < p
          BY <1>0, <2>4, <4>1
        <4>2. CASE ~(i < p)
          <5>1. i - 1 \in 1..(Len(files) - 1) /\ ~(i - 1 < p) /\ i - 1 + 1 = i
            BY <1>0, <3>2, <4>2
          <5> QED
            BY <2>4, <5>1
        <4> QED
          BY <4>1, <4>2
      <3> QED
        BY <2>5, <3>1, <3>3 DEF HeldIn
    <2>12. ASSUME files # <<>>, files[1].name # name PROVE t # <<>> /\ t[1] = files[1]
      <3>1. 1 < p /\ 1 \in 1..(Len(files) - 1)
        BY <1>0, <2>1, <2>12
      <3>2. t[1] = files[1]
        BY <2>4, <3>1
      <3> QED
        BY <2>4, <3>1, <3>2, EmptySeq
    <2> QED
      BY <2>9, <2>10, <2>11, <2>12 DEF t
  <1> QED
    BY <1>1, <1>2

LEMMA WithIs ==
    ASSUME Directory, NEW name \in BackupNames, name \notin Bak!Listed, NEW contents \in Nat,
           files' = Bak!With(name, contents, files)
    PROVE  /\ Directory' /\ files' # <<>>
           /\ files'[1] = [name |-> name, contents |-> contents]
           /\ \A n \in BackupNames : Holds(n) => Holds(n)'
  <1>1. \A i \in DOMAIN files : files[i].name # name
    BY DEF Bak!Listed
  <1>2. IsDirectory(files)
    BY DEF Directory
  <1>3. /\ IsDirectory(files') /\ files' # <<>>
        /\ files'[1] = [name |-> name, contents |-> contents]
        /\ \A n : HeldIn(files, n) => HeldIn(files', n)
    BY <1>1, <1>2, WithIn
  <1>4. \A n : HeldIn(files', n) <=> HeldIn(files, n)'
    BY DEF HeldIn, Bak!Broken
  <1>5. IsDirectory(files') <=> IsDirectory(files)'
    BY DEF IsDirectory, Entries, BackupNames
  <1> QED
    BY <1>3, <1>4, <1>5 DEF Directory, Holds

LEMMA WithoutIs ==
    ASSUME Directory, NEW name, files' = Bak!Without(name)
    PROVE  /\ Directory'
           /\ \A n \in BackupNames : n # name /\ Holds(n) => Holds(n)'
           /\ files # <<>> /\ files[1].name # name => files' # <<>> /\ files'[1] = files[1]
  BY WithoutIn DEF Directory, Holds, HeldIn, Bak!Broken

LEMMA OverwriteIs ==
    ASSUME Directory, NEW name \in BackupNames, NEW contents \in Nat,
           files' = Bak!With(name, contents, Bak!Without(name))
    PROVE  Directory'
  BY WithoutIn, WithIn DEF Directory

(* What a request holds, and what it knows of the directory: the first     *)
(* file is no older than its safety copy and no prune is about to take it. *)
Marks(pcs, names, sources) ==
    [pc : pcs, name : names, source : sources, since : SUBSET (Nat \ {0}),
     shaken : BOOLEAN, robbed : BOOLEAN]

BackupTasks ==
    {Bak!Idle} \cup [pc : {"write", "verify"}, name : UploadNames]
    \cup Marks({"copy", "prune"}, CopyNames, BackupNames \cup {Bak!Nobody})
    \cup Marks({"unlink"}, SUBSET BackupNames, BackupNames \cup {Bak!Nobody})
    \cup Marks({"swap"}, {{}}, BackupNames \ {Bak!Nobody})

FirstIsSafe(since) ==
    files # <<>> /\ files[1].contents \in since /\ files[1].name \notin Bak!Doomed

Sound(v) ==
    Bak!Restoring(v) =>
        /\ dbWork[v].pc # "copy" => data \in dbWork[v].since
        /\ dbWork[v].pc = "unlink" => dbWork[v].source \notin dbWork[v].name
        /\ ~dbWork[v].shaken =>
            /\ ~dbWork[v].robbed => Holds(dbWork[v].source)
            /\ dbWork[v].pc # "copy" => FirstIsSafe(dbWork[v].since)

BackupTyped ==
    /\ Directory /\ data \in Nat \ {0} /\ stamp \in Nat \ {0}
    /\ dbWork \in [Callers -> BackupTasks]

BackupInv == BackupTyped /\ \A v \in Callers : Sound(v)

LEMMA TaskOf ==
    ASSUME BackupTyped, NEW v \in Callers
    PROVE  /\ Bak!At(v, "copy") \/ Bak!At(v, "prune")
                => dbWork[v] \in Marks({"copy", "prune"}, CopyNames, BackupNames \cup {Bak!Nobody})
           /\ Bak!At(v, "unlink")
                => dbWork[v] \in Marks({"unlink"}, SUBSET BackupNames, BackupNames \cup {Bak!Nobody})
           /\ Bak!At(v, "swap")
                => dbWork[v] \in Marks({"swap"}, {{}}, BackupNames \ {Bak!Nobody})
           /\ Bak!At(v, "write") \/ Bak!At(v, "verify")
                => dbWork[v] \in [pc : {"write", "verify"}, name : UploadNames]
  BY DEF BackupTyped, BackupTasks, Bak!At, Bak!Idle, Marks

LEMMA MarksOf ==
    ASSUME BackupTyped, NEW v \in Callers, Bak!Restoring(v)
    PROVE  /\ dbWork[v].since \subseteq Nat \ {0} /\ dbWork[v].source \in BackupNames
           /\ dbWork[v].shaken \in BOOLEAN /\ dbWork[v].robbed \in BOOLEAN
           /\ dbWork[v].pc = "unlink" => dbWork[v].name \subseteq BackupNames
  <1>1. Bak!At(v, "copy") \/ Bak!At(v, "prune") \/ Bak!At(v, "unlink") \/ Bak!At(v, "swap")
    BY DEF Bak!Restoring, Bak!At
  <1> QED
    BY <1>1, TaskOf DEF Marks, Bak!Restoring, Bak!At

(* A request that does not move, and the marks it is given meanwhile.      *)
Goes(v, shaken, gone) ==
    /\ dbWork'[v].pc = dbWork[v].pc
    /\ Bak!At(v, "unlink") => dbWork'[v].name = dbWork[v].name
    /\ Bak!Restoring(v) =>
        /\ dbWork'[v].source = dbWork[v].source
        /\ dbWork[v].pc = "unlink" => dbWork'[v].name = dbWork[v].name
        /\ dbWork[v].since \subseteq dbWork'[v].since
        /\ data' = data \/ data' \in dbWork'[v].since
        /\ ~dbWork'[v].shaken => ~dbWork[v].shaken /\ ~shaken
        /\ ~dbWork'[v].robbed => ~dbWork[v].robbed /\ dbWork[v].source \notin gone
    /\ ~Bak!Restoring(v) => dbWork'[v] = dbWork[v]

LEMMA MovesGoes ==
    ASSUME BackupTyped, NEW w, NEW state \in BackupTasks, NEW shaken \in BOOLEAN, NEW gone,
           data' \in Nat \ {0}, Bak!Moves(w, state, data', shaken, gone)
    PROVE  /\ dbWork' \in [Callers -> BackupTasks]
           /\ w \in Callers => dbWork'[w] = state
           /\ \A v \in Callers \ {w} : Goes(v, shaken, gone)
  <1>1. ASSUME NEW v \in Callers, v # w, Bak!Restoring(v)
        PROVE  dbWork'[v] \in BackupTasks /\ Goes(v, shaken, gone)
    <2>1. dbWork'[v] = [dbWork[v] EXCEPT !.since = @ \cup {data'}, !.shaken = @ \/ shaken,
                                         !.robbed = @ \/ dbWork[v].source \in gone]
      BY <1>1 DEF Bak!Moves
    <2> DEFINE harm == (dbWork[v].shaken \/ shaken)
               loss == (dbWork[v].robbed \/ dbWork[v].source \in gone)
               known == dbWork[v].since \cup {data'}
    <2>2. harm \in BOOLEAN /\ loss \in BOOLEAN /\ known \in SUBSET (Nat \ {0})
      BY <1>1, MarksOf
    <2>a. dbWork'[v] = [dbWork[v] EXCEPT !.since = known, !.shaken = harm, !.robbed = loss]
      BY <2>1
    <2> HIDE DEF harm, loss, known
    <2>3. ASSUME NEW pcs, NEW names, NEW sources, dbWork[v] \in Marks(pcs, names, sources)
          PROVE  dbWork'[v] \in Marks(pcs, names, sources) /\ Goes(v, shaken, gone)
      <3>1. dbWork'[v] \in Marks(pcs, names, sources)
        BY <2>a, <2>2, <2>3 DEF Marks
      <3>2. /\ dbWork'[v].pc = dbWork[v].pc /\ dbWork'[v].name = dbWork[v].name
            /\ dbWork'[v].source = dbWork[v].source
            /\ dbWork'[v].since = dbWork[v].since \cup {data'}
            /\ dbWork'[v].shaken = (dbWork[v].shaken \/ shaken)
            /\ dbWork'[v].robbed = (dbWork[v].robbed \/ dbWork[v].source \in gone)
        BY <2>a, <2>3 DEF Marks, harm, loss, known
      <3> QED
        BY <1>1, <3>1, <3>2 DEF Goes
    <2>4. Bak!At(v, "copy") \/ Bak!At(v, "prune") \/ Bak!At(v, "unlink") \/ Bak!At(v, "swap")
      BY <1>1 DEF Bak!Restoring, Bak!At
    <2> QED
      BY <2>3, <2>4, TaskOf DEF BackupTasks
  <1>2. ASSUME NEW v \in Callers, v # w, ~Bak!Restoring(v)
        PROVE  dbWork'[v] \in BackupTasks /\ Goes(v, shaken, gone)
    <2>1. dbWork'[v] = dbWork[v]
      BY <1>2 DEF Bak!Moves
    <2> QED
      BY <1>2, <2>1 DEF Goes, BackupTyped
  <1>3. w \in Callers => dbWork'[w] = state
    BY DEF Bak!Moves
  <1>4. \A v \in Callers : dbWork'[v] \in BackupTasks
    BY <1>1, <1>2, <1>3
  <1>5. dbWork' = [v \in Callers |-> dbWork'[v]]
    BY DEF Bak!Moves
  <1> QED
    BY <1>1, <1>2, <1>3, <1>4, <1>5

LEMMA GotoGoes ==
    ASSUME BackupTyped, NEW w \in Callers, NEW state \in BackupTasks, Bak!Goto(w, state),
           UNCHANGED data
    PROVE  /\ dbWork' \in [Callers -> BackupTasks]
           /\ dbWork'[w] = state
           /\ \A v \in Callers \ {w} : Goes(v, FALSE, {})
  BY DEF Goes, BackupTyped, Bak!Goto

(* What the directory must keep for those.                                 *)
DirectoryKeeps(shaken, gone) ==
    ~shaken =>
        /\ \A n \in BackupNames \ gone : Holds(n) => Holds(n)'
        /\ \/ FirstIsSafe({data})'
           \/ \A since \in SUBSET (Nat \ {0}) : FirstIsSafe(since) => FirstIsSafe(since)'

LEMMA OthersStaySound ==
    ASSUME BackupInv, NEW v \in Callers, NEW shaken \in BOOLEAN, NEW gone, Goes(v, shaken, gone),
           DirectoryKeeps(shaken, gone)
    PROVE  Sound(v)'
  <1> SUFFICES ASSUME Bak!Restoring(v)' PROVE Sound(v)'
    BY DEF Sound
  <1>1. Bak!Restoring(v)
    BY DEF Goes, Bak!Restoring, Bak!At
  <1>2. dbWork[v].since \subseteq Nat \ {0} /\ dbWork[v].source \in BackupNames
    BY <1>1, MarksOf DEF BackupInv
  <1>3. dbWork'[v].pc # "copy" => data' \in dbWork'[v].since
    BY <1>1 DEF Goes, BackupInv, Sound
  <1>4. dbWork'[v].pc = "unlink" => dbWork'[v].source \notin dbWork'[v].name
    BY <1>1 DEF Goes, BackupInv, Sound
  <1>5. ASSUME ~dbWork'[v].shaken, ~dbWork'[v].robbed PROVE Holds(dbWork[v].source)'
    BY <1>1, <1>2, <1>5 DEF Goes, BackupInv, Sound, DirectoryKeeps
  <1>6. ASSUME ~dbWork'[v].shaken, dbWork'[v].pc # "copy"
        PROVE  FirstIsSafe(dbWork[v].since)'
    <2>1. PICK held \in SUBSET (Nat \ {0}) : held = dbWork[v].since
      BY <1>2
    <2>2. FirstIsSafe(held) /\ ~shaken
      BY <1>1, <1>6, <2>1 DEF Goes, BackupInv, Sound
    <2>3. FirstIsSafe(held)' \/ FirstIsSafe({data})'
      BY <2>2 DEF DirectoryKeeps
    <2>4. held \subseteq dbWork'[v].since /\ data' \in dbWork'[v].since
      BY <1>1, <1>3, <1>6, <2>1 DEF Goes
    <2> QED
      BY <2>3, <2>4 DEF FirstIsSafe
  <1> QED
    BY <1>1, <1>3, <1>4, <1>5, <1>6 DEF Sound, Goes

(* What a prune may be about to delete after a step of w.                  *)
LEMMA DoomedIs ==
    ASSUME NEW w, NEW shaken, NEW gone, \A v \in Callers \ {w} : Goes(v, shaken, gone),
           NEW n \in Bak!Doomed'
    PROVE  n \in Bak!Doomed \/ (w \in Callers /\ dbWork'[w].pc = "unlink" /\ n \in dbWork'[w].name)
  <1>1. PICK v \in Callers : dbWork'[v].pc = "unlink" /\ n \in dbWork'[v].name
    BY DEF Bak!Doomed, Bak!At
  <1>2. CASE v # w
    <2>1. Bak!At(v, "unlink") /\ n \in dbWork[v].name
      BY <1>1, <1>2 DEF Goes, Bak!At
    <2> QED
      BY <2>1 DEF Bak!Doomed
  <1> QED
    BY <1>1, <1>2

LEMMA SameDirectory ==
    ASSUME UNCHANGED files, NEW shaken, NEW gone,
           \A n \in Bak!Doomed' : n \in Bak!Doomed \/ (files # <<>> => n # files[1].name)
    PROVE  DirectoryKeeps(shaken, gone)
  BY DEF DirectoryKeeps, FirstIsSafe, Holds, Bak!Broken

LEMMA SoundOfOthers ==
    ASSUME BackupInv, NEW w, NEW state, NEW shaken \in BOOLEAN, NEW gone,
           dbWork' \in [Callers -> BackupTasks], w \in Callers => dbWork'[w] = state,
           \A v \in Callers \ {w} : Goes(v, shaken, gone),
           DirectoryKeeps(shaken, gone), Directory',
           data' \in Nat \ {0}, stamp' \in Nat \ {0},
           w \in Callers => Sound(w)'
    PROVE  BackupInv'
  <1>1. \A v \in Callers : Sound(v)'
    BY OthersStaySound
  <1> QED
    BY <1>1 DEF BackupInv, BackupTyped

LEMMA NotRestoring ==
    ASSUME NEW w \in Callers,
           dbWork'[w].pc \in {"copy", "prune", "unlink", "swap"} => dbWork'[w].source = Bak!Nobody
    PROVE  Sound(w)'
  BY DEF Sound, Bak!Restoring, Bak!Nobody

(* A step between two awaits that touches nothing but the request, and one *)
(* that the whole directory may see.                                       *)
LEMMA QuietStep ==
    ASSUME BackupInv, NEW w \in Callers, NEW state \in BackupTasks, Bak!Goto(w, state),
           UNCHANGED <<data, stamp>>, Directory', DirectoryKeeps(FALSE, {}),
           state.pc \in {"copy", "prune", "unlink", "swap"}
                => state.source = Bak!Nobody \/ Sound(w)'
    PROVE  BackupInv'
  <1>1. /\ dbWork' \in [Callers -> BackupTasks] /\ dbWork'[w] = state
        /\ \A v \in Callers \ {w} : Goes(v, FALSE, {})
    BY GotoGoes DEF BackupInv
  <1>2. Sound(w)'
    BY <1>1, NotRestoring
  <1> QED
    BY <1>1, <1>2, SoundOfOthers DEF BackupInv, BackupTyped

LEMMA LoudStep ==
    ASSUME BackupInv, NEW w, NEW state \in BackupTasks, NEW shaken \in BOOLEAN, NEW gone,
           data' \in Nat \ {0}, stamp' \in Nat \ {0}, Bak!Moves(w, state, data', shaken, gone),
           Directory', DirectoryKeeps(shaken, gone),
           state.pc \in {"copy", "prune", "unlink", "swap"} /\ w \in Callers
                => state.source = Bak!Nobody \/ Sound(w)'
    PROVE  BackupInv'
  <1>1. /\ dbWork' \in [Callers -> BackupTasks]
        /\ w \in Callers => dbWork'[w] = state
        /\ \A v \in Callers \ {w} : Goes(v, shaken, gone)
    BY MovesGoes DEF BackupInv
  <1>2. w \in Callers => Sound(w)'
    BY <1>1, NotRestoring
  <1> QED
    BY <1>1, <1>2, SoundOfOthers

LEMMA IdleIs == Bak!Idle \in BackupTasks /\ Bak!Idle.pc = "idle"
  BY DEF BackupTasks, Bak!Idle

LEMMA PruningIs ==
    ASSUME BackupTyped, NEW w \in Callers, Bak!At(w, "prune") \/ Bak!At(w, "unlink"),
           NEW names \in SUBSET BackupNames, NEW state, state = Bak!Pruning(w, names)
    PROVE  /\ state \in BackupTasks /\ state.pc \in {"idle", "unlink", "swap"}
           /\ state.pc # "idle" =>
                /\ state.source = dbWork[w].source /\ state.since = dbWork[w].since
                /\ state.shaken = dbWork[w].shaken /\ state.robbed = dbWork[w].robbed
           /\ state.pc = "unlink" => state.name = names
  <1>1. \E pcs, nameses : dbWork[w] \in Marks(pcs, nameses, BackupNames \cup {Bak!Nobody})
    BY TaskOf
  <1>2. PICK pcs, nameses : dbWork[w] \in Marks(pcs, nameses, BackupNames \cup {Bak!Nobody})
    BY <1>1
  <1>3. CASE names # {}
    <2>1. state = [dbWork[w] EXCEPT !.pc = "unlink", !.name = names]
      BY <1>3 DEF Bak!Pruning
    <2>2. state \in Marks({"unlink"}, SUBSET BackupNames, BackupNames \cup {Bak!Nobody})
      BY <1>2, <2>1 DEF Marks
    <2> QED
      BY <1>2, <2>1, <2>2 DEF Marks, BackupTasks
  <1>4. CASE names = {} /\ dbWork[w].source = Bak!Nobody
    BY <1>4, IdleIs DEF Bak!Pruning
  <1>5. CASE names = {} /\ dbWork[w].source # Bak!Nobody
    <2>1. state = [dbWork[w] EXCEPT !.pc = "swap", !.name = {}]
      BY <1>5 DEF Bak!Pruning
    <2>2. state \in Marks({"swap"}, {{}}, BackupNames \ {Bak!Nobody})
      BY <1>2, <1>5, <2>1 DEF Marks
    <2> QED
      BY <1>2, <2>1, <2>2 DEF Marks, BackupTasks
  <1> QED
    BY <1>3, <1>4, <1>5

(* A restore that goes on after its safety copy keeps what it knows.       *)
LEMMA OwnSound ==
    ASSUME BackupInv, NEW w \in Callers, Bak!At(w, "prune") \/ Bak!At(w, "unlink"),
           dbWork'[w].pc \in {"unlink", "swap"},
           dbWork'[w].source = dbWork[w].source, dbWork'[w].since = dbWork[w].since,
           dbWork'[w].shaken = dbWork[w].shaken, dbWork'[w].robbed = dbWork[w].robbed,
           dbWork'[w].pc = "unlink" => dbWork'[w].name \subseteq BackupNames \ {dbWork[w].source},
           NEW gone, dbWork[w].source \notin gone, DirectoryKeeps(FALSE, gone), UNCHANGED data
    PROVE  Sound(w)'
  <1> SUFFICES ASSUME dbWork[w].source # Bak!Nobody PROVE Sound(w)'
    BY DEF Sound, Bak!Restoring, Bak!Nobody
  <1>1. Bak!Restoring(w) /\ dbWork[w].pc # "copy"
    BY DEF Bak!Restoring, Bak!At, Bak!Nobody
  <1>2. PICK held \in SUBSET (Nat \ {0}), source \in BackupNames :
            held = dbWork[w].since /\ source = dbWork[w].source
    BY <1>1, MarksOf DEF BackupInv
  <1>3. data \in held
    BY <1>1, <1>2 DEF BackupInv, Sound
  <1>4. ASSUME ~dbWork[w].shaken PROVE FirstIsSafe(held)'
    <2>1. FirstIsSafe(held)
      BY <1>1, <1>2, <1>4 DEF BackupInv, Sound
    <2>2. FirstIsSafe(held)' \/ FirstIsSafe({data})'
      BY <2>1 DEF DirectoryKeeps
    <2> QED
      BY <1>3, <2>2 DEF FirstIsSafe
  <1>5. ASSUME ~dbWork[w].shaken, ~dbWork[w].robbed PROVE Holds(source)'
    BY <1>1, <1>2, <1>5 DEF BackupInv, Sound, DirectoryKeeps
  <1> QED
    BY <1>2, <1>3, <1>4, <1>5 DEF Sound

LEMMA PruneKeeps ==
    ASSUME BackupInv, NEW w \in Callers, Bak!Prune(w)
    PROVE  BackupInv'
  <1> DEFINE names == Bak!Victims(dbWork[w].source)
             state == Bak!Pruning(w, names)
  <1>1. names \subseteq BackupNames /\ dbWork[w].source \notin names
        /\ (files # <<>> => files[1].name \notin names)
    <2>1. ASSUME NEW n \in names
          PROVE  n \in BackupNames /\ n # dbWork[w].source /\ (files # <<>> => n # files[1].name)
      <3>1. PICK i \in (KEEP + 1)..Len(files) : n = files[i].name
        BY DEF Bak!Victims, Bak!Surplus
      <3>2. i \in DOMAIN files /\ i # 1
        BY <3>1, DirectoryIs, KeepAssumption DEF BackupInv, BackupTyped
      <3>3. files # <<>> => n # files[1].name
        BY <3>1, <3>2, DirectoryIs DEF BackupInv, BackupTyped, Directory, IsDirectory
      <3>4. n \in BackupNames
        BY <3>1, <3>2, ContentsOf DEF BackupInv, BackupTyped
      <3> QED
        BY <3>3, <3>4 DEF Bak!Victims
    <2> QED
      BY <2>1
  <1>2. Bak!Goto(w, state) /\ Bak!At(w, "prune") /\ UNCHANGED <<data, stamp, files>>
    BY DEF Bak!Prune
  <1> HIDE DEF names
  <1>3. /\ state \in BackupTasks /\ state.pc \in {"idle", "unlink", "swap"}
        /\ state.pc # "idle" =>
                /\ state.source = dbWork[w].source /\ state.since = dbWork[w].since
                /\ state.shaken = dbWork[w].shaken /\ state.robbed = dbWork[w].robbed
        /\ state.pc = "unlink" => state.name = names
    BY <1>1, <1>2, PruningIs DEF BackupInv
  <1> HIDE DEF state
  <1>4. /\ dbWork'[w] = state /\ \A v \in Callers \ {w} : Goes(v, FALSE, {})
    BY <1>2, <1>3, GotoGoes DEF BackupInv
  <1>5. DirectoryKeeps(FALSE, {})
    <2>1. \A n \in Bak!Doomed' : n \in Bak!Doomed \/ (files # <<>> => n # files[1].name)
      BY <1>1, <1>3, <1>4, DoomedIs
    <2> QED
      BY <1>2, <2>1, SameDirectory
  <1>6. state.pc # "idle" => Sound(w)'
    BY <1>1, <1>2, <1>3, <1>4, <1>5, OwnSound
  <1>7. Directory'
    BY <1>2 DEF BackupInv, BackupTyped, Directory
  <1> QED
    BY <1>2, <1>3, <1>5, <1>6, <1>7, QuietStep

LEMMA UnlinkKeeps ==
    ASSUME BackupInv, NEW w \in Callers, Bak!Unlink(w)
    PROVE  BackupInv'
  <1>1. PICK name \in dbWork[w].name :
            /\ files' = Bak!Without(name)
            /\ Bak!Moves(w, Bak!Pruning(w, dbWork[w].name \ {name}), data, FALSE, {name})
    BY DEF Bak!Unlink
  <1>2. Bak!At(w, "unlink") /\ UNCHANGED <<data, stamp>>
    BY DEF Bak!Unlink
  <1> DEFINE names == dbWork[w].name \ {name}
             state == Bak!Pruning(w, names)
  <1>3. dbWork[w].name \subseteq BackupNames /\ names \subseteq BackupNames
    BY <1>2, TaskOf DEF BackupInv, Marks
  <1>4. /\ state \in BackupTasks /\ state.pc \in {"idle", "unlink", "swap"}
        /\ state.pc # "idle" =>
                /\ state.source = dbWork[w].source /\ state.since = dbWork[w].since
                /\ state.shaken = dbWork[w].shaken /\ state.robbed = dbWork[w].robbed
        /\ state.pc = "unlink" => state.name = names
    <2>1. BackupTyped /\ Bak!At(w, "unlink") /\ names \in SUBSET BackupNames
      BY <1>2, <1>3 DEF BackupInv
    <2> HIDE DEF names, state
    <2>2. state = Bak!Pruning(w, names)
      BY DEF state
    <2> QED
      BY <2>1, <2>2, PruningIs
  <1>5. Bak!Moves(w, state, data', FALSE, {name})
    BY <1>1, <1>2
  <1> HIDE DEF state
  <1>6. /\ dbWork'[w] = state /\ \A v \in Callers \ {w} : Goes(v, FALSE, {name})
    BY <1>2, <1>4, <1>5, MovesGoes DEF BackupInv, BackupTyped
  <1>7. /\ Directory'
        /\ \A n \in BackupNames : n # name /\ Holds(n) => Holds(n)'
        /\ files # <<>> /\ files[1].name # name => files' # <<>> /\ files'[1] = files[1]
    BY <1>1, WithoutIs DEF BackupInv, BackupTyped
  <1>8. name \in Bak!Doomed /\ \A n \in Bak!Doomed' : n \in Bak!Doomed
    <2>1. \A n \in dbWork[w].name : n \in Bak!Doomed
      BY <1>2 DEF Bak!Doomed
    <2> QED
      BY <1>4, <1>6, <2>1, DoomedIs
  <1>9. DirectoryKeeps(FALSE, {name})
    BY <1>7, <1>8 DEF DirectoryKeeps, FirstIsSafe
  <1>10. state.pc # "idle" /\ state.source # Bak!Nobody => Sound(w)'
    <2>1. ASSUME state.pc # "idle", state.source # Bak!Nobody
          PROVE  dbWork[w].source \notin dbWork[w].name
      BY <1>2, <1>4, <2>1 DEF BackupInv, Sound, Bak!Restoring, Bak!At, Bak!Nobody
    <2> QED
      BY <1>2, <1>3, <1>4, <1>6, <1>9, <2>1, OwnSound
  <1> QED
    BY <1>2, <1>4, <1>5, <1>7, <1>9, <1>10, LoudStep DEF BackupInv, BackupTyped

LEMMA CopyKeeps ==
    ASSUME BackupInv, NEW w \in Callers, Bak!Copy(w)
    PROVE  BackupInv'
  <1> DEFINE source == dbWork[w].source
             clash == dbWork[w].name \in Bak!Doomed
             since == IF source = Bak!Nobody THEN {} ELSE {data}
             harm == (dbWork[w].shaken \/ clash)
             state == [dbWork[w] EXCEPT !.pc = "prune", !.since = since, !.shaken = harm]
  <1>1. PICK name \in CopyNames : name = dbWork[w].name
    BY TaskOf DEF BackupInv, Bak!Copy, Marks
  <1>2. /\ Bak!At(w, "copy") /\ name \notin Bak!Listed
        /\ files' = Bak!With(name, data, files) /\ UNCHANGED <<data, stamp>>
        /\ Bak!Moves(w, state, data', clash, {})
    BY <1>1 DEF Bak!Copy
  <1>3. /\ Directory' /\ files' # <<>> /\ files'[1] = [name |-> name, contents |-> data]
        /\ \A n \in BackupNames : Holds(n) => Holds(n)'
    BY <1>2, WithIs DEF BackupInv, BackupTyped, BackupNames
  <1>4. dbWork[w] \in Marks({"copy", "prune"}, CopyNames, BackupNames \cup {Bak!Nobody})
    BY <1>2, TaskOf DEF BackupInv
  <1>5. data \in Nat \ {0} /\ since \subseteq Nat \ {0} /\ clash \in BOOLEAN /\ harm \in BOOLEAN
    BY <1>4 DEF BackupInv, BackupTyped, Marks
  <1>6. /\ state \in Marks({"copy", "prune"}, CopyNames, BackupNames \cup {Bak!Nobody})
        /\ state.pc = "prune" /\ state.source = source /\ state.since = since
        /\ state.shaken = harm /\ state.robbed = dbWork[w].robbed
    <2> HIDE DEF since, harm, source
    <2>1. state \in Marks({"copy", "prune"}, CopyNames, BackupNames \cup {Bak!Nobody})
      BY <1>4, <1>5 DEF Marks
    <2> QED
      BY <1>4, <2>1 DEF Marks, source
  <1>7. state \in BackupTasks
    BY <1>6 DEF BackupTasks
  <1>a. /\ Bak!Moves(w, state, data', clash, {}) /\ clash \in BOOLEAN
        /\ data' \in Nat \ {0} /\ state \in BackupTasks /\ BackupTyped
    BY <1>2, <1>5, <1>7 DEF BackupInv
  <1> HIDE DEF state
  <1>8. /\ dbWork'[w] = state /\ \A v \in Callers \ {w} : Goes(v, clash, {})
    <2> HIDE DEF clash, harm, since, source
    <2> QED
      BY <1>a, MovesGoes
  <1>9. \A n \in Bak!Doomed' : n \in Bak!Doomed
    BY <1>6, <1>8, DoomedIs
  <1>10. ~clash => FirstIsSafe({data})'
    BY <1>1, <1>2, <1>3, <1>9 DEF FirstIsSafe
  <1>11. DirectoryKeeps(clash, {})
    BY <1>3, <1>10 DEF DirectoryKeeps
  <1>12. ASSUME source # Bak!Nobody PROVE Sound(w)'
    <2>1. Bak!Restoring(w) /\ since = {data}
      BY <1>2, <1>12 DEF Bak!Restoring, Bak!At, Bak!Nobody
    <2>2. PICK s \in BackupNames : s = source
      BY <2>1, MarksOf DEF BackupInv
    <2>3. ASSUME ~harm PROVE FirstIsSafe({data})'
      BY <1>10, <2>3
    <2>4. ASSUME ~harm, ~dbWork[w].robbed PROVE Holds(s)'
      BY <1>3, <2>1, <2>2, <2>4 DEF BackupInv, Sound
    <2>5. FirstIsSafe({data})' => FirstIsSafe(dbWork[w].since)'
      BY <1>2, <1>6, <1>8, <2>1 DEF FirstIsSafe
    <2> QED
      BY <1>2, <1>6, <1>8, <2>1, <2>2, <2>3, <2>4, <2>5 DEF Sound
  <1> HIDE DEF clash, harm, since
  <1> QED
    BY <1>2, <1>3, <1>5, <1>6, <1>7, <1>11, <1>12, LoudStep DEF BackupInv, BackupTyped

LEMMA EntryKeeps ==
    ASSUME BackupInv, NEW w \in Callers,
           \/ Bak!Create(w) \/ Bak!Refuse(w) \/ Bak!Receive(w)
           \/ \E source \in CopyNames \cup UploadNames : Bak!Restore(w, source)
    PROVE  BackupInv'
  <1>1. UNCHANGED <<data, stamp, files>> /\ Directory'
    BY DEF Bak!Create, Bak!Refuse, Bak!Receive, Bak!Restore, BackupInv, BackupTyped, Directory
  <1>2. ASSUME NEW state \in BackupTasks, Bak!Goto(w, state), state.pc # "unlink",
               state.pc \in {"copy", "prune", "unlink", "swap"}
                   => state.source = Bak!Nobody \/ Sound(w)'
        PROVE  BackupInv'
    <2>1. /\ dbWork'[w] = state /\ \A v \in Callers \ {w} : Goes(v, FALSE, {})
      BY <1>1, <1>2, GotoGoes DEF BackupInv
    <2>2. DirectoryKeeps(FALSE, {})
      BY <1>1, <1>2, <2>1, DoomedIs, SameDirectory
    <2> QED
      BY <1>1, <1>2, <2>2, QuietStep
  <1>3. ASSUME NEW name \in CopyNames, NEW source \in BackupNames \cup {Bak!Nobody},
               Bak!Goto(w, Bak!Copying(name, source)), source # Bak!Nobody => Holds(source)
        PROVE  BackupInv'
    <2> DEFINE state == Bak!Copying(name, source)
    <2>1. /\ state \in Marks({"copy", "prune"}, CopyNames, BackupNames \cup {Bak!Nobody})
          /\ state.pc = "copy" /\ state.source = source
      BY DEF Marks, Bak!Copying
    <2>2. state \in BackupTasks
      BY <2>1 DEF BackupTasks
    <2> HIDE DEF state
    <2>3. dbWork'[w] = state
      BY <1>3, <2>2 DEF BackupInv, BackupTyped, Bak!Goto, state
    <2>4. source # Bak!Nobody => Sound(w)'
      <3>1. Holds(source) => Holds(source)'
        BY <1>1 DEF Holds, Bak!Broken
      <3> QED
        BY <1>3, <2>1, <2>3, <3>1 DEF Sound
    <2> QED
      BY <1>2, <1>3, <2>1, <2>2, <2>4 DEF state
  <1>4. CASE Bak!Create(w)
    <2>1. PICK name \in CopyNames : Bak!Goto(w, Bak!Copying(name, Bak!Nobody))
      BY <1>4 DEF Bak!Create, Bak!Free
    <2> QED
      BY <1>3, <2>1
  <1>5. ASSUME NEW source \in CopyNames \cup UploadNames, Bak!Restore(w, source) PROVE BackupInv'
    <2>1. PICK name \in CopyNames : Bak!Goto(w, Bak!Copying(name, source))
      BY <1>5 DEF Bak!Restore, Bak!Free
    <2>2. PICK i \in DOMAIN files : files[i].name = source
      BY <1>5 DEF Bak!Restore, Bak!Listed
    <2>3. Holds(source)
      BY <1>5, <2>2, ContentsOf DEF Bak!Restore, BackupInv, BackupTyped
    <2> QED
      BY <1>3, <2>1, <2>3 DEF BackupNames
  <1>6. CASE Bak!Refuse(w)
    BY <1>2, <1>6, IdleIs DEF Bak!Refuse
  <1>7. CASE Bak!Receive(w)
    <2>1. PICK name \in UploadNames : Bak!Goto(w, [pc |-> "write", name |-> name])
      BY <1>7 DEF Bak!Receive, Bak!Free
    <2>2. [pc |-> "write", name |-> name] \in BackupTasks
      BY DEF BackupTasks
    <2> QED
      BY <1>2, <2>1, <2>2
  <1> QED
    BY <1>4, <1>5, <1>6, <1>7

LEMMA SwapKeeps ==
    ASSUME BackupInv, NEW w \in Callers, Bak!Swap(w) \/ Bak!Misattach(w)
    PROVE  BackupInv'
  <1>1. PICK source \in BackupNames : source = dbWork[w].source
    BY TaskOf DEF BackupInv, Bak!Swap, Bak!Misattach, Marks
  <1>2. ASSUME NEW shaken \in BOOLEAN, Bak!Moves(w, Bak!Idle, data', shaken, {}),
               UNCHANGED stamp, data' \in Nat \ {0}, UNCHANGED files \/ (shaken /\ Directory')
        PROVE  BackupInv'
    <2>1. Directory'
      BY <1>2 DEF BackupInv, BackupTyped, Directory
    <2>2. /\ dbWork'[w] = Bak!Idle /\ \A v \in Callers \ {w} : Goes(v, shaken, {})
      BY <1>2, IdleIs, MovesGoes DEF BackupInv
    <2>3. UNCHANGED files => DirectoryKeeps(shaken, {})
      BY <2>2, IdleIs, DoomedIs, SameDirectory
    <2>4. DirectoryKeeps(shaken, {})
      BY <1>2, <2>3 DEF DirectoryKeeps
    <2> QED
      BY <1>2, <2>1, <2>4, IdleIs, LoudStep DEF BackupInv, BackupTyped
  <1>3. CASE Bak!Swap(w)
    <2>1. PICK i \in DOMAIN files : files[i].name = source
      BY <1>1, <1>3 DEF Bak!Swap, Bak!Listed
    <2>2. Bak!Contents(source) \in Nat \ {0}
      BY <1>1, <1>3, <2>1, ContentsOf DEF Bak!Swap, Bak!Broken, BackupInv, BackupTyped
    <2> QED
      BY <1>1, <1>2, <1>3, <2>2 DEF Bak!Swap
  <1>4. CASE Bak!Misattach(w)
    <2>1. source \notin Bak!Listed => Directory'
      BY <1>1, <1>4, WithIs DEF Bak!Misattach, BackupInv, BackupTyped, Bak!Broken
    <2>2. data \in Nat \ {0} /\ UNCHANGED <<data, stamp>>
      BY <1>4 DEF Bak!Misattach, BackupInv, BackupTyped
    <2> QED
      BY <1>1, <1>2, <1>4, <2>1, <2>2 DEF Bak!Misattach
  <1> QED
    BY <1>3, <1>4

LEMMA UploadKeeps ==
    ASSUME BackupInv, NEW w \in Callers, Bak!StoreUpload(w) \/ Bak!VerifyUpload(w)
    PROVE  BackupInv'
  <1>1. PICK name \in UploadNames : name = dbWork[w].name
    BY TaskOf DEF BackupInv, Bak!StoreUpload, Bak!VerifyUpload
  <1>2. CASE Bak!StoreUpload(w)
    <2> DEFINE state == [pc |-> "verify", name |-> name]
    <2>1. PICK contents \in {Bak!Broken, Bak!Foreign} :
              files' = Bak!With(name, contents, Bak!Without(name))
      BY <1>1, <1>2 DEF Bak!StoreUpload
    <2>2. Bak!Moves(w, state, data', TRUE, {}) /\ UNCHANGED <<data, stamp>>
      BY <1>1, <1>2 DEF Bak!StoreUpload
    <2>3. state \in BackupTasks /\ state.pc = "verify"
      BY DEF BackupTasks
    <2> HIDE DEF state
    <2>4. Directory'
      BY <2>1, OverwriteIs DEF BackupInv, BackupTyped, BackupNames, Bak!Broken, Bak!Foreign
    <2> QED
      BY <2>2, <2>3, <2>4, LoudStep DEF DirectoryKeeps, BackupInv, BackupTyped
  <1>3. CASE Bak!VerifyUpload(w)
    <2>1. /\ Bak!Goto(w, Bak!Idle) /\ UNCHANGED <<data, stamp>>
          /\ files' = IF name \in Bak!Listed /\ Bak!Contents(name) # Bak!Broken
                      THEN files ELSE Bak!Without(name)
      BY <1>1, <1>3 DEF Bak!VerifyUpload
    <2>2. dbWork'[w] = Bak!Idle /\ \A v \in Callers \ {w} : Goes(v, FALSE, {})
      BY <2>1, IdleIs, GotoGoes DEF BackupInv
    <2>3. \A n \in Bak!Doomed' : n \in Bak!Doomed
      BY <2>2, IdleIs, DoomedIs
    <2>4. CASE UNCHANGED files
      <3>1. Directory' /\ DirectoryKeeps(FALSE, {})
        BY <2>3, <2>4, SameDirectory DEF BackupInv, BackupTyped, Directory
      <3> QED
        BY <2>1, <3>1, IdleIs, QuietStep
    <2>5. CASE name \in Bak!Listed /\ Bak!Contents(name) = Bak!Broken
      <3>1. PICK i \in DOMAIN files : files[i].name = name
        BY <2>5 DEF Bak!Listed
      <3>2. ~Holds(name) /\ (files[1].name = name /\ 1 \in DOMAIN files => files[1].contents = 0)
        BY <2>5, <3>1, ContentsOf DEF BackupInv, BackupTyped, Bak!Broken
      <3>3. /\ Directory'
            /\ \A n \in BackupNames : n # name /\ Holds(n) => Holds(n)'
            /\ files # <<>> /\ files[1].name # name => files' # <<>> /\ files'[1] = files[1]
        BY <2>1, <2>5, WithoutIs DEF BackupInv, BackupTyped
      <3>4. files # <<>> => 1 \in DOMAIN files
        BY DirectoryIs DEF BackupInv, BackupTyped
      <3>5. DirectoryKeeps(FALSE, {})
        BY <2>3, <3>2, <3>3, <3>4 DEF DirectoryKeeps, FirstIsSafe
      <3> QED
        BY <2>1, <3>3, <3>5, IdleIs, QuietStep
    <2>6. name \notin Bak!Listed => UNCHANGED files
      BY <2>1 DEF Bak!Without
    <2> QED
      BY <2>1, <2>4, <2>5, <2>6
  <1> QED
    BY <1>2, <1>3

LEMMA StepBackups ==
    ASSUME BackupInv, [Bak!Next]_bakVars
    PROVE  BackupInv'
  <1>1. ASSUME NEW name, Bak!RemoveByHand(name) PROVE BackupInv'
    <2>1. Directory' /\ UNCHANGED <<data, stamp>> /\ Bak!Moves(Bak!Nobody, Bak!Idle, data', TRUE, {})
      BY <1>1, WithoutIs DEF Bak!RemoveByHand, BackupInv, BackupTyped
    <2> QED
      BY <2>1, IdleIs, LoudStep DEF DirectoryKeeps, BackupInv, BackupTyped
  <1>2. CASE Bak!Change
    <2>1. /\ data' \in Nat \ {0} /\ stamp' \in Nat \ {0} /\ UNCHANGED files
          /\ Bak!Moves(Bak!Nobody, Bak!Idle, data', FALSE, {})
      <3>1. /\ stamp' = stamp + 1 /\ data' = stamp + 1 /\ UNCHANGED files
            /\ Bak!Moves(Bak!Nobody, Bak!Idle, data', FALSE, {})
        BY <1>2 DEF Bak!Change
      <3>2. stamp \in Nat \ {0}
        BY DEF BackupInv, BackupTyped
      <3>3. stamp + 1 \in Nat \ {0}
        BY <3>2
      <3> QED
        BY <3>1, <3>3
    <2>2. /\ Bak!Nobody \in Callers => dbWork'[Bak!Nobody] = Bak!Idle
          /\ \A v \in Callers \ {Bak!Nobody} : Goes(v, FALSE, {})
      BY <2>1, IdleIs, MovesGoes DEF BackupInv
    <2>3. \A n \in Bak!Doomed' : n \in Bak!Doomed
      BY <2>2, IdleIs, DoomedIs
    <2>4. Directory' /\ DirectoryKeeps(FALSE, {})
      BY <2>1, <2>3, SameDirectory DEF BackupInv, BackupTyped, Directory
    <2> QED
      BY <2>1, <2>4, IdleIs, LoudStep
  <1>3. CASE Bak!Restart
    <2>1. /\ \A v \in Callers : dbWork'[v] = Bak!Idle
          /\ dbWork' \in [Callers -> BackupTasks] /\ UNCHANGED <<data, stamp, files>>
      BY <1>3, IdleIs DEF Bak!Restart
    <2>2. \A v \in Callers : Sound(v)'
      BY <2>1, IdleIs, NotRestoring
    <2> QED
      BY <2>1, <2>2 DEF BackupInv, BackupTyped, Directory
  <1>4. CASE UNCHANGED bakVars
    <2>1. \A v \in Callers : Sound(v)'
      BY <1>4 DEF bakVars, BackupInv, Sound, Bak!Restoring, Holds, FirstIsSafe, Bak!Doomed, Bak!At,
         Bak!Nobody, Bak!Broken
    <2> QED
      BY <1>4, <2>1 DEF bakVars, BackupInv, BackupTyped, Directory
  <1> QED
    BY <1>1, <1>2, <1>3, <1>4, CopyKeeps, PruneKeeps, UnlinkKeeps, EntryKeeps, SwapKeeps, UploadKeeps
    DEF Bak!Next

(* A restore about to swap can be undone: its source is there and a backup *)
(* holds what it is about to replace, for any number of backups, restores, *)
(* prunes and uploads at once, and any keep limit; excused are the         *)
(* operator's own hand on the directory, a prune that takes the source,    *)
(* and a copy under a name that a prune had listed.                        *)
THEOREM RestoresReversible == ServerSpec => []RestoreIsReversible
  <1>1. ServerInit => BackupInv
    <2> SUFFICES ASSUME Bak!Init PROVE BackupInv
      BY DEF ServerInit
    <2>1. Directory /\ data \in Nat \ {0} /\ stamp \in Nat \ {0}
      <3>1. files = <<>> /\ data = 1 /\ stamp = 1
        BY DEF Bak!Init
      <3>2. files \in Seq(Entries) /\ DOMAIN files = {}
        BY <3>1, EmptySeq
      <3> QED
        BY <3>1, <3>2 DEF Directory, IsDirectory
    <2>2. dbWork \in [Callers -> BackupTasks] /\ \A v \in Callers : dbWork[v].pc = "idle"
      BY IdleIs DEF Bak!Init
    <2>3. \A v \in Callers : Sound(v)
      BY <2>2 DEF Sound, Bak!Restoring
    <2> QED
      BY <2>1, <2>2, <2>3 DEF BackupInv, BackupTyped
  <1>2. BackupInv => RestoreIsReversible
    <2> SUFFICES ASSUME BackupInv, NEW w \in Callers, Bak!At(w, "swap"), ~dbWork[w].shaken
                 PROVE  /\ ~dbWork[w].robbed => dbWork[w].source \in Bak!Listed
                        /\ \E i \in DOMAIN files : files[i].contents \in dbWork[w].since
      BY DEF RestoreIsReversible, Bak!RestoreIsReversible
    <2>1. Bak!Restoring(w) /\ dbWork[w].pc = "swap"
      BY TaskOf DEF BackupInv, Bak!Restoring, Bak!At, Marks
    <2>2. FirstIsSafe(dbWork[w].since) /\ (~dbWork[w].robbed => Holds(dbWork[w].source))
      BY <2>1 DEF BackupInv, Sound
    <2>3. files # <<>> => 1 \in DOMAIN files
      BY DirectoryIs DEF BackupInv, BackupTyped, Directory
    <2> QED
      BY <2>2, <2>3 DEF FirstIsSafe, Holds, HeldIn, Bak!Listed
  <1>3. BackupInv /\ [ServerNext]_allVars => BackupInv'
    BY PartsStep, StepBackups
  <1> QED
    BY <1>1, <1>2, <1>3, PTL DEF ServerSpec

-----------------------------------------------------------------------------
(* Calendar.                                                               *)

(* FirstDay is what it says, and the months follow each other.             *)
FromFirst(f, n) ==
    f = [m \in 1..n |-> IF m = 1 THEN 0 ELSE f[m - 1] + MonthLengths[m - 1]]

LEMMA FirstDays == FromFirst(Cal!FirstDay, Len(MonthLengths) + 1)
  <1> DEFINE S == {n \in Nat : \E f : FromFirst(f, n)}
             end == Len(MonthLengths) + 1
  <1>1. 0 \in S
    <2>1. FromFirst([m \in {} |-> 0], 0)
      <3>1. 1..0 = {}
        OBVIOUS
      <3> QED
        BY <3>1 DEF FromFirst
    <2> QED
      BY <2>1
  <1>2. ASSUME NEW n \in 0..(end - 1), n \in S PROVE n + 1 \in S
    <2>1. PICK g : FromFirst(g, n)
      BY <1>2
    <2> DEFINE f == [m \in 1..(n + 1) |->
                        IF m = 1 THEN 0 ELSE g[m - 1] + MonthLengths[m - 1]]
    <2>2. ASSUME NEW m \in 1..n PROVE g[m] = f[m]
      BY <2>1 DEF FromFirst
    <2>3. ASSUME NEW m \in 1..(n + 1), m # 1 PROVE f[m] = f[m - 1] + MonthLengths[m - 1]
      <3>1. m - 1 \in 1..n
        BY <2>3
      <3>2. g[m - 1] = f[m - 1]
        BY <2>2, <3>1
      <3> QED
        BY <2>3, <3>2
    <2>4. f[1] = 0
      OBVIOUS
    <2>5. f = [m \in 1..(n + 1) |-> f[m]]
      OBVIOUS
    <2> HIDE DEF f
    <2>6. FromFirst(f, n + 1)
      BY <2>3, <2>4, <2>5 DEF FromFirst
    <2> QED
      BY <2>6
  <1>3. end \in Nat /\ end \in 0..end
    BY CalendarAssumption
  <1> HIDE DEF S, end
  <1>4. end \in S
    BY <1>1, <1>2, <1>3, Upwards
  <1>5. \E f : FromFirst(f, end)
    BY <1>4 DEF S
  <1> QED
    BY <1>5 DEF FromFirst, end, Cal!FirstDay

LEMMA MonthsFollow ==
    /\ Len(MonthLengths) \in Nat /\ Cal!FirstDay[1] = 0
    /\ \A m \in 1..Len(MonthLengths) :
        /\ MonthLengths[m] \in 28..31
        /\ Cal!FirstDay[m + 1] = Cal!FirstDay[m] + MonthLengths[m]
    /\ \A m \in 1..(Len(MonthLengths) + 1) : Cal!FirstDay[m] \in Nat
  <1> DEFINE n == Len(MonthLengths)
             S == {m \in Int : Cal!FirstDay[m] \in Nat}
  <1>1. n \in Nat /\ \A m \in 1..n : MonthLengths[m] \in 28..31
    BY CalendarAssumption
  <1>2. Cal!FirstDay[1] = 0
    BY <1>1, FirstDays DEF FromFirst
  <1>3. ASSUME NEW m \in 1..n PROVE Cal!FirstDay[m + 1] = Cal!FirstDay[m] + MonthLengths[m]
    <2>1. m + 1 \in 1..(n + 1) /\ m + 1 # 1 /\ (m + 1) - 1 = m
      BY <1>1
    <2> HIDE DEF n
    <2> QED
      BY <2>1, FirstDays DEF FromFirst, n
  <1>4. 1..(n + 1) \subseteq S
    <2>1. 1 \in S /\ 1 \in Int /\ n + 1 \in Int
      BY <1>1, <1>2
    <2>2. ASSUME NEW m \in 1..((n + 1) - 1), m \in S PROVE m + 1 \in S
      <3>1. m \in 1..n
        BY <1>1
      <3>2. MonthLengths[m] \in Nat /\ Cal!FirstDay[m] \in Nat
        BY <1>1, <2>2, <3>1
      <3>3. Cal!FirstDay[m + 1] = Cal!FirstDay[m] + MonthLengths[m]
        BY <1>3, <3>1
      <3> QED
        BY <3>1, <3>2, <3>3
    <2> HIDE DEF S, n
    <2> QED
      BY <2>1, <2>2, Upwards
  <1> QED
    BY <1>1, <1>2, <1>3, <1>4

LEMMA AMonthMore ==
    ASSUME NEW m \in Int, NEW k \in Int, NEW from \in Nat, NEW to \in Nat, NEW length \in 28..31,
           to - from >= 28 * (k - m), to - from <= 31 * (k - m)
    PROVE  /\ (to + length) - from >= 28 * ((k + 1) - m)
           /\ (to + length) - from <= 31 * ((k + 1) - m)
  OBVIOUS

LEMMA MonthsApart ==
    ASSUME NEW m \in 1..(Len(MonthLengths) + 1), NEW n \in m..(Len(MonthLengths) + 1)
    PROVE  /\ Cal!FirstDay[m] \in Nat /\ Cal!FirstDay[n] \in Nat
           /\ Cal!FirstDay[n] - Cal!FirstDay[m] >= 28 * (n - m)
           /\ Cal!FirstDay[n] - Cal!FirstDay[m] <= 31 * (n - m)
  <1> DEFINE Apart28(k) == Cal!FirstDay[k] - Cal!FirstDay[m] >= 28 * (k - m)
             Apart31(k) == Cal!FirstDay[k] - Cal!FirstDay[m] <= 31 * (k - m)
             S == {k \in Int : Apart28(k) /\ Apart31(k)}
  <1>1. m \in S /\ m \in Int /\ n \in Int /\ n \in m..n
    BY MonthsFollow
  <1>2. ASSUME NEW k \in m..(n - 1), k \in S PROVE k + 1 \in S
    <2>1. k \in 1..Len(MonthLengths)
      BY MonthsFollow
    <2>2. /\ MonthLengths[k] \in 28..31 /\ Cal!FirstDay[k] \in Nat /\ Cal!FirstDay[m] \in Nat
          /\ Cal!FirstDay[k + 1] = Cal!FirstDay[k] + MonthLengths[k]
      BY <2>1, MonthsFollow
    <2>3. k \in Int /\ m \in Int /\ k + 1 \in Int
      BY <2>1
    <2>4. Apart28(k + 1) /\ Apart31(k + 1)
      <3>1. Apart28(k) /\ Apart31(k)
        BY <1>2
      <3> QED
        BY <2>2, <2>3, <3>1, AMonthMore
    <2> QED
      BY <2>3, <2>4
  <1> HIDE DEF S
  <1>3. n \in S
    BY <1>1, <1>2, Upwards
  <1> QED
    BY <1>1, <1>3, MonthsFollow DEF S

(* Every day of the calendar is in one month.                              *)
LEMMA MonthIs ==
    ASSUME NEW m \in 1..Len(MonthLengths), NEW day \in Int,
           Cal!FirstDay[m] <= day, day < Cal!FirstDay[m + 1]
    PROVE  Cal!MonthOf(day) = m
  <1>1. DOMAIN MonthLengths = 1..Len(MonthLengths) /\ Len(MonthLengths) \in Nat
    BY CalendarAssumption
  <1>2. ASSUME NEW k \in DOMAIN MonthLengths,
               Cal!FirstDay[k] <= day, day < Cal!FirstDay[k + 1]
        PROVE  k = m
    <2>1. CASE k < m
      <3>1. k + 1 \in 1..(Len(MonthLengths) + 1) /\ m \in (k + 1)..(Len(MonthLengths) + 1)
        BY <1>1, <2>1
      <3>2. /\ Cal!FirstDay[k + 1] \in Nat /\ Cal!FirstDay[m] \in Nat
            /\ Cal!FirstDay[m] - Cal!FirstDay[k + 1] >= 28 * (m - (k + 1))
        BY <3>1, MonthsApart
      <3> QED
        BY <1>2, <2>1, <3>1, <3>2
    <2>2. CASE m < k
      <3>1. m + 1 \in 1..(Len(MonthLengths) + 1) /\ k \in (m + 1)..(Len(MonthLengths) + 1)
        BY <1>1, <2>2
      <3>2. /\ Cal!FirstDay[m + 1] \in Nat /\ Cal!FirstDay[k] \in Nat
            /\ Cal!FirstDay[k] - Cal!FirstDay[m + 1] >= 28 * (k - (m + 1))
        BY <3>1, MonthsApart
      <3> QED
        BY <1>2, <2>2, <3>1, <3>2
    <2> QED
      BY <1>1, <2>1, <2>2
  <1> QED
    BY <1>1, <1>2 DEF Cal!MonthOf

LEMMA DayHasMonth ==
    ASSUME NEW day \in Nat, day < Cal!Days
    PROVE  /\ Cal!MonthOf(day) \in 1..Len(MonthLengths)
           /\ Cal!FirstDay[Cal!MonthOf(day)] <= day
           /\ day < Cal!FirstDay[Cal!MonthOf(day) + 1]
  <1> DEFINE n == Len(MonthLengths)
             In(m) == m \in 1..n /\ Cal!FirstDay[m] <= day /\ day < Cal!FirstDay[m + 1]
             S == {k \in Int : Cal!FirstDay[k] <= day \/ \E m \in 1..n : In(m)}
  <1>1. \E m \in 1..n : In(m)
    <2>1. 1 \in S /\ n + 1 \in Int /\ 1 \in Int
      BY MonthsFollow
    <2>2. ASSUME NEW k \in 1..((n + 1) - 1), k \in S PROVE k + 1 \in S
      <3>1. k \in 1..n /\ Cal!FirstDay[k + 1] \in Nat
        BY MonthsFollow
      <3> QED
        BY <2>2, <3>1
    <2>3. n + 1 \in 1..(n + 1)
      BY MonthsFollow
    <2>4. n + 1 \in S
      <3> HIDE DEF S, n
      <3> QED
        BY <2>1, <2>2, <2>3, Upwards
    <2> QED
      BY <2>3, <2>4, MonthsFollow DEF Cal!Days
  <1> QED
    BY <1>1, MonthIs

(* A moment is a minute of a day.                                          *)
LEMMA DayAndMinute ==
    ASSUME NEW time \in Int
    PROVE  /\ Cal!DayOf(time) \in Int /\ Cal!At(time) \in 0..(Day - 1)
           /\ time = Cal!Midnight(time) + Cal!At(time)
  BY CalendarAssumption DEF Cal!DayOf, Cal!At, Cal!Midnight

LEMMA MomentOf ==
    ASSUME NEW q \in Int, NEW r \in 0..(Day - 1)
    PROVE  /\ q * Day + r \in Int
           /\ Cal!DayOf(q * Day + r) = q /\ Cal!At(q * Day + r) = r
           /\ Cal!Midnight(q * Day + r) = q * Day
  <1>1. /\ q * Day + r \in Int /\ (q * Day + r) \div Day = q /\ (q * Day + r) % Day = r
    BY CalendarAssumption
  <1> QED
    BY <1>1 DEF Cal!DayOf, Cal!At, Cal!Midnight

LEMMA LaterDay ==
    ASSUME NEW q \in Int, NEW p \in Int, q < p, NEW r \in 0..(Day - 1), NEW s \in 0..(Day - 1)
    PROVE  q * Day + r < p * Day + s
  <1>1. q * Day + Day <= p * Day
    BY CalendarAssumption
  <1> QED
    BY <1>1, CalendarAssumption

LEMMA DaysInOrder ==
    ASSUME NEW a \in Int, NEW b \in Int, a <= b
    PROVE  Cal!DayOf(a) <= Cal!DayOf(b)
  <1>1. /\ Cal!DayOf(a) \in Int /\ Cal!DayOf(b) \in Int
        /\ Cal!At(a) \in 0..(Day - 1) /\ Cal!At(b) \in 0..(Day - 1)
        /\ a = Cal!DayOf(a) * Day + Cal!At(a) /\ b = Cal!DayOf(b) * Day + Cal!At(b)
    BY DayAndMinute DEF Cal!Midnight
  <1>2. CASE Cal!DayOf(b) < Cal!DayOf(a)
    <2>1. b < a
      BY <1>1, <1>2, LaterDay
    <2> QED
      BY <2>1
  <1> QED
    BY <1>1, <1>2

(* The loop of step_days and step_weeks: whole steps, and past the moment. *)
WholeSteps(first, q, r, n, from) ==
    \E k \in Nat : /\ Cal!DayOf(first) = q + n * k
                   /\ Cal!DayOf(from) = q /\ q * Day + r <= from => k = 1

LEMMA FirstAfterIs ==
    ASSUME NEW from \in Int, NEW q \in Int, NEW r \in 0..(Day - 1), NEW n \in Nat \ {0},
           NEW first, first = Cal!FirstAfter(q * Day + r, n * Day, from)
    PROVE  /\ first \in Int /\ Cal!At(first) = r /\ from < first
           /\ WholeSteps(first, q, r, n, from)
  <1> PICK candidate \in Int : candidate = q * Day + r
    BY CalendarAssumption
  <1> PICK step \in Nat \ {0} : step = n * Day
    BY CalendarAssumption
  <1>1. step >= Day /\ Day \in Nat \ {0}
    BY CalendarAssumption
  <1>2. CASE candidate > from
    <2>1. first = candidate
      BY <1>2 DEF Cal!FirstAfter
    <2>2. Cal!DayOf(first) = q /\ Cal!At(first) = r
      BY <2>1, MomentOf, Zenon
    <2>3. Cal!DayOf(first) = q + n * 0
      BY <2>2
    <2>4. WholeSteps(first, q, r, n, from)
      <3>1. ~(q * Day + r <= from)
        BY <1>2
      <3> QED
        BY <2>3, <3>1 DEF WholeSteps
    <2> QED
      BY <1>2, <2>1, <2>2, <2>4
  <1>3. CASE ~(candidate > from)
    <2> PICK late \in Nat : late = from - candidate
      BY <1>3
    <2> PICK k \in Nat : k = late \div step + 1
      OBVIOUS
    <2>1. from = candidate + late
      OBVIOUS
    <2>2. late < step * k
      OBVIOUS
    <2>3. first = candidate + step * k
      BY <1>3 DEF Cal!FirstAfter
    <2> PICK day \in Int : day = q + n * k
      OBVIOUS
    <2>4. first = day * Day + r
      BY <1>1, <2>3
    <2>5. Cal!DayOf(first) = day /\ Cal!At(first) = r /\ first \in Int
      <3>1. /\ day * Day + r \in Int
            /\ Cal!DayOf(day * Day + r) = day /\ Cal!At(day * Day + r) = r
        BY MomentOf
      <3> QED
        BY <2>4, <3>1
    <2>6. ASSUME Cal!DayOf(from) = q PROVE k = 1
      <3> PICK s \in 0..(Day - 1) : s = Cal!At(from)
        BY DayAndMinute
      <3>1. from = q * Day + s
        BY <2>6, DayAndMinute DEF Cal!Midnight
      <3>2. late < step
        BY <1>1, <2>1, <3>1
      <3>3. late \div step = 0
        BY <3>2
      <3> QED
        BY <3>3
    <2>7. from < first
      BY <2>1, <2>2, <2>3
    <2> QED
      BY <2>5, <2>6, <2>7 DEF WholeSteps
  <1> QED
    BY <1>2, <1>3

(* The two parts of RunsKeepTheirStep, of a timer t: the place of a run on *)
(* the calendar, and the step from a run to the next.                      *)
Placed(t, time) ==
    /\ t.unit \in {"day", "week", "month"} => Cal!At(time) = t.at
    /\ t.unit = "week" => Cal!Weekday(Cal!DayOf(time)) = t.weekday
    /\ t.unit = "month" =>
        Cal!DayOf(time) - Cal!FirstDay[Cal!DueMonth(time)] + 1
            = Cal!Lesser(t.day, MonthLengths[Cal!DueMonth(time)])

Stepped(t, prev, from, next) ==
    Cal!DayOf(from) = Cal!DayOf(prev) =>
        CASE t.unit = "day" -> Cal!DayOf(next) - Cal!DayOf(prev) = t.count
          [] t.unit = "week" -> Cal!DayOf(next) - Cal!DayOf(prev) = 7 * t.count
          [] t.unit = "month" -> Cal!DueMonth(next) - Cal!DueMonth(prev) = t.count
          [] OTHER -> next - from >= MinGap

Right(t, from, next) ==
    /\ next \in Nat /\ from < next /\ Placed(t, next)
    /\ \A prev \in Nat : prev <= from /\ Placed(t, prev) => Stepped(t, prev, from, next)

LEMMA ValidIs ==
    ASSUME NEW t \in Offered, Cal!Valid(t)
    PROVE  /\ t.count \in Nat \ {0} /\ t.at \in 0..(Day - 1)
           /\ t.weekday \in 0..6 /\ t.day \in 1..31
  BY CalendarAssumption DEF Cal!Valid

LEMMA ShortTimers ==
    ASSUME NEW t \in Offered, Cal!Valid(t), NEW from \in Nat, t.unit \in {"minute", "hour"}
    PROVE  Right(t, from, Cal!NextRun(t, from))
  <1> PICK gap : gap = t.count * Cal!Length(t.unit)
    OBVIOUS
  <1>1. Cal!NextRun(t, from) = from + gap
    BY DEF Cal!NextRun
  <1>2. Cal!Length(t.unit) \in Nat \ {0}
    BY CalendarAssumption DEF Cal!Length
  <1>3. gap \in Nat \ {0} /\ gap >= MinGap
    BY <1>2, ValidIs DEF Cal!Valid
  <1> PICK next : next = Cal!NextRun(t, from)
    OBVIOUS
  <1>4. next \in Nat /\ from < next /\ next - from >= MinGap
    BY <1>1, <1>3, CalendarAssumption
  <1>5. t.unit # "day" /\ t.unit # "week" /\ t.unit # "month"
    OBVIOUS
  <1>6. Placed(t, next)
    BY <1>5 DEF Placed
  <1>7. \A prev : Stepped(t, prev, from, next)
    BY <1>4, <1>5 DEF Stepped
  <1> QED
    BY <1>4, <1>6, <1>7 DEF Right

LEMMA DailyTimers ==
    ASSUME NEW t \in Offered, Cal!Valid(t), NEW from \in Nat, t.unit = "day"
    PROVE  Right(t, from, Cal!NextRun(t, from))
  <1>a. PICK next : next = Cal!NextRun(t, from)
    OBVIOUS
  <1>b. PICK q \in Int : q = Cal!DayOf(from)
    BY DayAndMinute
  <1>c. PICK n \in Nat \ {0} : n = t.count
    BY ValidIs
  <1>d. PICK at \in 0..(Day - 1) : at = t.at
    BY ValidIs
  <1>1. next = Cal!FirstAfter(q * Day + at, n * Day, from)
    BY <1>a, <1>b, <1>c, <1>d DEF Cal!NextRun, Cal!StepDays, Cal!Midnight
  <1>0. from \in Int /\ q \in Int /\ at \in 0..(Day - 1) /\ n \in Nat \ {0}
    BY <1>b, <1>c, <1>d
  <1>2. next \in Int /\ Cal!At(next) = at /\ from < next
    BY <1>0, <1>1, FirstAfterIs
  <1>x. WholeSteps(next, q, at, n, from)
    BY <1>0, <1>1, FirstAfterIs
  <1>3. PICK k \in Nat : /\ Cal!DayOf(next) = q + n * k
                         /\ Cal!DayOf(from) = q /\ q * Day + at <= from => k = 1
    BY <1>x DEF WholeSteps
  <1>5. ASSUME NEW prev \in Nat, prev <= from, Placed(t, prev), Cal!DayOf(from) = Cal!DayOf(prev)
        PROVE  Cal!DayOf(next) - Cal!DayOf(prev) = t.count
    <2>1. prev = q * Day + at
      BY <1>5, <1>b, <1>d, DayAndMinute DEF Placed, Cal!Midnight
    <2>2. k = 1
      BY <1>3, <1>5, <1>b, <2>1
    <2>3. Cal!DayOf(next) = q + n /\ Cal!DayOf(prev) = q
      BY <1>3, <1>5, <1>b, <2>2
    <2> QED
      BY <1>c, <2>3
  <1>6. Placed(t, next)
    BY <1>2, <1>d DEF Placed
  <1>7. next \in Nat
    BY <1>2
  <1>8. ASSUME NEW prev \in Nat, prev <= from, Placed(t, prev) PROVE Stepped(t, prev, from, next)
    BY <1>5, <1>8 DEF Stepped
  <1> QED
    BY <1>2, <1>6, <1>7, <1>8, <1>a DEF Right

LEMMA WeeklyTimers ==
    ASSUME NEW t \in Offered, Cal!Valid(t), NEW from \in Nat, t.unit = "week"
    PROVE  Right(t, from, Cal!NextRun(t, from))
  <1>a. PICK next : next = Cal!NextRun(t, from)
    OBVIOUS
  <1>b. PICK every \in Nat \ {0} : every = t.count
    BY ValidIs
  <1>c. PICK at \in 0..(Day - 1) : at = t.at
    BY ValidIs
  <1>d. PICK weekday \in 0..6 : weekday = t.weekday
    BY ValidIs
  <1>e. PICK d \in Int : d = Cal!DayOf(from)
    BY DayAndMinute
  <1>f. PICK ahead \in 0..6 : ahead = (weekday - (d % 7)) % 7
    OBVIOUS
  <1>g. PICK q \in Int : q = d + ahead
    OBVIOUS
  <1>h. PICK n \in Nat \ {0} : n = every * 7
    OBVIOUS
  <1>1. q % 7 = weekday
    <2>1. (d + ((weekday - (d % 7)) % 7)) % 7 = weekday
      OBVIOUS
    <2> QED
      BY <1>f, <1>g, <2>1
  <1>2. next = Cal!FirstAfter(q * Day + at, n * Day, from)
    <2>1. d * Day + ahead * Day = q * Day
      BY <1>g, CalendarAssumption
    <2>2. next = Cal!StepWeeks(t, from)
      BY <1>a DEF Cal!NextRun
    <2>3. next = Cal!FirstAfter((d * Day + ahead * Day) + at, (every * 7) * Day, from)
      BY <1>b, <1>c, <1>d, <1>e, <1>f, <2>2 DEF Cal!StepWeeks, Cal!Weekday, Cal!Midnight
    <2> QED
      BY <1>h, <2>1, <2>3
  <1>0. from \in Int /\ q \in Int /\ at \in 0..(Day - 1) /\ n \in Nat \ {0}
    BY <1>c, <1>g, <1>h
  <1>3. next \in Int /\ Cal!At(next) = at /\ from < next
    BY <1>0, <1>2, FirstAfterIs
  <1>x. WholeSteps(next, q, at, n, from)
    BY <1>0, <1>2, FirstAfterIs
  <1>4. PICK k \in Nat : /\ Cal!DayOf(next) = q + n * k
                         /\ Cal!DayOf(from) = q /\ q * Day + at <= from => k = 1
    BY <1>x DEF WholeSteps
  <1>i. PICK weeks \in Nat : weeks = every * k
    OBVIOUS
  <1>5. n * k = 7 * weeks
    BY <1>h, <1>i
  <1>6. Cal!DayOf(next) = q + 7 * weeks
    BY <1>4, <1>5
  <1>7. Cal!Weekday(Cal!DayOf(next)) = weekday
    <2>1. (q + 7 * weeks) % 7 = weekday
      BY <1>1
    <2> QED
      BY <1>6, <2>1 DEF Cal!Weekday
  <1>8. ASSUME NEW prev \in Nat, prev <= from, Placed(t, prev), Cal!DayOf(from) = Cal!DayOf(prev)
        PROVE  Cal!DayOf(next) - Cal!DayOf(prev) = 7 * t.count
    <2>1. Cal!DayOf(prev) = d /\ Cal!At(prev) = at /\ d % 7 = weekday
      BY <1>8, <1>c, <1>d, <1>e DEF Placed, Cal!Weekday
    <2>2. q = d
      BY <1>f, <1>g, <2>1
    <2>3. prev = q * Day + at
      BY <2>1, <2>2, DayAndMinute DEF Cal!Midnight
    <2>4. k = 1
      BY <1>4, <1>8, <1>e, <2>2, <2>3
    <2>5. weeks = every
      BY <1>i, <2>4
    <2>6. Cal!DayOf(next) - Cal!DayOf(prev) = 7 * every
      BY <1>6, <2>1, <2>2, <2>5
    <2> QED
      BY <1>b, <2>6
  <1>9. Placed(t, next)
    BY <1>3, <1>7, <1>c, <1>d DEF Placed
  <1>10. next \in Nat
    BY <1>3
  <1>11. ASSUME NEW prev \in Nat, prev <= from, Placed(t, prev) PROVE Stepped(t, prev, from, next)
    BY <1>8, <1>11 DEF Stepped
  <1> QED
    BY <1>3, <1>9, <1>10, <1>11, <1>a DEF Right

(* on_day: a day of its month, the one asked for or the last.              *)
LEMMA OnDayIs ==
    ASSUME NEW m \in 1..Len(MonthLengths), NEW day \in 1..31
    PROVE  /\ Cal!OnDay(m, day) \in Nat
           /\ Cal!FirstDay[m] <= Cal!OnDay(m, day)
           /\ Cal!OnDay(m, day) < Cal!FirstDay[m + 1]
           /\ Cal!MonthOf(Cal!OnDay(m, day)) = m
           /\ Cal!OnDay(m, day) - Cal!FirstDay[m] + 1 = Cal!Lesser(day, MonthLengths[m])
  <1>1. PICK first \in Nat : first = Cal!FirstDay[m]
    BY MonthsFollow
  <1>2. PICK length \in 28..31 : length = MonthLengths[m] /\ Cal!FirstDay[m + 1] = first + length
    BY <1>1, MonthsFollow
  <1>3. PICK on : on = Cal!OnDay(m, day)
    OBVIOUS
  <1>4. /\ Cal!Lesser(day, length) \in Nat
        /\ 1 <= Cal!Lesser(day, length) /\ Cal!Lesser(day, length) <= length
    <2>1. CASE day < length
      <3>1. Cal!Lesser(day, length) = day
        BY <2>1 DEF Cal!Lesser
      <3>2. day \in Nat /\ 1 <= day /\ day <= length
        BY <1>2, <2>1
      <3> QED
        BY <3>1, <3>2
    <2>2. CASE ~(day < length)
      <3>1. Cal!Lesser(day, length) = length
        BY <2>2 DEF Cal!Lesser
      <3>2. length \in Nat /\ 1 <= length /\ length <= length
        BY <1>2
      <3> QED
        BY <3>1, <3>2
    <2> QED
      BY <2>1, <2>2
  <1>5. PICK lesser : lesser \in Nat /\ 1 <= lesser /\ lesser <= length
                     /\ lesser = Cal!Lesser(day, length)
    BY <1>4
  <1>6. on = first + lesser - 1
    BY <1>1, <1>2, <1>3, <1>5 DEF Cal!OnDay
  <1>7. first \in Nat /\ length \in Nat /\ lesser \in Nat /\ 1 <= lesser /\ lesser <= length
    <2>1. first \in Nat
      BY <1>1
    <2>2. length \in Nat
      BY <1>2
    <2> QED
      BY <1>5, <2>1, <2>2
  <1>8. on \in Nat /\ first <= on /\ on < first + length /\ on - first + 1 = lesser
    BY <1>6, <1>7
  <1>9. Cal!MonthOf(on) = m
    BY <1>1, <1>2, <1>8, MonthIs
  <1> QED
    BY <1>1, <1>2, <1>3, <1>5, <1>8, <1>9

LEMMA MonthsAhead ==
    ASSUME NEW d \in Nat, d < Cal!Days - 403, NEW c \in 1..13,
           NEW m, m = Cal!MonthOf(d)
    PROVE  /\ m \in 1..Len(MonthLengths) /\ m + c \in 1..Len(MonthLengths)
           /\ d < Cal!FirstDay[m + c]
  <1>0. Len(MonthLengths) \in Nat
    BY MonthsFollow
  <1>1. PICK n \in Nat : n = Len(MonthLengths)
    BY <1>0
  <1>2. Cal!Days = Cal!FirstDay[n + 1] /\ Cal!Days \in Nat
    BY <1>1, MonthsFollow DEF Cal!Days
  <1>3. m \in 1..n /\ Cal!FirstDay[m] <= d /\ d < Cal!FirstDay[m + 1]
    <2>1. d < Cal!Days
      BY <1>2
    <2> QED
      BY <1>1, <2>1, DayHasMonth
  <1>4. m \in 1..(n + 1) /\ n + 1 \in m..(n + 1)
    BY <1>3
  <1>5. /\ Cal!FirstDay[m] \in Nat
        /\ Cal!FirstDay[n + 1] - Cal!FirstDay[m] <= 31 * ((n + 1) - m)
    BY <1>1, <1>4, MonthsApart
  <1>6. 403 < 31 * ((n + 1) - m)
    BY <1>2, <1>3, <1>5
  <1>7. m + 13 <= n
    BY <1>3, <1>6
  <1>8. m + c \in 1..n /\ m + 1 \in 1..(n + 1) /\ m + c \in (m + 1)..(n + 1)
    BY <1>3, <1>7
  <1>9. /\ Cal!FirstDay[m + 1] \in Nat /\ Cal!FirstDay[m + c] \in Nat
        /\ Cal!FirstDay[m + c] - Cal!FirstDay[m + 1] >= 28 * ((m + c) - (m + 1))
    BY <1>1, <1>8, MonthsApart
  <1>10. Cal!FirstDay[m + 1] <= Cal!FirstDay[m + c]
    BY <1>3, <1>9
  <1>11. d < Cal!FirstDay[m + c]
    BY <1>3, <1>9, <1>10
  <1> QED
    BY <1>1, <1>3, <1>8, <1>11

(* validate bounds the months of a timer by the year.                      *)
LEMMA MonthsOfAYear ==
    ASSUME NEW c \in Nat, NEW n \in Nat \ {0}, c * (28 * n) <= 366 * n
    PROVE  c <= 13
  <1>1. SUFFICES ASSUME c >= 14 PROVE FALSE
    OBVIOUS
  <1>2. PICK more \in Nat : c = 14 + more
    <2>1. c - 14 \in Nat /\ c = 14 + (c - 14)
      BY <1>1
    <2> QED
      BY <2>1
  <1>3. more * (28 * n) \in Nat
    OBVIOUS
  <1>4. c * (28 * n) = 14 * (28 * n) + more * (28 * n)
    BY <1>2
  <1>5. 14 * (28 * n) = 392 * n
    OBVIOUS
  <1> QED
    BY <1>3, <1>4, <1>5

(* The moment of a month a timer runs at.                                  *)
IsMoment(time, m, day, at) ==
    /\ time \in Nat /\ Cal!At(time) = at
    /\ Cal!DayOf(time) = Cal!OnDay(m, day) /\ Cal!DueMonth(time) = m
    /\ Cal!DayOf(time) - Cal!FirstDay[m] + 1 = Cal!Lesser(day, MonthLengths[m])
    /\ \A from \in Int : Cal!DayOf(from) < Cal!FirstDay[m] => from < time

LEMMA MonthlyMoment ==
    ASSUME NEW m \in 1..Len(MonthLengths), NEW day \in 1..31, NEW at \in 0..(Day - 1),
           NEW time, time = Cal!OnDay(m, day) * Day + at
    PROVE  IsMoment(time, m, day, at)
  <1>1. PICK q \in Nat : /\ q = Cal!OnDay(m, day) /\ Cal!FirstDay[m] <= q /\ Cal!MonthOf(q) = m
                        /\ q - Cal!FirstDay[m] + 1 = Cal!Lesser(day, MonthLengths[m])
    BY OnDayIs
  <1>2. q \in Int /\ time = q * Day + at
    BY <1>1
  <1>3. time \in Int /\ Cal!DayOf(time) = q /\ Cal!At(time) = at
    BY <1>2, MomentOf
  <1>4. time \in Nat
    <2>1. q * Day \in Nat
      BY <1>1, CalendarAssumption
    <2> QED
      BY <1>2, <2>1
  <1>5. Cal!DueMonth(time) = m
    BY <1>1, <1>3 DEF Cal!DueMonth
  <1>6. ASSUME NEW from \in Int, Cal!DayOf(from) < Cal!FirstDay[m] PROVE from < time
    <2>1. Cal!DayOf(from) \in Int /\ Cal!At(from) \in 0..(Day - 1)
          /\ from = Cal!DayOf(from) * Day + Cal!At(from)
      BY DayAndMinute DEF Cal!Midnight
    <2>2. Cal!DayOf(from) < q
      <3>1. Cal!FirstDay[m] \in Nat
        BY MonthsFollow
      <3> QED
        BY <1>1, <1>6, <2>1, <3>1
    <2>3. Cal!DayOf(from) * Day + Cal!At(from) < q * Day + at
      BY <1>2, <2>1, <2>2, LaterDay
    <2> QED
      BY <1>2, <2>1, <2>3
  <1> QED
    BY <1>1, <1>3, <1>4, <1>5, <1>6 DEF IsMoment

LEMMA MonthlyTimers ==
    ASSUME NEW t \in Offered, Cal!Valid(t), NEW from \in Nat, t.unit = "month",
           Cal!DayOf(from) < Cal!Days - 403
    PROVE  Right(t, from, Cal!NextRun(t, from))
  <1>a. PICK next : next = Cal!NextRun(t, from)
    OBVIOUS
  <1>b. PICK d \in Nat : d = Cal!DayOf(from)
    <2>1. Cal!DayOf(0) = 0
      BY CalendarAssumption DEF Cal!DayOf
    <2>2. Cal!DayOf(from) \in Int /\ Cal!DayOf(0) <= Cal!DayOf(from)
      BY DayAndMinute, DaysInOrder
    <2> QED
      BY <2>1, <2>2
  <1>c. PICK c \in 1..13 : c = t.count
    <2>1. t.count \in Nat \ {0} /\ t.count * (28 * Day) <= 366 * Day
      BY ValidIs DEF Cal!Valid, Cal!Length
    <2>2. t.count <= 13
      BY <2>1, CalendarAssumption, MonthsOfAYear
    <2> QED
      BY <2>1, <2>2
  <1>d. PICK at \in 0..(Day - 1) : at = t.at
    BY ValidIs
  <1>e. PICK day \in 1..31 : day = t.day
    BY ValidIs
  <1>f. PICK m : m = Cal!MonthOf(d)
    OBVIOUS
  <1>1. /\ m \in 1..Len(MonthLengths) /\ m + c \in 1..Len(MonthLengths)
        /\ Cal!DayOf(from) < Cal!FirstDay[m + c]
    <2>1. d \in Nat /\ d < Cal!Days - 403 /\ c \in 1..13
      BY <1>b, <1>c
    <2> QED
      BY <1>b, <1>f, <2>1, MonthsAhead
  <1>g. PICK candidate : candidate = Cal!OnDay(m, day) * Day + at
    OBVIOUS
  <1>h. PICK later : later = Cal!OnDay(m + c, day) * Day + at
    OBVIOUS
  <1>2. next = IF candidate > from THEN candidate ELSE later
    <2>1. m + 0 * c = m /\ m + 1 * c = m + c
      BY <1>1
    <2>2. next = Cal!StepMonths(t, from)
      BY <1>a DEF Cal!NextRun
    <2> QED
      BY <1>b, <1>c, <1>d, <1>e, <1>f, <1>g, <1>h, <2>1, <2>2 DEF Cal!StepMonths
  <1>3. /\ candidate \in Nat /\ Cal!At(candidate) = at
        /\ Cal!DayOf(candidate) = Cal!OnDay(m, day) /\ Cal!DueMonth(candidate) = m
        /\ Cal!DayOf(candidate) - Cal!FirstDay[m] + 1 = Cal!Lesser(day, MonthLengths[m])
    <2>1. IsMoment(candidate, m, day, at)
      BY <1>1, <1>d, <1>e, <1>g, MonthlyMoment
    <2> QED
      BY <2>1 DEF IsMoment
  <1>4. /\ later \in Nat /\ Cal!At(later) = at /\ Cal!DueMonth(later) = m + c
        /\ Cal!DayOf(later) - Cal!FirstDay[m + c] + 1 = Cal!Lesser(day, MonthLengths[m + c])
        /\ from < later
    <2>1. from \in Int
      OBVIOUS
    <2>2. IsMoment(later, m + c, day, at)
      BY <1>1, <1>d, <1>e, <1>h, MonthlyMoment
    <2> QED
      BY <1>1, <2>1, <2>2 DEF IsMoment
  <1>5. next \in Nat /\ from < next
    BY <1>2, <1>3, <1>4
  <1>6. Placed(t, next)
    BY <1>2, <1>3, <1>4, <1>d, <1>e DEF Placed
  <1>7. ASSUME NEW prev \in Nat, prev <= from, Placed(t, prev), Cal!DayOf(from) = Cal!DayOf(prev)
        PROVE  Cal!DueMonth(next) - Cal!DueMonth(prev) = t.count
    <2>1. Cal!DueMonth(prev) = m
      BY <1>7, <1>b, <1>f DEF Cal!DueMonth
    <2>2. Cal!At(prev) = at
      BY <1>7, <1>d DEF Placed
    <2>3. Cal!DayOf(prev) - Cal!FirstDay[m] + 1 = Cal!Lesser(day, MonthLengths[m])
      BY <1>7, <1>e, <2>1 DEF Placed
    <2>4. Cal!DayOf(prev) = Cal!OnDay(m, day)
      <3>1. Cal!DayOf(prev) \in Int /\ Cal!DayOf(candidate) \in Int /\ Cal!FirstDay[m] \in Nat
        <4>1. m \in 1..(Len(MonthLengths) + 1) /\ prev \in Int /\ candidate \in Int
          BY <1>1, <1>3, MonthsFollow
        <4> QED
          BY <4>1, DayAndMinute, MonthsFollow
      <3> QED
        BY <1>3, <2>3, <3>1
    <2>5. prev = candidate
      BY <1>g, <2>2, <2>4, DayAndMinute DEF Cal!Midnight
    <2>6. next = later
      BY <1>2, <1>3, <1>7, <2>5
    <2>7. Cal!DueMonth(next) - Cal!DueMonth(prev) = c
      BY <1>1, <1>4, <2>1, <2>6
    <2> QED
      BY <1>c, <2>7
  <1>8. ASSUME NEW prev \in Nat, prev <= from, Placed(t, prev) PROVE Stepped(t, prev, from, next)
    BY <1>7, <1>8 DEF Stepped
  <1> QED
    BY <1>5, <1>6, <1>8, <1>a DEF Right

LEMMA NextRunIsRight ==
    ASSUME NEW t \in Offered, Cal!Valid(t), NEW from \in Nat,
           Cal!DayOf(from) < Cal!Days - 403
    PROVE  Right(t, from, Cal!NextRun(t, from))
  <1>1. t.unit \in {"minute", "hour", "day", "week", "month"}
    BY CalendarAssumption
  <1> QED
    BY <1>1, ShortTimers, DailyTimers, WeeklyTimers, MonthlyTimers

(* Cal!RunsKeepTheirStep, and the timer one the validation let through.    *)
CalInv ==
    /\ timer \in Offered /\ Cal!Valid(timer)
    /\ due \in Nat /\ Placed(timer, due)
    /\ last # Cal!Never =>
        /\ last.due \in Nat /\ last.ended \in Nat /\ due > last.ended
        /\ Stepped(timer, last.due, last.ended, due)

LEMMA InitCalendar ==
    ASSUME Cal!Init PROVE CalInv
  <1>1. timer \in Offered /\ Cal!Valid(timer) /\ last = Cal!Never
    BY DEF Cal!Init
  <1>2. PICK saved \in 0..(7 * Day) : due = Cal!NextRun(timer, saved)
    BY DEF Cal!Init
  <1>3. saved \in Nat /\ saved <= 7 * Day
    BY <1>2, CalendarAssumption
  <1>4. Cal!DayOf(saved) < Cal!Days - 403
    <2>1. 7 * Day + 0 \in Int /\ Cal!DayOf(7 * Day + 0) = 7
      <3>1. 7 \in Int /\ 0 \in 0..(Day - 1)
        BY CalendarAssumption
      <3> QED
        BY <3>1, MomentOf
    <2>2. saved <= 7 * Day + 0
      BY <1>3, CalendarAssumption
    <2>3. Cal!DayOf(saved) \in Int /\ Cal!DayOf(saved) <= 7
      BY <1>3, <2>1, <2>2, DayAndMinute, DaysInOrder
    <2>4. PICK n \in Nat : n = Len(MonthLengths) /\ n > 14
      BY CalendarAssumption
    <2>5. 1 \in 1..(n + 1) /\ n + 1 \in 1..(n + 1)
      BY <2>4
    <2>6. /\ Cal!FirstDay[n + 1] \in Nat /\ Cal!FirstDay[1] = 0
          /\ Cal!FirstDay[n + 1] - Cal!FirstDay[1] >= 28 * ((n + 1) - 1)
      BY <2>4, <2>5, MonthsApart, MonthsFollow
    <2>7. Cal!Days \in Nat /\ Cal!Days >= 420
      BY <2>4, <2>6 DEF Cal!Days
    <2> QED
      BY <2>3, <2>7
  <1>5. Right(timer, saved, due)
    BY <1>1, <1>2, <1>3, <1>4, NextRunIsRight
  <1>6. due \in Nat /\ Placed(timer, due)
    BY <1>5 DEF Right
  <1> QED
    BY <1>1, <1>6 DEF CalInv

(* A run ends no sooner than it is due, and before the calendar does.      *)
LEMMA StepCalendar ==
    ASSUME CalInv, [Cal!Next]_calVars PROVE CalInv'
  <1>1. CASE UNCHANGED calVars
    BY <1>1 DEF CalInv, calVars, Placed, Stepped
  <1>2. CASE Cal!Next
    <2>1. PICK delay \in Delays : /\ due + delay < (Cal!Days - 403) * Day
                                  /\ last' = [due |-> due, ended |-> due + delay]
                                  /\ due' = Cal!NextRun(timer, due + delay)
                                  /\ timer' = timer
      BY <1>2 DEF Cal!Next, Cal!Run
    <2>2. due \in Nat /\ delay \in Nat /\ timer \in Offered /\ Cal!Valid(timer)
          /\ Placed(timer, due)
      BY <2>1, CalendarAssumption DEF CalInv
    <2>3. PICK now \in Nat : now = due + delay /\ due <= now
      BY <2>2
    <2>4. Cal!Days \in Nat
      BY MonthsFollow DEF Cal!Days
    <2>5. Cal!DayOf(now) < Cal!Days - 403
      <3> PICK b \in Int : b = Cal!Days - 403
        BY <2>4
      <3>1. Cal!DayOf(now) \in Int /\ Cal!At(now) \in 0..(Day - 1)
            /\ now = Cal!DayOf(now) * Day + Cal!At(now)
        BY <2>3, DayAndMinute DEF Cal!Midnight
      <3>2. CASE b <= Cal!DayOf(now)
        <4>1. now < b * Day
          BY <2>1, <2>3
        <4>2. b * Day <= Cal!DayOf(now) * Day
          BY <3>1, <3>2, CalendarAssumption
        <4> QED
          BY <3>1, <4>1, <4>2, CalendarAssumption
      <3> QED
        BY <3>1, <3>2
    <2>6. Right(timer, now, due')
      BY <2>1, <2>2, <2>3, <2>5, NextRunIsRight
    <2>7. due' \in Nat /\ now < due' /\ Placed(timer, due') /\ Stepped(timer, due, now, due')
      BY <2>2, <2>3, <2>6 DEF Right
    <2>8. last'.due = due /\ last'.ended = now
      BY <2>1, <2>3
    <2>9. Placed(timer', due') /\ Stepped(timer', last'.due, last'.ended, due')
      BY <2>1, <2>7, <2>8
    <2>10. (Placed(timer, due))' /\ (Stepped(timer, last.due, last.ended, due))'
      BY <2>9 DEF Placed, Stepped
    <2>11. timer' \in Offered /\ (Cal!Valid(timer))'
      BY <2>1, <2>2 DEF Cal!Valid
    <2>12. last'.due \in Nat /\ last'.ended \in Nat /\ due' > last'.ended
      BY <2>2, <2>3, <2>7, <2>8
    <2> QED
      BY <2>7, <2>10, <2>11, <2>12 DEF CalInv
  <1> QED
    BY <1>1, <1>2

LEMMA CalInvIsRuns ==
    ASSUME CalInv PROVE RunsKeepTheirStep
  <1>1. Cal!OnItsPlace
    BY DEF CalInv, Placed, Cal!OnItsPlace
  <1>2. ASSUME last # Cal!Never PROVE due > last.ended /\ Cal!OnItsStep
    BY <1>2 DEF CalInv, Stepped, Cal!OnItsStep
  <1> QED
    BY <1>1, <1>2 DEF RunsKeepTheirStep, Cal!RunsKeepTheirStep

(* next_run: at its place on the calendar and after the run it follows,    *)
(* whatever the lengths of the months, the timer and the delays; and a     *)
(* whole step on from a run that ended on its day.                         *)
THEOREM RunsKeepTheirSteps == ServerSpec => []RunsKeepTheirStep
  <1>1. Cal!Init => CalInv
    BY InitCalendar
  <1>2. CalInv /\ [Cal!Next]_calVars => CalInv'
    BY StepCalendar
  <1>3. CalInv => RunsKeepTheirStep
    BY CalInvIsRuns
  <1>4. ServerInit => Cal!Init
    BY DEF ServerInit
  <1>5. [ServerNext]_allVars => [Cal!Next]_calVars
    BY PartsStep
  <1> QED
    BY <1>1, <1>2, <1>3, <1>4, <1>5, PTL DEF ServerSpec

=============================================================================
