------------------------------ MODULE Uploads ------------------------------
(***************************************************************************)
(* PUT /storage/{token} of hydra-server (src/storage.rs): the body streams *)
(* into a temporary file beside the object, is measured against the quota  *)
(* of its owner chunk by chunk, hashed when the token says so, and renamed *)
(* into place.  One owner; the quota of another is not touched.            *)
(*                                                                         *)
(* Bytes are units.  The object of key k is <<1, ..., Size[k]>>; a 0 is a  *)
(* unit that arrived damaged, or a hole.  A file is an inode, so that a    *)
(* handle outlives the name it was opened under.                           *)
(***************************************************************************)
EXTENDS Integers, Sequences, Functions

CONSTANTS
    BlobKeys,   \* cloud-saves/{user}/{hash}: hash in the token, a row only
                \* once a commit registers the blob
    SaveKeys,   \* artifacts/{id}.tar and emulation-saves/{id}.bin: a row
                \* with the declared size from the presign on
    Size,       \* units of each object
    Declared,   \* units its presign declared
    Slack,      \* what a token allows past its declared size
    Quota,      \* the owner's max_bytes_per_user; 0 is unlimited
    Refresh,    \* QUOTA_REFRESH_BYTES
    Puts,       \* slots for requests in flight
    Inodes,
    SameKeyTwice, \* whether two PUTs of one key may be open at once
    MaxFailures \* bound on requests that die midway

Keys == BlobKeys \cup SaveKeys
NoFile == "none"
Absent == -1

ASSUME KeysAssumption == BlobKeys \cap SaveKeys = {} /\ Keys # {}
ASSUME SizesAssumption ==
    /\ Size \in [Keys -> Nat \ {0}]
    /\ Declared \in [Keys -> Nat \ {0}]
ASSUME BoundsAssumption ==
    /\ Slack \in Nat /\ Quota \in Nat /\ Refresh \in Nat \ {0} /\ MaxFailures \in Nat
ASSUME InodesAssumption == NoFile \notin Inodes
ASSUME OverlapAssumption == SameKeyTwice \in BOOLEAN

VARIABLES
    content,    \* what each inode holds
    temp,       \* the file at {key}.uploading
    final,      \* the file at {key}
    row,        \* the size the database counts for the key, 0 for no row
    uploaded,   \* save keys whose row has is_uploaded = 1
    granted,    \* keys a signed PUT url is out for
    inFlight,   \* InFlightUploads: extra bytes of each key streaming
    put,        \* the state of each request
    failures    \* requests that died midway (bounded by MaxFailures)

files == <<content, temp, final>>
rows  == <<row, uploaded, granted>>
vars  == <<content, temp, final, row, uploaded, granted, inFlight, put, failures>>

Max0(n) == IF n > 0 THEN n ELSE 0
Larger(m, n) == IF m > n THEN m ELSE n
Whole(k) == [i \in 1..Size[k] |-> i]
Limit(k) == Declared[k] + Slack
UsedBytes == SumFunction(row)

(* A request: what the handler holds in its local variables.  chunked is   *)
(* the offset/total form; good says the units hashed so far are the        *)
(* object's; unit is the one in hand; next is what the quota check guards. *)
Idle == [pc |-> "idle"]
GatePcs == {"budget", "reread", "publish", "judge", "create", "append"}

Init ==
    /\ content = [i \in Inodes |-> <<>>]
    /\ temp = [k \in Keys |-> NoFile]
    /\ final = [k \in Keys |-> NoFile]
    /\ row = [k \in Keys |-> 0]
    /\ uploaded = {}
    /\ granted = {}
    /\ inFlight = [k \in Keys |-> Absent]
    /\ put = [r \in Puts |-> Idle]
    /\ failures = 0

At(r, pc) == put[r].pc = pc
Goto(r, state) == put' = [put EXCEPT ![r] = state]
Step(r, pc) == Goto(r, [put[r] EXCEPT !.pc = pc])

PutsOf(k) == {r \in Puts : ~At(r, "idle") /\ put[r].key = k}

(* Drop of the gate: the entry goes by key, whoever wrote it last.         *)
LeavesEntry(k) == UNCHANGED inFlight  \* mutant
Release(k) == inFlight' = [inFlight EXCEPT ![k] = Absent]

Ends(r) == Goto(r, Idle) /\ Release(put[r].key)

-----------------------------------------------------------------------------
(* Presigns: check_quota on the declared size, then the row (save keys     *)
(* only), two awaits.  A key is presigned once.                            *)

Presign(r, k) ==
    /\ At(r, "idle")
    /\ k \notin granted
    /\ k \in SaveKeys => PutsOf(k) = {}  \* a fresh id
    /\ Quota = 0 \/ UsedBytes + Declared[k] <= Quota  \* else 413
    /\ Goto(r, [pc |-> "presign", key |-> k])
    /\ UNCHANGED <<files, rows, inFlight, failures>>

PresignInsert(r) ==
    /\ At(r, "presign")
    /\ LET k == put[r].key IN
        /\ row' = IF k \in SaveKeys THEN [row EXCEPT ![k] = Declared[k]] ELSE row
        /\ granted' = granted \cup {k}
    /\ Goto(r, Idle)
    /\ UNCHANGED <<files, uploaded, inFlight, failures>>

(* commit_snapshot registers a blob whose file has the announced size; it  *)
(* asks nothing of the quota.                                              *)
RegisterBlob(k) ==
    /\ k \in BlobKeys
    /\ final[k] # NoFile /\ Len(content[final[k]]) = Size[k]
    /\ row[k] = 0
    /\ row' = [row EXCEPT ![k] = Size[k]]
    /\ UNCHANGED <<files, uploaded, granted, inFlight, put, failures>>

-----------------------------------------------------------------------------
(* The quota gate.                                                         *)

NothingElseStored(k, counted) == Quota  \* mutant: the other rows do not count
Free(k, counted) == Max0(Quota - (UsedBytes - counted))

(* What the row counts, then what is left of the quota: two reads.         *)
Open(r, k, offset, chunked) ==
    /\ At(r, "idle")
    /\ k \in granted
    /\ k \in BlobKeys => offset = 0 /\ ~chunked  \* else 400
    /\ chunked => offset < Size[k] /\ Size[k] <= Limit(k)  \* else 400, 413
    /\ ~chunked => offset = 0
    /\ SameKeyTwice \/ PutsOf(k) = {}
    /\ Goto(r, [pc |-> "budget", key |-> k, chunked |-> chunked, counted |-> row[k],
                budget |-> 0, readAt |-> 0, written |-> offset, appends |-> offset > 0,
                good |-> TRUE, unit |-> 0, next |-> "create", inode |-> NoFile])
    /\ UNCHANGED <<files, rows, inFlight, failures>>

(* The bytes the check is about: what is written, with the unit in hand,   *)
(* and never less than what was declared.                                  *)
Measured(q) == q.written + (IF q.next = "write" THEN 1 ELSE 0)
Footprint(q) ==
    Larger(Measured(q), IF q.chunked THEN Size[q.key] ELSE Declared[q.key])

(* Every Refresh units the total is read again, before anything else.      *)
FirstCheck(q) == IF Measured(q) >= q.readAt + Refresh THEN "reread" ELSE "publish"

OpenBudget(r) ==
    /\ At(r, "budget")
    /\ Goto(r, [put[r] EXCEPT !.budget = Free(put[r].key, put[r].counted),
                              !.pc = IF Quota = 0 THEN "create" ELSE FirstCheck(put[r])])
    /\ UNCHANGED <<files, rows, inFlight, failures>>

QuotaReread(r) ==
    /\ At(r, "reread")
    /\ Goto(r, [put[r] EXCEPT !.budget = Free(put[r].key, put[r].counted),
                              !.readAt = Measured(put[r]), !.pc = "publish"])
    /\ UNCHANGED <<files, rows, inFlight, failures>>

PublishesNothing(r) ==  \* mutant: the registry is only read
    /\ At(r, "publish")
    /\ Step(r, "judge")
    /\ UNCHANGED <<files, rows, inFlight, failures>>

Publish(r) ==
    /\ At(r, "publish")
    /\ inFlight' = [inFlight EXCEPT ![put[r].key] = Max0(Footprint(put[r]) - put[r].counted)]
    /\ Step(r, "judge")
    /\ UNCHANGED <<files, rows, failures>>

(* The registry is a lock taken twice, so another request may publish      *)
(* between the two.                                                        *)
Others(k) == SumFunction([j \in Keys |-> IF j = k THEN 0 ELSE Max0(inFlight[j])])
Fits(q) == Footprint(q) <= q.budget - Others(q.key)

Judge(r) ==
    /\ At(r, "judge")
    /\ Fits(put[r])
    /\ Step(r, put[r].next)
    /\ UNCHANGED <<files, rows, inFlight, failures>>

(* A refused upload takes the temporary file with it.                      *)
DropTemp(k) == temp' = [temp EXCEPT ![k] = NoFile]

JudgeRefuses(r) ==
    /\ At(r, "judge")
    /\ ~Fits(put[r])
    /\ DropTemp(put[r].key)
    /\ Ends(r)
    /\ UNCHANGED <<content, final, rows, failures>>

-----------------------------------------------------------------------------
(* The temporary file.                                                     *)

InUse == Range(temp) \cup Range(final) \cup
         {put[r].inode : r \in {q \in Puts : put[q].pc \in {"stream", "write"} \cup GatePcs}}

(* File::create truncates the file that is there, or makes one.            *)
Create(r) ==
    /\ At(r, "create")
    /\ ~put[r].appends
    /\ \E i \in Inodes :
        /\ IF temp[put[r].key] = NoFile THEN i \notin InUse ELSE i = temp[put[r].key]
        /\ content' = [content EXCEPT ![i] = <<>>]
        /\ temp' = [temp EXCEPT ![put[r].key] = i]
        /\ Goto(r, [put[r] EXCEPT !.inode = i, !.next = "write", !.pc = "stream"])
    /\ UNCHANGED <<final, rows, inFlight, failures>>

Landed(k) == IF temp[k] = NoFile THEN 0 ELSE Len(content[temp[k]])

AnyOffset(q) == TRUE  \* mutant
InOrder(q) == Landed(q.key) = q.written

(* A later chunk: the offset must be what has landed, then the file is     *)
(* opened for append, two awaits.                                          *)
CheckOffset(r) ==
    /\ At(r, "create")
    /\ put[r].appends
    /\ IF InOrder(put[r])
       THEN Step(r, "append") /\ UNCHANGED inFlight
       ELSE Ends(r)  \* 409
    /\ UNCHANGED <<files, rows, failures>>

OpenAppend(r) ==
    /\ At(r, "append")
    /\ IF temp[put[r].key] # NoFile
       THEN /\ Goto(r, [put[r] EXCEPT !.inode = temp[put[r].key], !.next = "write",
                                      !.pc = "stream"])
            /\ UNCHANGED inFlight
       ELSE Ends(r)
    /\ UNCHANGED <<files, rows, failures>>

-----------------------------------------------------------------------------
(* The body.  A launcher sends the units of its object in order; those of  *)
(* a blob may arrive damaged, or stop short, or run on.                    *)

NextUnits(q) ==
    IF q.key \in BlobKeys THEN {q.written + 1, 0}
    ELSE IF q.written < Size[q.key] THEN {q.written + 1} ELSE {}

(* The digest takes the unit before anything is checked.                   *)
Receive(r) ==
    /\ At(r, "stream")
    /\ put[r].written < Limit(put[r].key)
    /\ \E u \in NextUnits(put[r]) :
        LET q == [put[r] EXCEPT !.unit = u, !.good = @ /\ u = put[r].written + 1] IN
        Goto(r, [q EXCEPT !.pc = IF Quota = 0 THEN "write" ELSE FirstCheck(q)])
    /\ UNCHANGED <<files, rows, inFlight, failures>>

ReceiveTooMuch(r) ==
    /\ At(r, "stream")
    /\ put[r].written = Limit(put[r].key)
    /\ NextUnits(put[r]) # {}
    /\ DropTemp(put[r].key)
    /\ Ends(r)  \* 413
    /\ UNCHANGED <<content, final, rows, failures>>

(* The handle of the first request writes at its own position, past a hole *)
(* if the file was truncated meanwhile; the others append.                 *)
WriteAt(c, p, u) ==
    [i \in 1..Larger(Len(c), p) |->
        IF i = p THEN u ELSE IF i <= Len(c) THEN c[i] ELSE 0]

Write(r) ==
    /\ At(r, "write")
    /\ LET q == put[r]
           c == content[q.inode] IN
        /\ content' = [content EXCEPT ![q.inode] =
                         IF q.appends THEN Append(c, q.unit)
                         ELSE WriteAt(c, q.written + 1, q.unit)]
        /\ Goto(r, [q EXCEPT !.written = @ + 1, !.unit = 0, !.pc = "stream"])
    /\ UNCHANGED <<temp, final, rows, inFlight, failures>>

(* The body ends.  A chunk that is not the last leaves the file for the    *)
(* next one; a digest that does not match takes it away.                   *)
BodyMayEnd(q) == q.key \in BlobKeys \/ q.chunked \/ q.written = Size[q.key]
Unfinished(q) == q.chunked /\ q.written < Size[q.key]
NoDigest(q) == TRUE  \* mutant
Verified(q) == q.key \in BlobKeys => q.good /\ q.written = Size[q.key]

EndChunk(r) ==
    /\ At(r, "stream")
    /\ Unfinished(put[r])
    /\ Ends(r)  \* 200
    /\ UNCHANGED <<files, rows, failures>>

EndBody(r) ==
    /\ At(r, "stream")
    /\ BodyMayEnd(put[r]) /\ ~Unfinished(put[r])
    /\ IF Verified(put[r])
       THEN /\ Goto(r, [pc |-> "rename", key |-> put[r].key, written |-> put[r].written,
                        counted |-> put[r].counted])
            /\ UNCHANGED <<temp, inFlight>>
       ELSE DropTemp(put[r].key) /\ Ends(r)  \* 400
    /\ UNCHANGED <<content, final, rows, failures>>

Rename(r) ==
    /\ At(r, "rename")
    /\ LET k == put[r].key IN
        IF temp[k] # NoFile
        THEN /\ final' = [final EXCEPT ![k] = temp[k]]
             /\ DropTemp(k)
             /\ Step(r, "finalize")
             /\ UNCHANGED inFlight
        ELSE Ends(r) /\ UNCHANGED <<temp, final>>  \* 500
    /\ UNCHANGED <<content, rows, failures>>

(* finalize_upload: the row of a save learns its real size.                *)
Finalize(r) ==
    /\ At(r, "finalize")
    /\ LET k == put[r].key IN
        /\ row' = IF k \in SaveKeys THEN [row EXCEPT ![k] = put[r].written] ELSE row
        /\ uploaded' = uploaded \cup ({k} \cap SaveKeys)
    /\ Ends(r)
    /\ UNCHANGED <<files, granted, failures>>

(* The connection breaks, a query fails, the process dies: the temporary   *)
(* file stays, the gate is dropped.                                        *)
RequestFails(r) ==
    /\ ~At(r, "idle")
    /\ failures < MaxFailures
    /\ failures' = failures + 1
    /\ IF put[r].pc \in {"presign", "budget"}
       THEN Goto(r, Idle) /\ UNCHANGED inFlight  \* no gate yet
       ELSE Ends(r)
    /\ UNCHANGED <<files, rows>>

-----------------------------------------------------------------------------
Next ==
    \/ \E k \in BlobKeys : RegisterBlob(k)
    \/ \E r \in Puts :
        \/ \E k \in Keys : Presign(r, k)
        \/ \E k \in Keys, chunked \in BOOLEAN :
            \E offset \in 0..Size[k] : Open(r, k, offset, chunked)
        \/ PresignInsert(r)
        \/ OpenBudget(r) \/ QuotaReread(r) \/ Publish(r) \/ Judge(r) \/ JudgeRefuses(r)
        \/ Create(r) \/ CheckOffset(r) \/ OpenAppend(r)
        \/ Receive(r) \/ ReceiveTooMuch(r) \/ Write(r)
        \/ EndChunk(r) \/ EndBody(r) \/ Rename(r) \/ Finalize(r)
        \/ RequestFails(r)

Spec == Init /\ [][Next]_vars

-----------------------------------------------------------------------------
(* Safety.                                                                 *)

PutStates ==
    {Idle} \cup [pc : {"presign"}, key : Keys]
    \cup [pc : {"stream", "write"} \cup GatePcs, key : Keys, chunked : BOOLEAN, counted : Nat,
          budget : Nat, readAt : Nat, written : Nat, appends : BOOLEAN, good : BOOLEAN,
          unit : Nat, next : {"create", "write"}, inode : Inodes \cup {NoFile}]
    \cup [pc : {"rename", "finalize"}, key : Keys, written : Nat, counted : Nat]

(* The type of the files, the rows, the registry and every request.        *)
TypeOK ==
    /\ content \in [Inodes -> Seq(Nat)]
    /\ temp \in [Keys -> Inodes \cup {NoFile}]
    /\ final \in [Keys -> Inodes \cup {NoFile}]
    /\ row \in [Keys -> Nat]
    /\ uploaded \in SUBSET SaveKeys
    /\ granted \in SUBSET Keys
    /\ inFlight \in [Keys -> Nat \cup {Absent}]
    /\ put \in [Puts -> PutStates]
    /\ failures \in 0..MaxFailures

(* Whatever chunks are lost, repeated or out of order, and wherever        *)
(* requests die, the file under a key is the whole object: nothing is ever *)
(* renamed into place that is not.                                         *)
FinalIsWhole == \A k \in Keys : final[k] # NoFile => content[final[k]] = Whole(k)

StoredUnits(K) ==
    SumFunction([k \in K |-> IF final[k] = NoFile THEN 0 ELSE Len(content[final[k]])])

(* Units that arrived past what a presign declared.  A presign made while  *)
(* they stream does not see them, nor do they see it before the next       *)
(* re-read: they are all that may land beyond the quota.                   *)
Understated == SumFunction([k \in SaveKeys |-> Max0(Size[k] - Declared[k])])

(* The saves that landed fit in the quota, whatever presigns race each     *)
(* other and whatever uploads run at once, but for the understated units.  *)
SavesWithinQuota == Quota > 0 => StoredUnits(SaveKeys) <= Quota + Understated

Arriving(r) == put[r].pc \in {"stream", "rename", "finalize"}

(* Two bodies arriving at once never both fit in the same free space.      *)
StreamsShareQuota ==
    Quota > 0 =>
        SumFunction([r \in Puts |->
            IF Arriving(r) THEN Max0(put[r].written - put[r].counted) ELSE 0]) <= Quota

(* An entry of the registry is that of an upload still running: one left   *)
(* behind would take its bytes from the owner until the server restarts.   *)
EntriesAreLive == \A k \in Keys : inFlight[k] # Absent => PutsOf(k) # {}

(* The files, seen as an object store.                                     *)
Object(k) ==
    IF final[k] = NoFile THEN "absent"
    ELSE IF content[final[k]] = Whole(k) THEN "whole" ELSE "broken"

Store == INSTANCE ObjectStore WITH object <- [k \in Keys |-> Object(k)]

(* PUT implements the store the other components rely on.                  *)
ImplementsStore == Store!Spec

=============================================================================
