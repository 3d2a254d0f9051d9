--------------------------- MODULE UploadsProofs ---------------------------
(***************************************************************************)
(* Theorems about Uploads, for every set of keys and requests, every size  *)
(* and every quota.  What the registry holds is proved whether or not two  *)
(* PUTs of one key may overlap, what the files hold and what they take of  *)
(* the quota where they do not.                                            *)
(***************************************************************************)
EXTENDS Uploads, SumProofs, TLAPS

(* A request with the gate: from its first check on, its key may have an   *)
(* entry in the registry.                                                  *)
Gated(q) == q.pc \notin {"idle", "presign", "budget"}

(* A request under way is a record with a counter and a key; one that      *)
(* streams also knows what its check guards.                               *)
Streaming == GatePcs \cup {"stream", "write"}

Shaped(q) ==
    /\ q.pc # "idle" => {"pc", "key"} \subseteq DOMAIN q /\ q = [x \in DOMAIN q |-> q[x]]
    /\ q.pc \in Streaming => "next" \in DOMAIN q /\ q.next \in {"create", "write"}

EntryInv ==
    /\ put = [r \in Puts |-> put[r]]
    /\ \A r \in Puts : Shaped(put[r])
    /\ inFlight = [k \in Keys |-> inFlight[k]]
    /\ \A k \in Keys :
        inFlight[k] # Absent => \E r \in Puts : put[r].key = k /\ Gated(put[r])

LEMMA InitEntryInv == Init => EntryInv
BY DEF Init, EntryInv, Shaped, Gated, Idle, Streaming, GatePcs

(* A step that leaves the registry alone and its request with the gate, if *)
(* it had it.                                                              *)
LEMMA GateKept ==
    ASSUME EntryInv, NEW r \in Puts, NEW state, Goto(r, state), Shaped(state),
           Gated(put[r]) => Gated(state) /\ state.key = put[r].key,
           UNCHANGED inFlight
    PROVE  EntryInv'
<1>1. put'[r] = state /\ \A x \in Puts \ {r} : put'[x] = put[x]
  BY DEF Goto, EntryInv
<1>2. put' = [x \in Puts |-> put'[x]] /\ \A x \in Puts : Shaped(put'[x])
  BY <1>1 DEF Goto, EntryInv
<1>3. ASSUME NEW k \in Keys, inFlight'[k] # Absent
      PROVE  \E x \in Puts : put'[x].key = k /\ Gated(put'[x])
  <2>1. PICK x \in Puts : put[x].key = k /\ Gated(put[x])
    BY <1>3 DEF EntryInv
  <2> QED
    BY <1>1, <2>1
<1> QED
  BY <1>2, <1>3 DEF EntryInv, Shaped, Gated

(* A request that ends takes the entry of its key with it.                 *)
LEMMA EndsEntryInv ==
    ASSUME EntryInv, NEW r \in Puts, Ends(r)
    PROVE  EntryInv'
<1>1. put'[r] = Idle /\ \A x \in Puts \ {r} : put'[x] = put[x]
  BY DEF Ends, Goto, EntryInv
<1>2. put' = [x \in Puts |-> put'[x]] /\ \A x \in Puts : Shaped(put'[x])
  BY <1>1 DEF Ends, Goto, EntryInv, Shaped, Idle, Streaming, GatePcs
<1>3. /\ inFlight' = [k \in Keys |-> inFlight'[k]]
      /\ \A k \in Keys : inFlight'[k] = IF k = put[r].key THEN Absent ELSE inFlight[k]
  BY DEF Ends, Release, EntryInv
<1>4. ASSUME NEW k \in Keys, inFlight'[k] # Absent
      PROVE  \E x \in Puts : put'[x].key = k /\ Gated(put'[x])
  <2>1. k # put[r].key /\ inFlight[k] # Absent
    BY <1>3, <1>4
  <2>2. PICK x \in Puts : put[x].key = k /\ Gated(put[x])
    BY <2>1 DEF EntryInv
  <2> QED
    BY <1>1, <2>1, <2>2
<1> QED
  BY <1>2, <1>3, <1>4 DEF EntryInv, Shaped, Gated

(* The gate publishes the bytes of a request under way.                    *)
LEMMA PublishEntryInv ==
    ASSUME EntryInv, NEW r \in Puts, Publish(r)
    PROVE  EntryInv'
<1>1. /\ put[r].pc = "publish"
      /\ put'[r] = [put[r] EXCEPT !.pc = "judge"]
      /\ put' = [x \in Puts |-> put'[x]]
      /\ \A x \in Puts \ {r} : put'[x] = put[x]
  BY DEF Publish, Step, Goto, At, EntryInv
<1>2. /\ put'[r].pc = "judge" /\ put'[r].key = put[r].key
      /\ Shaped(put'[r]) /\ Gated(put'[r])
  BY <1>1 DEF EntryInv, Shaped, Gated, Streaming, GatePcs
<1>3. /\ inFlight' = [k \in Keys |-> inFlight'[k]]
      /\ \A k \in Keys \ {put[r].key} : inFlight'[k] = inFlight[k]
  BY DEF Publish, EntryInv
<1>4. ASSUME NEW k \in Keys, inFlight'[k] # Absent
      PROVE  \E x \in Puts : put'[x].key = k /\ Gated(put'[x])
  <2>1. CASE k = put[r].key
    BY <1>2, <2>1
  <2>2. CASE k # put[r].key
    <3>1. PICK x \in Puts : put[x].key = k /\ Gated(put[x])
      BY <1>3, <1>4, <2>2 DEF EntryInv
    <3> QED
      BY <1>1, <2>2, <3>1
  <2> QED
    BY <2>1, <2>2
<1>5. \A x \in Puts : Shaped(put'[x])
  BY <1>1, <1>2 DEF EntryInv
<1> QED
  BY <1>1, <1>3, <1>4, <1>5 DEF EntryInv, Shaped, Gated

LEMMA SameEntryInv == ASSUME EntryInv, UNCHANGED <<put, inFlight>> PROVE EntryInv'
BY DEF EntryInv, Shaped, Gated

-----------------------------------------------------------------------------
(* Every step.                                                             *)

(* Presigns, and the steps before the gate.                                *)
LEMMA UngatedEntryInv ==
    ASSUME EntryInv, NEW r \in Puts,
           \/ \E k \in Keys : Presign(r, k)
           \/ PresignInsert(r)
           \/ \E k \in Keys, chunked \in BOOLEAN : \E offset \in 0..Size[k] :
                 Open(r, k, offset, chunked)
           \/ OpenBudget(r)
    PROVE  EntryInv'
<1>1. ~Gated(put[r]) /\ UNCHANGED inFlight
  BY DEF Presign, PresignInsert, Open, OpenBudget, At, Gated
<1>2. ASSUME NEW state, Goto(r, state), Shaped(state) PROVE EntryInv'
  BY <1>1, <1>2, GateKept
<1>3. ASSUME NEW k \in Keys, Presign(r, k) PROVE EntryInv'
  BY <1>2, <1>3 DEF Presign, Shaped, Streaming, GatePcs
<1>4. CASE PresignInsert(r)
  BY <1>2, <1>4 DEF PresignInsert, Shaped, Idle, Streaming, GatePcs
<1>5. ASSUME NEW k \in Keys, NEW chunked \in BOOLEAN, NEW offset \in 0..Size[k],
             Open(r, k, offset, chunked)
      PROVE  EntryInv'
  <2> DEFINE state == [pc |-> "budget", key |-> k, chunked |-> chunked, counted |-> row[k],
                       budget |-> 0, readAt |-> 0, written |-> offset,
                       appends |-> offset > 0, good |-> TRUE, unit |-> 0,
                       next |-> "create", inode |-> NoFile]
  <2>1. Goto(r, state)
    BY <1>5 DEF Open
  <2>2. Shaped(state)
    BY DEF Shaped, Streaming, GatePcs
  <2> QED
    BY <1>2, <2>1, <2>2
<1>6. CASE OpenBudget(r)
  <2> DEFINE state == [put[r] EXCEPT !.budget = Free(put[r].key, put[r].counted),
                         !.pc = IF Quota = 0 THEN "create" ELSE FirstCheck(put[r])]
  <2>1. Goto(r, state) /\ put[r].pc = "budget"
    BY <1>6 DEF OpenBudget, At
  <2>2. Shaped(state)
    BY <2>1 DEF EntryInv, Shaped, Streaming, GatePcs
  <2> QED
    BY <1>2, <2>1, <2>2
<1> QED
  BY <1>3, <1>4, <1>5, <1>6

(* A step that changes fields of a streaming request, not its key.         *)
LEMMA FieldsEntryInv ==
    ASSUME EntryInv, NEW r \in Puts, NEW state, Goto(r, state), UNCHANGED inFlight,
           put[r].pc \in Streaming,
           DOMAIN state = DOMAIN put[r], state = [x \in DOMAIN state |-> state[x]],
           state.key = put[r].key, state.next \in {put[r].next, "write"},
           state.pc \in Streaming \ {"budget"}
    PROVE  EntryInv'
<1>1. Shaped(put[r])
  BY DEF EntryInv
<1>2. Shaped(state) /\ Gated(state)
  BY <1>1 DEF Shaped, Gated, Streaming, GatePcs
<1> QED
  BY <1>2, GateKept

LEMMA StreamingShape ==
    ASSUME EntryInv, NEW r \in Puts, put[r].pc \in Streaming
    PROVE  /\ {"pc", "key", "next"} \subseteq DOMAIN put[r]
           /\ put[r] = [x \in DOMAIN put[r] |-> put[r][x]]
           /\ put[r].next \in {"create", "write"}
BY DEF EntryInv, Shaped, Streaming, GatePcs

LEMMA QuotaEntryInv ==
    ASSUME EntryInv, NEW r \in Puts, QuotaReread(r) \/ Judge(r) \/ JudgeRefuses(r)
    PROVE  EntryInv'
<1>1. put[r].pc \in Streaming
  BY DEF QuotaReread, Judge, JudgeRefuses, At, Streaming, GatePcs
<1>2. CASE QuotaReread(r)
  <2> DEFINE state == [put[r] EXCEPT !.budget = Free(put[r].key, put[r].counted),
                                     !.readAt = Measured(put[r]), !.pc = "publish"]
  <2>1. Goto(r, state) /\ UNCHANGED inFlight
    BY <1>2 DEF QuotaReread
  <2>2. /\ DOMAIN state = DOMAIN put[r] /\ state = [x \in DOMAIN state |-> state[x]]
        /\ state.key = put[r].key /\ state.next = put[r].next /\ state.pc = "publish"
    BY <1>1, StreamingShape
  <2> HIDE DEF state
  <2> QED
    BY <1>1, <2>1, <2>2, FieldsEntryInv DEF Streaming, GatePcs
<1>3. CASE Judge(r)
  <2> DEFINE state == [put[r] EXCEPT !.pc = put[r].next]
  <2>1. Goto(r, state) /\ UNCHANGED inFlight
    BY <1>3 DEF Judge, Step
  <2>2. /\ DOMAIN state = DOMAIN put[r] /\ state = [x \in DOMAIN state |-> state[x]]
        /\ state.key = put[r].key /\ state.next = put[r].next
        /\ state.pc \in {"create", "write"}
    BY <1>1, StreamingShape
  <2> HIDE DEF state
  <2> QED
    BY <1>1, <2>1, <2>2, FieldsEntryInv DEF Streaming, GatePcs
<1>4. CASE JudgeRefuses(r)
  BY <1>4, EndsEntryInv DEF JudgeRefuses
<1> QED
  BY <1>2, <1>3, <1>4

(* The temporary file is opened.                                           *)
LEMMA OpenFileEntryInv ==
    ASSUME EntryInv, NEW r \in Puts, Create(r) \/ CheckOffset(r) \/ OpenAppend(r)
    PROVE  EntryInv'
<1>1. put[r].pc \in Streaming
  BY DEF Create, CheckOffset, OpenAppend, At, Streaming, GatePcs
<1>2. ASSUME NEW i, UNCHANGED inFlight,
             Goto(r, [put[r] EXCEPT !.inode = i, !.next = "write", !.pc = "stream"])
      PROVE  EntryInv'
  <2> DEFINE state == [put[r] EXCEPT !.inode = i, !.next = "write", !.pc = "stream"]
  <2>1. Goto(r, state)
    BY <1>2
  <2>2. /\ DOMAIN state = DOMAIN put[r] /\ state = [x \in DOMAIN state |-> state[x]]
        /\ state.key = put[r].key /\ state.next = "write" /\ state.pc = "stream"
    BY <1>1, StreamingShape
  <2> HIDE DEF state
  <2> QED
    BY <1>1, <1>2, <2>1, <2>2, FieldsEntryInv DEF Streaming, GatePcs
<1>3. CASE Create(r)
  BY <1>2, <1>3 DEF Create
<1>4. CASE CheckOffset(r)
  <2> DEFINE state == [put[r] EXCEPT !.pc = "append"]
  <2>1. CASE Goto(r, state) /\ UNCHANGED inFlight
    <3>1. /\ DOMAIN state = DOMAIN put[r] /\ state = [x \in DOMAIN state |-> state[x]]
          /\ state.key = put[r].key /\ state.next = put[r].next /\ state.pc = "append"
      BY <1>1, StreamingShape
    <3> HIDE DEF state
    <3> QED
      BY <1>1, <2>1, <3>1, FieldsEntryInv DEF Streaming, GatePcs
  <2> QED
    BY <1>4, <2>1, EndsEntryInv DEF CheckOffset, Step
<1>5. CASE OpenAppend(r)
  BY <1>2, <1>5, EndsEntryInv DEF OpenAppend
<1> QED
  BY <1>3, <1>4, <1>5

(* The body.                                                               *)
LEMMA BodyEntryInv ==
    ASSUME EntryInv, NEW r \in Puts,
           \/ Receive(r) \/ ReceiveTooMuch(r) \/ Write(r)
           \/ EndChunk(r) \/ EndBody(r)
    PROVE  EntryInv'
<1>1. put[r].pc \in Streaming
  BY DEF Receive, ReceiveTooMuch, Write, EndChunk, EndBody, At, Streaming
<1>2. CASE Receive(r)
  <2>1. PICK u \in NextUnits(put[r]) :
          LET q == [put[r] EXCEPT !.unit = u, !.good = @ /\ u = put[r].written + 1] IN
          Goto(r, [q EXCEPT !.pc = IF Quota = 0 THEN "write" ELSE FirstCheck(q)])
    BY <1>2 DEF Receive
  <2> DEFINE q == [put[r] EXCEPT !.unit = u, !.good = @ /\ u = put[r].written + 1]
             state == [q EXCEPT !.pc = IF Quota = 0 THEN "write" ELSE FirstCheck(q)]
  <2>2. Goto(r, state) /\ UNCHANGED inFlight
    BY <1>2, <2>1 DEF Receive
  <2>3. /\ DOMAIN q = DOMAIN put[r] /\ q = [x \in DOMAIN q |-> q[x]]
        /\ q.key = put[r].key /\ q.next = put[r].next /\ "pc" \in DOMAIN q
    BY <1>1, StreamingShape
  <2> HIDE DEF q
  <2>4. FirstCheck(q) \in {"reread", "publish"}
    BY DEF FirstCheck
  <2>5. /\ DOMAIN state = DOMAIN put[r] /\ state = [x \in DOMAIN state |-> state[x]]
        /\ state.key = put[r].key /\ state.next = put[r].next
        /\ state.pc \in {"write", "reread", "publish"}
    BY <2>3, <2>4
  <2> HIDE DEF state
  <2> QED
    BY <1>1, <2>2, <2>5, FieldsEntryInv DEF Streaming, GatePcs
<1>3. CASE Write(r)
  <2> DEFINE state == [put[r] EXCEPT !.written = @ + 1, !.unit = 0, !.pc = "stream"]
  <2>1. Goto(r, state) /\ UNCHANGED inFlight
    BY <1>3 DEF Write
  <2>2. /\ DOMAIN state = DOMAIN put[r] /\ state = [x \in DOMAIN state |-> state[x]]
        /\ state.key = put[r].key /\ state.next = put[r].next /\ state.pc = "stream"
    BY <1>1, StreamingShape
  <2> HIDE DEF state
  <2> QED
    BY <1>1, <2>1, <2>2, FieldsEntryInv DEF Streaming, GatePcs
<1>4. CASE EndBody(r) /\ Verified(put[r])
  <2> DEFINE state == [pc |-> "rename", key |-> put[r].key, written |-> put[r].written,
                       counted |-> put[r].counted]
  <2>1. Goto(r, state) /\ UNCHANGED inFlight
    BY <1>4 DEF EndBody
  <2>2. Shaped(state) /\ Gated(state) /\ state.key = put[r].key
    BY DEF Shaped, Gated, Streaming, GatePcs
  <2> HIDE DEF state
  <2> QED
    BY <2>1, <2>2, GateKept
<1>5. CASE EndBody(r) /\ ~Verified(put[r])
  BY <1>5, EndsEntryInv DEF EndBody
<1>6. CASE ReceiveTooMuch(r) \/ EndChunk(r)
  BY <1>6, EndsEntryInv DEF ReceiveTooMuch, EndChunk
<1> QED
  BY <1>2, <1>3, <1>4, <1>5, <1>6

LEMMA RenameEntryInv ==
    ASSUME EntryInv, NEW r \in Puts, Rename(r)
    PROVE  EntryInv'
<1> DEFINE state == [put[r] EXCEPT !.pc = "finalize"]
<1>1. CASE Goto(r, state) /\ UNCHANGED inFlight
  <2>1. put[r].pc = "rename"
    BY DEF Rename, At
  <2>2. /\ {"pc", "key"} \subseteq DOMAIN put[r]
        /\ put[r] = [x \in DOMAIN put[r] |-> put[r][x]]
    BY <2>1 DEF EntryInv, Shaped
  <2>3. /\ state.pc = "finalize" /\ state.key = put[r].key
        /\ Shaped(state) /\ Gated(state)
    BY <2>2 DEF Shaped, Gated, Streaming, GatePcs
  <2> HIDE DEF state
  <2> QED
    BY <1>1, <2>3, GateKept
<1> QED
  BY <1>1, EndsEntryInv DEF Rename, Step

LEMMA FailsEntryInv ==
    ASSUME EntryInv, NEW r \in Puts, RequestFails(r)
    PROVE  EntryInv'
<1>1. CASE put[r].pc \in {"presign", "budget"}
  <2>1. Goto(r, Idle) /\ UNCHANGED inFlight /\ ~Gated(put[r])
    BY <1>1 DEF RequestFails, Gated
  <2>2. Shaped(Idle)
    BY DEF Shaped, Idle, Streaming, GatePcs
  <2> QED
    BY <2>1, <2>2, GateKept
<1> QED
  BY <1>1, EndsEntryInv DEF RequestFails

LEMMA StepEntryInv == EntryInv /\ [Next]_vars => EntryInv'
<1> SUFFICES ASSUME EntryInv, [Next]_vars PROVE EntryInv'
  OBVIOUS
<1>1. ASSUME NEW k \in BlobKeys, RegisterBlob(k) PROVE EntryInv'
  BY <1>1, SameEntryInv DEF RegisterBlob
<1>2. CASE UNCHANGED vars
  BY <1>2, SameEntryInv DEF vars
<1>3. ASSUME NEW r \in Puts, Publish(r) PROVE EntryInv'
  BY <1>3, PublishEntryInv
<1>4. ASSUME NEW r \in Puts, Finalize(r) PROVE EntryInv'
  BY <1>4, EndsEntryInv DEF Finalize
<1> QED
  BY <1>1, <1>2, <1>3, <1>4, UngatedEntryInv, QuotaEntryInv, OpenFileEntryInv,
     BodyEntryInv, RenameEntryInv, FailsEntryInv
  DEF Next

(* Dropping the gate takes the entry of a key out of the registry of       *)
(* uploads in flight, however the request ends: an entry is always that of *)
(* an upload still running.                                                *)
THEOREM NoEntryLeftBehind == Spec => []EntriesAreLive
<1>1. EntryInv => EntriesAreLive
  <2>1. ASSUME NEW r \in Puts, Gated(put[r]) PROVE put[r].pc # "idle"
    BY <2>1 DEF Gated
  <2> QED
    BY <2>1 DEF EntryInv, EntriesAreLive, PutsOf, At
<1> QED
  BY InitEntryInv, StepEntryInv, <1>1, PTL DEF Spec

-----------------------------------------------------------------------------
(***************************************************************************)
(* What is in the files.  One request at a time has the temporary file of  *)
(* a key, knows how much of it there is, and, as long as the digest is     *)
(* good, that it is the beginning of the object; a save arrives in order,  *)
(* so what a chunk left behind is the beginning of the object too.         *)
(***************************************************************************)
StreamFields == {"pc", "key", "chunked", "counted", "budget", "readAt", "written", "appends",
                 "good", "unit", "next", "inode"}

FileFields == {"key", "next", "appends", "written", "good", "unit", "inode"}

StreamTyped(q) ==
    /\ DOMAIN q = StreamFields /\ q = [f \in StreamFields |-> q[f]]
    /\ q.pc \in Streaming /\ q.key \in Keys /\ q.next \in {"create", "write"}
    /\ q.written \in Nat /\ q.unit \in Nat /\ q.good \in BOOLEAN
    /\ q.inode \in Inodes \cup {NoFile}

RenameTyped(q) ==
    /\ q.pc \in {"rename", "finalize"} /\ q.key \in Keys
    /\ q = [pc |-> q.pc, key |-> q.key, written |-> q.written, counted |-> q.counted]

PutTyped(q) ==
    q = Idle \/ q \in [pc : {"presign"}, key : Keys] \/ StreamTyped(q) \/ RenameTyped(q)

FilesTyped ==
    /\ content \in [Inodes -> Seq(Nat)]
    /\ temp \in [Keys -> Inodes \cup {NoFile}]
    /\ final \in [Keys -> Inodes \cup {NoFile}]
    /\ put = [r \in Puts |-> put[r]]
    /\ \A r \in Puts : PutTyped(put[r])

(* No two names share an inode.                                            *)
FilesApart ==
    \A j, k \in Keys :
        /\ temp[j] # NoFile => temp[j] # final[k]
        /\ j # k /\ temp[j] # NoFile => temp[j] # temp[k]
        /\ j # k /\ final[j] # NoFile => final[j] # final[k]

Uploading(q) == q.pc \notin {"idle", "presign"}

(* An upload has its key for itself, and its key was presigned.            *)
OneWriter ==
    \A r \in Puts : Uploading(put[r]) =>
        /\ put[r].key \in granted
        /\ \A x \in Puts \ {r} : put[x].pc # "idle" => put[x].key # put[r].key

InOrderUnits(c) == \A i \in 1..Len(c) : c[i] = i

SavesBegun ==
    \A k \in SaveKeys :
        temp[k] # NoFile => InOrderUnits(content[temp[k]]) /\ Len(content[temp[k]]) <= Size[k]

HasFile(q) == q.next = "write"
Holding(q) == q.next = "write" /\ q.pc # "stream"

(* What a streaming request knows.                                         *)
NextFits(q) ==
    /\ q.pc \in {"stream", "write"} => q.next = "write"
    /\ q.pc \in {"budget", "create", "append"} => q.next = "create"
KnowsFile(q) ==
    HasFile(q) =>
        /\ q.inode # NoFile /\ temp[q.key] = q.inode
        /\ Len(content[q.inode]) = q.written
        /\ q.good => InOrderUnits(content[q.inode])
KnowsUnit(q) == Holding(q) /\ q.good => q.unit = q.written + 1
SaveInOrder(q) ==
    /\ q.appends => q.key \in SaveKeys
    /\ q.next = "create" => q.appends \/ q.written = 0
    /\ q.key \in SaveKeys =>
        /\ q.good /\ q.written <= Size[q.key]
        /\ Holding(q) => q.written < Size[q.key]

Sound(q) ==
    /\ q.pc \in Streaming => NextFits(q) /\ KnowsFile(q) /\ KnowsUnit(q) /\ SaveInOrder(q)
    /\ q.pc = "append" => q.key \in SaveKeys /\ Landed(q.key) = q.written
    /\ q.pc = "rename" => temp[q.key] # NoFile /\ content[temp[q.key]] = Whole(q.key)

SoundAfter(q) == Sound(q)'

AllSound == \A r \in Puts : Sound(put[r])

ContentInv ==
    FilesTyped /\ FilesApart /\ OneWriter /\ SavesBegun /\ AllSound /\ FinalIsWhole

LEMMA InitContentInv == Init => ContentInv
BY DEF Init, ContentInv, FilesTyped, PutTyped, FilesApart, OneWriter, Uploading, SavesBegun,
   AllSound, Sound, Streaming, GatePcs, FinalIsWhole, Idle, Keys

LEMMA GotoPuts ==
    ASSUME FilesTyped, NEW r \in Puts, NEW state, Goto(r, state)
    PROVE  /\ put' = [x \in Puts |-> put'[x]]
           /\ put'[r] = state
           /\ \A x \in Puts \ {r} : put'[x] = put[x]
BY DEF Goto, FilesTyped

LEMMA Counters ==
    ASSUME NEW q, PutTyped(q)
    PROVE  /\ Uploading(q) => q.key \in Keys
           /\ q.pc \in Streaming => StreamTyped(q)
           /\ q.pc \in {"rename", "finalize"} => RenameTyped(q)
           /\ ~Uploading(q) => Sound(q)
BY DEF PutTyped, Uploading, StreamTyped, RenameTyped, Sound, Idle, Streaming, GatePcs

(* What a request knows depends on the file of its own key.                *)
LEMMA SoundKept ==
    ASSUME NEW q, Sound(q), temp'[q.key] = temp[q.key],
           temp[q.key] # NoFile => content'[temp[q.key]] = content[temp[q.key]]
    PROVE  Sound(q)'
BY DEF Sound, NextFits, KnowsFile, HasFile, KnowsUnit, Holding, SaveInOrder, Landed,
   InOrderUnits, Whole

(* An upload goes on, or ends.                                             *)
LEMMA OneWriterKept ==
    ASSUME FilesTyped, OneWriter, NEW r \in Puts, NEW state, Goto(r, state),
           granted \subseteq granted',
           state.pc = "idle" \/ (Uploading(put[r]) /\ state.key = put[r].key)
    PROVE  OneWriter'
BY GotoPuts DEF OneWriter, Uploading

(* A step of an upload that leaves other keys alone: it changes the names  *)
(* of its own, and the contents of an inode no other name has.             *)
OthersKept(k) ==
    \A j \in Keys \ {k} :
        /\ temp'[j] = temp[j] /\ final'[j] = final[j]
        /\ temp[j] # NoFile => content'[temp[j]] = content[temp[j]]
        /\ final[j] # NoFile => content'[final[j]] = content[final[j]]
BegunAfter(k) ==
    k \in SaveKeys /\ temp'[k] # NoFile =>
        InOrderUnits(content'[temp'[k]]) /\ Len(content'[temp'[k]]) <= Size[k]
WholeAfter(k) == final'[k] # NoFile => content'[final'[k]] = Whole(k)
FilesAfter ==
    /\ content' \in [Inodes -> Seq(Nat)]
    /\ temp' \in [Keys -> Inodes \cup {NoFile}]
    /\ final' \in [Keys -> Inodes \cup {NoFile}]

LEMMA FileStep ==
    ASSUME ContentInv, NEW r \in Puts, Uploading(put[r]), NEW state, Goto(r, state),
           PutTyped(state), state = Idle \/ (state.key = put[r].key /\ SoundAfter(state)),
           UNCHANGED granted, FilesAfter, FilesApart',
           NEW k, k = put[r].key, OthersKept(k), BegunAfter(k), WholeAfter(k)
    PROVE  ContentInv'
<1> USE DEF ContentInv, FilesAfter, OthersKept, BegunAfter, WholeAfter
<1>1. k \in Keys
  BY Counters DEF FilesTyped
<1>2. FilesTyped'
  <2>1. put' = [x \in Puts |-> put'[x]]
    BY GotoPuts
  <2>3. \A x \in Puts : put'[x] = put[x] \/ put'[x] = state
    BY GotoPuts
  <2>2. \A x \in Puts : PutTyped(put'[x])
    BY <2>3 DEF FilesTyped
  <2> QED
    BY <2>1, <2>2 DEF FilesTyped, PutTyped, StreamTyped, RenameTyped
<1>3. OneWriter'
  BY OneWriterKept DEF Idle
<1>4. SavesBegun'
  BY <1>1 DEF SavesBegun, InOrderUnits, Keys
<1>5. FinalIsWhole'
  BY <1>1 DEF FinalIsWhole, Whole
<1>6. ASSUME NEW x \in Puts PROVE Sound(put[x])'
  <2>1. CASE x = r
    <3>1. put'[x] = state
      BY <2>1, GotoPuts
    <3>2. Sound(state)'
      BY DEF SoundAfter, Sound, Idle, Streaming, GatePcs
    <3> QED
      BY <3>1, <3>2
  <2>2. CASE x # r /\ ~Uploading(put[x])
    <3>1. PICK q : q = put[x]
      OBVIOUS
    <3>2. put'[x] = q
      BY <2>2, <3>1, GotoPuts
    <3>3. Sound(q)'
      BY <2>2, <3>1 DEF Sound, Uploading, Streaming, GatePcs
    <3> QED
      BY <3>2, <3>3
  <2>3. CASE x # r /\ Uploading(put[x])
    <3>1. PICK q : q = put[x]
      OBVIOUS
    <3>2. put'[x] = q
      BY <2>3, <3>1, GotoPuts
    <3>3. q.key \in Keys \ {k}
      BY <2>3, <3>1, Counters DEF OneWriter, FilesTyped, Uploading
    <3>4. Sound(q)'
      BY <3>1, <3>3, SoundKept DEF AllSound
    <3> QED
      BY <3>2, <3>4
  <2> QED
    BY <2>1, <2>2, <2>3
<1> QED
  BY <1>2, <1>3, <1>4, <1>5, <1>6 DEF AllSound

(* Nothing happens to the files.                                           *)
LEMMA FilesStay ==
    ASSUME ContentInv, NEW r \in Puts, Uploading(put[r]), NEW state, Goto(r, state),
           PutTyped(state), state = Idle \/ (state.key = put[r].key /\ Sound(state)),
           UNCHANGED <<files, granted>>
    PROVE  ContentInv'
<1>1. UNCHANGED <<content, temp, final>>
  BY DEF files
<1>2. put[r].key \in Keys
  BY Counters DEF ContentInv, FilesTyped
<1>3. Sound(state) => Sound(state)'
  BY <1>1, SoundKept
<1>4. FilesApart'
  BY <1>1 DEF ContentInv, FilesApart
<1> QED
  BY <1>1, <1>2, <1>3, <1>4, FileStep
  DEF SoundAfter, FilesAfter, OthersKept, BegunAfter, WholeAfter, ContentInv, FilesTyped,
      SavesBegun, FinalIsWhole

(* The temporary file is removed when its upload is refused.               *)
LEMMA DropsTemp ==
    ASSUME ContentInv, NEW r \in Puts, Uploading(put[r]), Goto(r, Idle),
           DropTemp(put[r].key), UNCHANGED <<content, final, granted>>
    PROVE  ContentInv'
<1> DEFINE k == put[r].key
<1>1. k \in Keys
  BY Counters DEF ContentInv, FilesTyped
<1>2. temp' \in [Keys -> Inodes \cup {NoFile}] /\ temp'[k] = NoFile
      /\ \A j \in Keys \ {k} : temp'[j] = temp[j]
  BY <1>1 DEF DropTemp, ContentInv, FilesTyped
<1>3. FilesApart'
  BY <1>1, <1>2 DEF ContentInv, FilesApart
<1>4. PutTyped(Idle)
  BY DEF PutTyped
<1> HIDE DEF k
<1> QED
  BY <1>1, <1>2, <1>3, <1>4, FileStep
  DEF k, FilesAfter, OthersKept, BegunAfter, WholeAfter, ContentInv, FilesTyped, FinalIsWhole

LEMMA SameFiles ==
    ASSUME ContentInv, UNCHANGED <<files, put, granted>>
    PROVE  ContentInv'
BY DEF files, ContentInv, FilesTyped, PutTyped, StreamTyped, RenameTyped, FilesApart,
   OneWriter, Uploading, SavesBegun, AllSound, Sound, NextFits, KnowsFile, HasFile, KnowsUnit,
   Holding, SaveInOrder, Landed, InOrderUnits, Whole, FinalIsWhole

(* A request that has no upload under way starts one, or a presign.        *)
LEMMA Enters ==
    ASSUME ContentInv, NEW r \in Puts, ~Uploading(put[r]), NEW state, Goto(r, state),
           PutTyped(state), Sound(state), OneWriter', UNCHANGED files
    PROVE  ContentInv'
<1> USE DEF ContentInv, files
<1>1. put' = [x \in Puts |-> put'[x]]
  BY GotoPuts
<1>2. \A x \in Puts : put'[x] = put[x] \/ put'[x] = state
  BY GotoPuts
<1>3. \A x \in Puts : PutTyped(put'[x])
  BY <1>2 DEF FilesTyped
<1>4. FilesTyped'
  BY <1>1, <1>3 DEF FilesTyped, PutTyped, StreamTyped, RenameTyped
<1>5. FilesApart' /\ SavesBegun' /\ FinalIsWhole'
  BY DEF FilesApart, SavesBegun, InOrderUnits, FinalIsWhole, Whole
<1>6. ASSUME NEW x \in Puts PROVE Sound(put[x])'
  <2>1. PICK q : q = put'[x]
    OBVIOUS
  <2>2. Sound(q)
    BY <1>2, <2>1 DEF AllSound
  <2>3. Sound(q)'
    BY <2>2, SoundKept
  <2> QED
    BY <2>1, <2>3
<1> QED
  BY <1>4, <1>5, <1>6 DEF AllSound

LEMMA PresignContent ==
    ASSUME ContentInv, NEW r \in Puts, NEW k \in Keys, Presign(r, k)
    PROVE  ContentInv'
<1> DEFINE state == [pc |-> "presign", key |-> k]
<1>1. Goto(r, state) /\ UNCHANGED <<files, granted>> /\ ~Uploading(put[r])
  BY DEF Presign, rows, At, Uploading
<1>2. state.pc = "presign" /\ state.key = k /\ PutTyped(state) /\ Sound(state)
  BY DEF PutTyped, Sound, Streaming, GatePcs
<1> HIDE DEF state
<1>3. ASSUME NEW x \in Puts \ {r}, Uploading(put[x]) PROVE put[x].key # k
  <2>1. put[x].key \in granted
    BY <1>3 DEF ContentInv, OneWriter
  <2> QED
    BY <2>1 DEF Presign
<1>4. OneWriter'
  BY <1>1, <1>2, <1>3, GotoPuts DEF ContentInv, OneWriter, Uploading
<1> QED
  BY <1>1, <1>2, <1>4, Enters

LEMMA PresignInsertContent ==
    ASSUME ContentInv, NEW r \in Puts, PresignInsert(r)
    PROVE  ContentInv'
<1>1. /\ Goto(r, Idle) /\ UNCHANGED files /\ ~Uploading(put[r])
      /\ granted \subseteq granted'
  BY DEF PresignInsert, At, Uploading
<1>2. PutTyped(Idle) /\ Sound(Idle) /\ Idle.pc = "idle"
  BY DEF PutTyped, Sound, Idle, Streaming, GatePcs
<1>3. OneWriter'
  BY <1>1, <1>2, OneWriterKept DEF ContentInv
<1> QED
  BY <1>1, <1>2, <1>3, Enters

LEMMA OpenContent ==
    ASSUME ContentInv, ~SameKeyTwice, NEW r \in Puts, NEW k \in Keys, NEW chunked \in BOOLEAN,
           NEW offset \in 0..Size[k], Open(r, k, offset, chunked)
    PROVE  ContentInv'
<1> DEFINE state == [pc |-> "budget", key |-> k, chunked |-> chunked, counted |-> row[k],
                     budget |-> 0, readAt |-> 0, written |-> offset, appends |-> offset > 0,
                     good |-> TRUE, unit |-> 0, next |-> "create", inode |-> NoFile]
<1>1. Goto(r, state) /\ UNCHANGED <<files, granted>> /\ ~Uploading(put[r])
  BY DEF Open, rows, At, Uploading
<1>2. StreamTyped(state)
  BY SizesAssumption DEF StreamTyped, StreamFields, Streaming, GatePcs
<1>3. state.pc = "budget" /\ state.key = k
  OBVIOUS
<1>4. Sound(state)
  BY <1>1, SizesAssumption
  DEF Sound, NextFits, KnowsFile, HasFile, KnowsUnit, Holding, SaveInOrder, Open, Keys
<1> HIDE DEF state
<1>5. \A x \in Puts : put[x].pc # "idle" => put[x].key # k
  BY DEF Open, PutsOf, At
<1>6. OneWriter'
  BY <1>1, <1>3, <1>5, GotoPuts DEF Open, ContentInv, OneWriter, Uploading
<1> QED
  BY <1>1, <1>2, <1>4, <1>6, Enters DEF PutTyped

(* A streaming request moves to another await with what it knows.          *)
LEMMA StreamMoves ==
    ASSUME ContentInv, NEW r \in Puts, put[r].pc \in Streaming, NEW state, Goto(r, state),
           DOMAIN state = StreamFields, state = [f \in StreamFields |-> state[f]],
           state.pc \in Streaming,
           state.pc = "stream" => put[r].pc = "stream",
           state.pc = "append" => put[r].appends /\ Landed(put[r].key) = put[r].written,
           \A f \in FileFields : state[f] = put[r][f],
           NextFits(state), Holding(state) => Holding(put[r]),
           UNCHANGED <<files, granted>>
    PROVE  ContentInv'
<1>1. StreamTyped(put[r]) /\ Sound(put[r]) /\ Uploading(put[r])
  BY Counters DEF ContentInv, FilesTyped, AllSound, Uploading, Streaming, GatePcs
<1>2. StreamTyped(state)
  BY <1>1 DEF StreamTyped, FileFields
<1>3. Sound(state)
  BY <1>1
  DEF FileFields, Sound, KnowsFile, HasFile, KnowsUnit, Holding, SaveInOrder, Streaming, GatePcs
<1> QED
  BY <1>1, <1>2, <1>3, FilesStay DEF PutTyped, StreamTyped, FileFields

LEMMA OpenBudgetContent ==
    ASSUME ContentInv, NEW r \in Puts, OpenBudget(r)
    PROVE  ContentInv'
<1>1. StreamTyped(put[r]) /\ Sound(put[r])
  BY Counters DEF ContentInv, FilesTyped, AllSound, OpenBudget, At, Streaming, GatePcs
<1> DEFINE state == [put[r] EXCEPT !.budget = Free(put[r].key, put[r].counted),
                                   !.pc = IF Quota = 0 THEN "create" ELSE FirstCheck(put[r])]
<1>2. Goto(r, state) /\ UNCHANGED <<files, granted>> /\ put[r].pc = "budget"
  BY DEF OpenBudget, rows, At
<1>3. /\ DOMAIN state = StreamFields /\ state = [f \in StreamFields |-> state[f]]
      /\ \A f \in FileFields : state[f] = put[r][f]
      /\ state.pc \in {"create", "reread", "publish"}
  BY <1>1 DEF StreamTyped, StreamFields, FileFields, FirstCheck
<1>4. NextFits(state)
  BY <1>1, <1>2, <1>3 DEF FileFields, NextFits, Sound, Streaming, GatePcs
<1>5. Holding(state) => Holding(put[r])
  BY <1>2, <1>3 DEF FileFields, Holding
<1> HIDE DEF state
<1> QED
  BY <1>2, <1>3, <1>4, <1>5, StreamMoves DEF Streaming, GatePcs

LEMMA QuotaRereadContent ==
    ASSUME ContentInv, NEW r \in Puts, QuotaReread(r)
    PROVE  ContentInv'
<1>1. StreamTyped(put[r]) /\ Sound(put[r])
  BY Counters DEF ContentInv, FilesTyped, AllSound, QuotaReread, At, Streaming, GatePcs
<1> DEFINE state == [put[r] EXCEPT !.budget = Free(put[r].key, put[r].counted),
                                   !.readAt = Measured(put[r]), !.pc = "publish"]
<1>2. Goto(r, state) /\ UNCHANGED <<files, granted>> /\ put[r].pc = "reread"
  BY DEF QuotaReread, rows, At
<1>3. /\ DOMAIN state = StreamFields /\ state = [f \in StreamFields |-> state[f]]
      /\ \A f \in FileFields : state[f] = put[r][f]
      /\ state.pc = "publish"
  BY <1>1 DEF StreamTyped, StreamFields, FileFields
<1>4. NextFits(state) /\ (Holding(state) => Holding(put[r]))
  BY <1>2, <1>3 DEF FileFields, NextFits, Holding
<1> HIDE DEF state
<1> QED
  BY <1>2, <1>3, <1>4, StreamMoves DEF Streaming, GatePcs

LEMMA PublishContent ==
    ASSUME ContentInv, NEW r \in Puts, Publish(r)
    PROVE  ContentInv'
<1>1. StreamTyped(put[r]) /\ Sound(put[r])
  BY Counters DEF ContentInv, FilesTyped, AllSound, Publish, At, Streaming, GatePcs
<1> DEFINE state == [put[r] EXCEPT !.pc = "judge"]
<1>2. Goto(r, state) /\ UNCHANGED <<files, granted>> /\ put[r].pc = "publish"
  BY DEF Publish, Step, rows, At
<1>3. /\ DOMAIN state = StreamFields /\ state = [f \in StreamFields |-> state[f]]
      /\ \A f \in FileFields : state[f] = put[r][f]
      /\ state.pc = "judge"
  BY <1>1 DEF StreamTyped, StreamFields, FileFields
<1>4. NextFits(state) /\ (Holding(state) => Holding(put[r]))
  BY <1>2, <1>3 DEF FileFields, NextFits, Holding
<1> HIDE DEF state
<1> QED
  BY <1>2, <1>3, <1>4, StreamMoves DEF Streaming, GatePcs

LEMMA JudgeContent ==
    ASSUME ContentInv, NEW r \in Puts, Judge(r)
    PROVE  ContentInv'
<1>1. StreamTyped(put[r]) /\ Sound(put[r])
  BY Counters DEF ContentInv, FilesTyped, AllSound, Judge, At, Streaming, GatePcs
<1> DEFINE state == [put[r] EXCEPT !.pc = put[r].next]
<1>2. Goto(r, state) /\ UNCHANGED <<files, granted>> /\ put[r].pc = "judge"
  BY DEF Judge, Step, rows, At
<1>3. /\ DOMAIN state = StreamFields /\ state = [f \in StreamFields |-> state[f]]
      /\ \A f \in FileFields : state[f] = put[r][f]
      /\ state.pc = state.next /\ state.pc \in {"create", "write"}
  BY <1>1 DEF StreamTyped, StreamFields, FileFields
<1>4. NextFits(state) /\ (Holding(state) => Holding(put[r]))
  BY <1>2, <1>3 DEF FileFields, NextFits, Holding
<1> HIDE DEF state
<1> QED
  BY <1>2, <1>3, <1>4, StreamMoves DEF Streaming, GatePcs

(* A request that ends where it is leaves the files as they are.           *)
LEMMA IdleContent ==
    ASSUME ContentInv, NEW r \in Puts, Goto(r, Idle), UNCHANGED <<files, granted>>
    PROVE  ContentInv'
<1>1. PutTyped(Idle) /\ Sound(Idle) /\ Idle.pc = "idle"
  BY DEF PutTyped, Sound, Idle, Streaming, GatePcs
<1>2. OneWriter'
  BY <1>1, OneWriterKept DEF ContentInv
<1> QED
  BY <1>1, <1>2, Enters, FilesStay

LEMMA CheckOffsetContent ==
    ASSUME ContentInv, NEW r \in Puts, CheckOffset(r)
    PROVE  ContentInv'
<1>1. StreamTyped(put[r]) /\ Sound(put[r])
  BY Counters DEF ContentInv, FilesTyped, AllSound, CheckOffset, At, Streaming, GatePcs
<1>2. UNCHANGED <<files, granted>> /\ put[r].pc = "create" /\ put[r].appends
  BY DEF CheckOffset, rows, At
<1>3. CASE InOrder(put[r])
  <2> DEFINE state == [put[r] EXCEPT !.pc = "append"]
  <2>1. Goto(r, state)
    BY <1>3 DEF CheckOffset, Step
  <2>2. /\ DOMAIN state = StreamFields /\ state = [f \in StreamFields |-> state[f]]
        /\ \A f \in FileFields : state[f] = put[r][f]
        /\ state.pc = "append"
    BY <1>1 DEF StreamTyped, StreamFields, FileFields
  <2>3. NextFits(state) /\ (Holding(state) => Holding(put[r]))
    BY <1>1, <1>2, <2>2 DEF FileFields, NextFits, Holding, Sound, Streaming, GatePcs
  <2> HIDE DEF state
  <2> QED
    BY <1>2, <1>3, <2>1, <2>2, <2>3, StreamMoves DEF Streaming, GatePcs, InOrder
<1>4. CASE ~InOrder(put[r])
  BY <1>2, <1>4, IdleContent DEF CheckOffset, Ends
<1> QED
  BY <1>3, <1>4

(* A later chunk opens what the earlier ones left: the beginning of a save *)
(* (a blob is never sent in chunks).                                       *)
LEMMA OpenAppendContent ==
    ASSUME ContentInv, NEW r \in Puts, OpenAppend(r)
    PROVE  ContentInv'
<1>1. StreamTyped(put[r]) /\ Sound(put[r]) /\ Uploading(put[r])
  BY Counters
  DEF ContentInv, FilesTyped, AllSound, OpenAppend, At, Streaming, GatePcs, Uploading
<1>2. UNCHANGED <<files, granted>> /\ put[r].pc = "append"
  BY DEF OpenAppend, rows, At
<1>3. CASE temp[put[r].key] # NoFile
  <2> DEFINE state == [put[r] EXCEPT !.inode = temp[put[r].key], !.next = "write",
                                     !.pc = "stream"]
  <2>1. Goto(r, state)
    BY <1>3 DEF OpenAppend
  <2>2. /\ DOMAIN state = StreamFields /\ state = [f \in StreamFields |-> state[f]]
        /\ \A f \in {"key", "appends", "written", "good", "unit"} : state[f] = put[r][f]
        /\ state.pc = "stream" /\ state.next = "write" /\ state.inode = temp[put[r].key]
    BY <1>1 DEF StreamTyped, StreamFields, FileFields
  <2> HIDE DEF state
  <2>3. StreamTyped(state)
    BY <1>1, <2>2 DEF StreamTyped, Streaming, ContentInv, FilesTyped
  <2>4. put[r].key \in SaveKeys /\ Landed(put[r].key) = put[r].written
    BY <1>1, <1>2 DEF Sound
  <2>5. KnowsFile(state)
    BY <1>1, <1>3, <2>2, <2>4 DEF KnowsFile, Landed, ContentInv, SavesBegun
  <2>6. Sound(state)
    BY <1>1, <1>2, <2>2, <2>5
    DEF Sound, NextFits, KnowsUnit, Holding, SaveInOrder, Streaming, GatePcs
  <2> QED
    BY <1>1, <1>2, <2>1, <2>2, <2>3, <2>6, FilesStay DEF PutTyped
<1>4. CASE temp[put[r].key] = NoFile
  BY <1>2, <1>4, IdleContent DEF OpenAppend, Ends
<1> QED
  BY <1>3, <1>4

LEMMA ReceiveContent ==
    ASSUME ContentInv, NEW r \in Puts, Receive(r)
    PROVE  ContentInv'
<1>1. StreamTyped(put[r]) /\ Sound(put[r]) /\ Uploading(put[r]) /\ put[r].pc = "stream"
  BY Counters
  DEF ContentInv, FilesTyped, AllSound, Receive, At, Streaming, GatePcs, Uploading
<1>2. PICK u \in NextUnits(put[r]) :
        LET q == [put[r] EXCEPT !.unit = u, !.good = @ /\ u = put[r].written + 1] IN
        Goto(r, [q EXCEPT !.pc = IF Quota = 0 THEN "write" ELSE FirstCheck(q)])
  BY DEF Receive
<1> DEFINE q == [put[r] EXCEPT !.unit = u, !.good = @ /\ u = put[r].written + 1]
           state == [q EXCEPT !.pc = IF Quota = 0 THEN "write" ELSE FirstCheck(q)]
<1>3. Goto(r, state) /\ UNCHANGED <<files, granted>>
  BY <1>2 DEF Receive, rows
<1>4. /\ DOMAIN state = StreamFields /\ state = [f \in StreamFields |-> state[f]]
      /\ \A f \in FileFields \ {"good", "unit"} : state[f] = put[r][f]
      /\ state.pc \in {"write", "reread", "publish"} /\ state.unit = u
      /\ state.good = (put[r].good /\ u = put[r].written + 1)
  BY <1>1 DEF StreamTyped, StreamFields, FileFields, FirstCheck
<1> HIDE DEF state, q
<1>5. u \in Nat
  BY <1>1 DEF NextUnits, StreamTyped
<1>6. StreamTyped(state)
  BY <1>1, <1>4, <1>5 DEF StreamTyped, FileFields, Streaming, GatePcs
<1>7. put[r].next = "write"
  BY <1>1 DEF Sound, NextFits, Streaming
<1>8. KnowsFile(state)
  BY <1>1, <1>4, <1>7 DEF Sound, KnowsFile, HasFile, FileFields, Streaming
<1>9. KnowsUnit(state) /\ NextFits(state)
  BY <1>1, <1>4, <1>7 DEF KnowsUnit, NextFits, FileFields
<1>10. SaveInOrder(state)
  <2>1. put[r].key \in SaveKeys => u = put[r].written + 1 /\ put[r].written < Size[put[r].key]
    BY KeysAssumption DEF NextUnits
  <2> QED
    BY <1>1, <1>4, <2>1 DEF Sound, SaveInOrder, FileFields, Streaming
<1>11. Sound(state)
  BY <1>4, <1>8, <1>9, <1>10 DEF Sound
<1> QED
  BY <1>1, <1>3, <1>4, <1>6, <1>11, FilesStay DEF PutTyped, FileFields

LEMMA UploadingPcs ==
    ASSUME NEW r \in Puts, put[r].pc \in Streaming \cup {"rename", "finalize"}
    PROVE  Uploading(put[r])
BY DEF Uploading, Streaming, GatePcs

LEMMA RefusedContent ==
    ASSUME ContentInv, NEW r \in Puts, JudgeRefuses(r) \/ ReceiveTooMuch(r)
    PROVE  ContentInv'
BY UploadingPcs, DropsTemp DEF JudgeRefuses, ReceiveTooMuch, Ends, rows, At, Streaming, GatePcs

LEMMA EndBodyContent ==
    ASSUME ContentInv, NEW r \in Puts, EndBody(r)
    PROVE  ContentInv'
<1>1. StreamTyped(put[r]) /\ Sound(put[r]) /\ Uploading(put[r]) /\ put[r].pc = "stream"
  BY Counters
  DEF ContentInv, FilesTyped, AllSound, EndBody, At, Streaming, GatePcs, Uploading
<1> DEFINE k == put[r].key
<1>2. k \in Keys /\ Size[k] \in Nat
  BY <1>1, SizesAssumption DEF StreamTyped
<1>3. CASE Verified(put[r])
  <2> DEFINE state == [pc |-> "rename", key |-> put[r].key, written |-> put[r].written,
                       counted |-> put[r].counted]
  <2>1. Goto(r, state) /\ UNCHANGED <<files, granted>>
    BY <1>3 DEF EndBody, files, rows
  <2>2. put[r].good /\ put[r].written = Size[k]
    <3>1. CASE k \in BlobKeys
      BY <1>3, <3>1 DEF Verified
    <3>2. CASE k \in SaveKeys
      BY <1>1, <1>2, <3>2, KeysAssumption
      DEF Sound, SaveInOrder, Streaming, EndBody, BodyMayEnd, Unfinished, StreamTyped
    <3> QED
      BY <1>2, <3>1, <3>2 DEF Keys
  <2>3. /\ temp[k] # NoFile /\ temp[k] \in Inodes
        /\ Len(content[temp[k]]) = Size[k] /\ InOrderUnits(content[temp[k]])
    BY <1>1, <2>2 DEF Sound, NextFits, KnowsFile, HasFile, Streaming, StreamTyped
  <2>4. content[temp[k]] = Whole(k)
    <3>1. content[temp[k]] \in Seq(Nat)
      BY <2>3 DEF ContentInv, FilesTyped
    <3>2. PICK c \in Seq(Nat) : c = content[temp[k]]
      BY <3>1
    <3>3. c = [i \in 1..Len(c) |-> c[i]]
      OBVIOUS
    <3> QED
      BY <2>3, <3>2, <3>3 DEF InOrderUnits, Whole
  <2>5. state.key = k /\ state.pc = "rename" /\ RenameTyped(state)
    BY <1>2 DEF RenameTyped
  <2> HIDE DEF state
  <2>6. Sound(state)
    BY <2>3, <2>4, <2>5 DEF Sound, Streaming, GatePcs
  <2> QED
    BY <1>1, <2>1, <2>5, <2>6, FilesStay DEF PutTyped
<1>4. CASE ~Verified(put[r])
  BY <1>1, <1>4, DropsTemp DEF EndBody, Ends, rows
<1> QED
  BY <1>3, <1>4

LEMMA EndsContent ==
    ASSUME ContentInv, NEW r \in Puts, EndChunk(r) \/ Finalize(r) \/ RequestFails(r)
    PROVE  ContentInv'
BY IdleContent DEF EndChunk, Finalize, RequestFails, Ends, rows

LEMMA CreateContent ==
    ASSUME ContentInv, NEW r \in Puts, Create(r)
    PROVE  ContentInv'
<1>1. /\ StreamTyped(put[r]) /\ Sound(put[r]) /\ Uploading(put[r])
      /\ put[r].pc = "create" /\ ~put[r].appends
  BY Counters
  DEF ContentInv, FilesTyped, AllSound, Create, At, Streaming, GatePcs, Uploading
<1> PICK k : k = put[r].key
  OBVIOUS
<1>2. k \in Keys /\ Size[k] \in Nat
  BY <1>1, SizesAssumption DEF StreamTyped
<1>3. PICK i \in Inodes :
        /\ IF temp[k] = NoFile THEN i \notin InUse ELSE i = temp[k]
        /\ content' = [content EXCEPT ![i] = <<>>]
        /\ temp' = [temp EXCEPT ![k] = i]
        /\ Goto(r, [put[r] EXCEPT !.inode = i, !.next = "write", !.pc = "stream"])
  BY DEF Create
<1> PICK state : state = [put[r] EXCEPT !.inode = i, !.next = "write", !.pc = "stream"]
  OBVIOUS
<1>4. /\ DOMAIN state = StreamFields /\ state = [f \in StreamFields |-> state[f]]
      /\ \A f \in FileFields \ {"inode", "next"} : state[f] = put[r][f]
      /\ state.pc = "stream" /\ state.next = "write" /\ state.inode = i
  BY <1>1 DEF StreamTyped, StreamFields, FileFields
<1>5. Goto(r, state) /\ UNCHANGED <<final, granted>>
  BY <1>3 DEF Create, rows
<1>6. \A j \in Keys : final[j] # NoFile => final[j] # i
  BY <1>2, <1>3 DEF InUse, Range, ContentInv, FilesTyped, FilesApart
<1>7. \A j \in Keys \ {k} : temp[j] # NoFile => temp[j] # i
  BY <1>2, <1>3 DEF InUse, Range, ContentInv, FilesTyped, FilesApart
<1>8. /\ content' \in [Inodes -> Seq(Nat)] /\ content'[i] = <<>>
      /\ \A x \in Inodes \ {i} : content'[x] = content[x]
  BY <1>3 DEF ContentInv, FilesTyped
<1>9. /\ temp' \in [Keys -> Inodes \cup {NoFile}] /\ temp'[k] = i
      /\ \A j \in Keys \ {k} : temp'[j] = temp[j]
  BY <1>2, <1>3 DEF ContentInv, FilesTyped
<1>10. i # NoFile
  BY InodesAssumption
<1>11. FilesApart'
  BY <1>2, <1>5, <1>6, <1>7, <1>9 DEF ContentInv, FilesApart
<1>12. OthersKept(k)
  <2>1. temp \in [Keys -> Inodes \cup {NoFile}] /\ final \in [Keys -> Inodes \cup {NoFile}]
    BY DEF ContentInv, FilesTyped
  <2>2. ASSUME NEW j \in Keys \ {k}
        PROVE  /\ temp[j] # NoFile => content'[temp[j]] = content[temp[j]]
               /\ final[j] # NoFile => content'[final[j]] = content[final[j]]
    BY <1>6, <1>7, <1>8, <2>1, <2>2
  <2> QED
    BY <1>5, <1>9, <2>2 DEF OthersKept
<1>13. WholeAfter(k)
  BY <1>2, <1>5, <1>6, <1>8 DEF WholeAfter, ContentInv, FilesTyped, FinalIsWhole
<1>14. InOrderUnits(<<>>) /\ Len(<<>>) = 0
  BY DEF InOrderUnits
<1>15. BegunAfter(k)
  BY <1>2, <1>8, <1>9, <1>14 DEF BegunAfter
<1>16. put[r].written = 0
  BY <1>1 DEF Sound, NextFits, SaveInOrder, Streaming, GatePcs
<1>17. SoundAfter(state)
  BY <1>1, <1>4, <1>8, <1>9, <1>10, <1>14, <1>16
  DEF SoundAfter, Sound, NextFits, KnowsFile, HasFile, KnowsUnit, Holding, SaveInOrder,
      FileFields, Streaming, GatePcs
<1>18. PutTyped(state) /\ state.key = k
  BY <1>1, <1>4 DEF PutTyped, StreamTyped, FileFields, Streaming
<1>19. FilesAfter
  BY <1>5, <1>8, <1>9 DEF FilesAfter, ContentInv, FilesTyped
<1> QED
  BY <1>1, <1>5, <1>11, <1>12, <1>13, <1>15, <1>17, <1>18, <1>19, FileStep

(* Writing at the end of a file, by position or by append.                 *)
Lengthens(c, p, u, d) == p = Len(c) + 1 /\ (d = Append(c, u) \/ d = WriteAt(c, p, u))

LEMMA Written ==
    ASSUME NEW c \in Seq(Nat), NEW u \in Nat, NEW p \in Nat, NEW d, Lengthens(c, p, u, d)
    PROVE  /\ d \in Seq(Nat) /\ Len(d) = p /\ d[p] = u
           /\ \A i \in 1..Len(c) : d[i] = c[i]
<1> USE DEF Lengthens
<1>1. CASE d = Append(c, u)
  BY <1>1
<1>2. CASE d = WriteAt(c, p, u)
  <2>1. Larger(Len(c), p) = p
    BY DEF Larger
  <2>2. d = [i \in 1..p |-> IF i = p THEN u ELSE IF i <= Len(c) THEN c[i] ELSE 0]
    BY <1>2, <2>1 DEF WriteAt
  <2>3. \A i \in 1..p : d[i] \in Nat
    BY <2>2
  <2> QED
    BY <2>2, <2>3
<1> QED
  BY <1>1, <1>2

LEMMA WriteContent ==
    ASSUME ContentInv, NEW r \in Puts, Write(r)
    PROVE  ContentInv'
<1>1. /\ StreamTyped(put[r]) /\ Sound(put[r]) /\ Uploading(put[r])
      /\ put[r].pc = "write"
  BY Counters
  DEF ContentInv, FilesTyped, AllSound, Write, At, Streaming, GatePcs, Uploading
<1> PICK k : k = put[r].key
  OBVIOUS
<1> PICK i : i = put[r].inode
  OBVIOUS
<1> PICK c : c = content[i]
  OBVIOUS
<1> PICK u : u = put[r].unit
  OBVIOUS
<1> PICK n : n = put[r].written
  OBVIOUS
<1> PICK state : state = [put[r] EXCEPT !.written = @ + 1, !.unit = 0, !.pc = "stream"]
  OBVIOUS
<1>2. k \in Keys /\ Size[k] \in Nat /\ n \in Nat /\ u \in Nat
  BY <1>1, SizesAssumption DEF StreamTyped
<1>3. /\ put[r].next = "write" /\ i \in Inodes /\ temp[k] = i /\ i # NoFile
      /\ Len(c) = n /\ (put[r].good => InOrderUnits(c) /\ u = n + 1)
      /\ k \in SaveKeys => put[r].good /\ n < Size[k]
  BY <1>1
  DEF StreamTyped, Sound, NextFits, KnowsFile, HasFile, KnowsUnit, Holding, SaveInOrder,
      Streaming
<1>4. c \in Seq(Nat)
  BY <1>3 DEF ContentInv, FilesTyped
<1>5. PICK p \in Nat, d \in Seq(Nat) :
        /\ p = n + 1 /\ Len(d) = p /\ d[p] = u /\ \A j \in 1..Len(c) : d[j] = c[j]
        /\ content' = [content EXCEPT ![i] = d]
  <2>1. PICK p \in Nat : p = n + 1
    BY <1>2
  <2>2. PICK d : d = IF put[r].appends THEN Append(c, u) ELSE WriteAt(c, p, u)
    OBVIOUS
  <2>3. content' = [content EXCEPT ![i] = d]
    BY <2>1, <2>2 DEF Write
  <2>4. Lengthens(c, p, u, d)
    BY <1>3, <2>1, <2>2 DEF Lengthens
  <2>5. d \in Seq(Nat) /\ Len(d) = p /\ d[p] = u /\ \A j \in 1..Len(c) : d[j] = c[j]
    BY <1>2, <1>4, <2>4, Written
  <2> QED
    BY <2>1, <2>3, <2>5
<1>6. put[r].good => InOrderUnits(d)
  <2>1. SUFFICES ASSUME put[r].good, NEW j \in 1..Len(d)
                 PROVE  d[j] = j
    BY DEF InOrderUnits
  <2>2. j \in 1..Len(c) \/ j = p
    BY <1>2, <1>3, <1>5
  <2>3. CASE j \in 1..Len(c)
    BY <1>3, <1>5, <2>1, <2>3 DEF InOrderUnits
  <2>4. CASE j = p
    BY <1>3, <1>5, <2>1, <2>4
  <2> QED
    BY <2>2, <2>3, <2>4
<1>7. /\ Goto(r, state) /\ UNCHANGED <<temp, final, granted>>
      /\ content' = [content EXCEPT ![i] = d]
  BY <1>5 DEF Write, rows
<1>8. /\ content' \in [Inodes -> Seq(Nat)] /\ content'[i] = d
      /\ \A x \in Inodes \ {i} : content'[x] = content[x]
  BY <1>3, <1>5, <1>7 DEF ContentInv, FilesTyped
<1>9. /\ DOMAIN state = StreamFields /\ state = [f \in StreamFields |-> state[f]]
      /\ \A f \in FileFields \ {"written", "unit"} : state[f] = put[r][f]
      /\ state.pc = "stream" /\ state.written = n + 1 /\ state.unit = 0
  BY <1>1 DEF StreamTyped, StreamFields, FileFields
<1>10. \A j \in Keys : final[j] # NoFile => final[j] # i
  BY <1>2, <1>3 DEF ContentInv, FilesApart
<1>11. \A j \in Keys \ {k} : temp[j] # NoFile => temp[j] # i
  BY <1>2, <1>3 DEF ContentInv, FilesApart
<1>12. FilesApart'
  BY <1>7 DEF ContentInv, FilesApart
<1>13. OthersKept(k)
  BY <1>7, <1>8, <1>10, <1>11 DEF OthersKept, ContentInv, FilesTyped
<1>14. WholeAfter(k)
  BY <1>2, <1>7, <1>8, <1>10 DEF WholeAfter, ContentInv, FilesTyped, FinalIsWhole
<1>15. BegunAfter(k)
  BY <1>2, <1>3, <1>5, <1>6, <1>7, <1>8 DEF BegunAfter
<1>16. SoundAfter(state)
  BY <1>1, <1>2, <1>3, <1>5, <1>6, <1>7, <1>8, <1>9
  DEF SoundAfter, Sound, NextFits, KnowsFile, HasFile, KnowsUnit, Holding, SaveInOrder,
      FileFields, Streaming, GatePcs
<1>17. PutTyped(state) /\ state.key = k
  <2>1. \A f \in {"key", "next", "good", "inode"} : state[f] = put[r][f]
    BY <1>9 DEF FileFields
  <2>2. state.written \in Nat /\ state.unit \in Nat /\ state.pc \in Streaming
    BY <1>2, <1>9 DEF Streaming
  <2> QED
    BY <1>1, <1>9, <2>1, <2>2 DEF PutTyped, StreamTyped
<1>18. FilesAfter
  BY <1>7, <1>8 DEF FilesAfter, ContentInv, FilesTyped
<1> QED
  BY <1>1, <1>7, <1>12, <1>13, <1>14, <1>15, <1>16, <1>17, <1>18, FileStep

LEMMA RenameContent ==
    ASSUME ContentInv, NEW r \in Puts, Rename(r)
    PROVE  ContentInv'
<1>1. /\ RenameTyped(put[r]) /\ Sound(put[r]) /\ Uploading(put[r])
      /\ put[r].pc = "rename"
  BY Counters
  DEF ContentInv, FilesTyped, AllSound, Rename, At, Streaming, GatePcs, Uploading
<1> PICK k : k = put[r].key
  OBVIOUS
<1> PICK state : state = [put[r] EXCEPT !.pc = "finalize"]
  OBVIOUS
<1>2. k \in Keys /\ temp[k] # NoFile /\ temp[k] \in Inodes /\ content[temp[k]] = Whole(k)
  BY <1>1 DEF RenameTyped, Sound, ContentInv, FilesTyped
<1>3. /\ final' = [final EXCEPT ![k] = temp[k]] /\ temp' = [temp EXCEPT ![k] = NoFile]
      /\ Goto(r, state) /\ UNCHANGED <<content, granted>>
  BY <1>2 DEF Rename, DropTemp, Step, rows
<1>4. /\ temp' \in [Keys -> Inodes \cup {NoFile}] /\ temp'[k] = NoFile
      /\ final' \in [Keys -> Inodes \cup {NoFile}] /\ final'[k] = temp[k]
      /\ \A j \in Keys \ {k} : temp'[j] = temp[j] /\ final'[j] = final[j]
  BY <1>2, <1>3 DEF ContentInv, FilesTyped
<1>5. FilesApart'
  BY <1>2, <1>4 DEF ContentInv, FilesApart
<1>6. OthersKept(k) /\ FilesAfter /\ BegunAfter(k)
  BY <1>3, <1>4 DEF OthersKept, FilesAfter, BegunAfter, ContentInv, FilesTyped
<1>7. WholeAfter(k)
  BY <1>2, <1>3, <1>4 DEF WholeAfter
<1>8. state = [pc |-> "finalize", key |-> k, written |-> put[r].written,
               counted |-> put[r].counted]
  BY <1>1 DEF RenameTyped
<1>9. PutTyped(state) /\ state.key = k /\ SoundAfter(state)
  BY <1>2, <1>8 DEF PutTyped, RenameTyped, SoundAfter, Sound, Streaming, GatePcs
<1> QED
  BY <1>1, <1>3, <1>5, <1>6, <1>7, <1>9, FileStep

LEMMA StepContentInv ==
    ASSUME ~SameKeyTwice, ContentInv, [Next]_vars
    PROVE  ContentInv'
<1>1. CASE UNCHANGED vars
  BY <1>1, SameFiles DEF vars, files
<1>2. CASE \E k \in BlobKeys : RegisterBlob(k)
  BY <1>2, SameFiles DEF RegisterBlob
<1>3. ASSUME NEW r \in Puts,
             \/ \E k \in Keys : Presign(r, k)
             \/ \E k \in Keys, chunked \in BOOLEAN :
                 \E offset \in 0..Size[k] : Open(r, k, offset, chunked)
             \/ PresignInsert(r)
      PROVE  ContentInv'
  BY <1>3, PresignContent, OpenContent, PresignInsertContent
<1>4. ASSUME NEW r \in Puts,
             OpenBudget(r) \/ QuotaReread(r) \/ Publish(r) \/ Judge(r) \/ JudgeRefuses(r)
      PROVE  ContentInv'
  BY <1>4, OpenBudgetContent, QuotaRereadContent, PublishContent, JudgeContent, RefusedContent
<1>5. ASSUME NEW r \in Puts,
             \/ Create(r) \/ CheckOffset(r) \/ OpenAppend(r)
             \/ Receive(r) \/ ReceiveTooMuch(r) \/ Write(r)
      PROVE  ContentInv'
  BY <1>5, CreateContent, CheckOffsetContent, OpenAppendContent, ReceiveContent,
     RefusedContent, WriteContent
<1>6. ASSUME NEW r \in Puts,
             EndChunk(r) \/ EndBody(r) \/ Rename(r) \/ Finalize(r) \/ RequestFails(r)
      PROVE  ContentInv'
  BY <1>6, EndsContent, EndBodyContent, RenameContent
<1> QED
  BY <1>1, <1>2, <1>3, <1>4, <1>5, <1>6 DEF Next

(* While PUTs of one key do not overlap, the file under a key is the whole *)
(* object, whatever chunks are lost, repeated or out of order, whichever   *)
(* keys are sent at once, and wherever requests die (upload_file).         *)
THEOREM FilesAreWhole ==
    ASSUME ~SameKeyTwice
    PROVE  Spec => []FinalIsWhole
<1>1. ContentInv => FinalIsWhole
  BY DEF ContentInv
<1> QED
  BY InitContentInv, StepContentInv, <1>1, PTL DEF Spec

(* Only a rename changes what is under a key, and then to the whole.       *)
LEMMA OnlyRenameStores ==
    ASSUME ContentInv, ContentInv', [Next]_vars
    PROVE  \/ UNCHANGED [k \in Keys |-> Object(k)]
           \/ \E k \in Keys : [j \in Keys |-> Object(j)]'
                              = [[j \in Keys |-> Object(j)] EXCEPT ![k] = "whole"]
<1>1. CASE UNCHANGED final
  BY <1>1 DEF Object, ContentInv, FinalIsWhole, Whole
<1>2. ASSUME NEW r \in Puts, Rename(r)
      PROVE  \/ UNCHANGED final
             \/ \E k \in Keys : [j \in Keys |-> Object(j)]'
                                = [[j \in Keys |-> Object(j)] EXCEPT ![k] = "whole"]
  <2>1. SUFFICES ASSUME final' # final
                 PROVE  \E k \in Keys : [j \in Keys |-> Object(j)]'
                                       = [[j \in Keys |-> Object(j)] EXCEPT ![k] = "whole"]
    OBVIOUS
  <2> PICK k : k = put[r].key
    OBVIOUS
  <2>2. final' = [final EXCEPT ![k] = temp[k]] /\ temp[k] # NoFile
    BY <1>2, <2>1 DEF Rename
  <2>3. k \in Keys
    BY <2>1, <2>2 DEF ContentInv, FilesTyped
  <2>4. final'[k] = temp[k] /\ \A j \in Keys \ {k} : final'[j] = final[j]
    BY <2>2, <2>3 DEF ContentInv, FilesTyped
  <2>5. Object(k)' = "whole"
    BY <2>2, <2>3, <2>4 DEF Object, ContentInv, FinalIsWhole, Whole
  <2>6. \A j \in Keys \ {k} : Object(j)' = Object(j)
    BY <2>3, <2>4 DEF Object, ContentInv, FinalIsWhole, Whole
  <2>7. [j \in Keys |-> Object(j)]' = [[j \in Keys |-> Object(j)] EXCEPT ![k] = "whole"]
    BY <2>3, <2>5, <2>6
  <2> QED
    BY <2>3, <2>7
<1>3. CASE UNCHANGED vars
  BY <1>1, <1>3 DEF vars
<1>4. CASE Next
  <2>1. CASE \E k \in BlobKeys : RegisterBlob(k)
    BY <1>1, <2>1 DEF RegisterBlob, files
  <2>2. ASSUME NEW r \in Puts, NEW k \in Keys, Presign(r, k) PROVE UNCHANGED final
    BY <2>2 DEF Presign, files
  <2>3. ASSUME NEW r \in Puts, NEW k \in Keys, NEW chunked \in BOOLEAN,
               NEW offset \in 0..Size[k], Open(r, k, offset, chunked)
        PROVE  UNCHANGED final
    BY <2>3 DEF Open, files
  <2>4. ASSUME NEW r \in Puts,
               \/ PresignInsert(r) \/ OpenBudget(r) \/ QuotaReread(r) \/ Publish(r)
               \/ Judge(r) \/ JudgeRefuses(r)
        PROVE  UNCHANGED final
    BY <2>4 DEF PresignInsert, OpenBudget, QuotaReread, Publish, Judge, JudgeRefuses, files
  <2>5. ASSUME NEW r \in Puts,
               \/ Create(r) \/ CheckOffset(r) \/ OpenAppend(r) \/ Receive(r)
               \/ ReceiveTooMuch(r) \/ Write(r)
        PROVE  UNCHANGED final
    BY <2>5 DEF Create, CheckOffset, OpenAppend, Receive, ReceiveTooMuch, Write, files
  <2>6. ASSUME NEW r \in Puts, EndChunk(r) \/ EndBody(r) \/ Finalize(r) \/ RequestFails(r)
        PROVE  UNCHANGED final
    BY <2>6 DEF EndChunk, EndBody, Finalize, RequestFails, files
  <2>7. UNCHANGED final \/ (\E r \in Puts : Rename(r)) \/ \E k \in BlobKeys : RegisterBlob(k)
    BY <1>4, <2>2, <2>3, <2>4, <2>5, <2>6 DEF Next
  <2> QED
    BY <1>1, <1>2, <2>1, <2>7
<1> QED
  BY <1>3, <1>4

(* PUT implements the object store the other components rely on: an object *)
(* is absent until an upload of it finishes, then there and whole for good *)
(* (while PUTs of one key do not overlap).                                 *)
THEOREM PutImplementsStore ==
    ASSUME ~SameKeyTwice
    PROVE  Spec => ImplementsStore
<1>1. Init => Store!Init
  BY DEF Init, Store!Init, Object
<1>2. ContentInv /\ ContentInv' /\ [Next]_vars => [Store!Next]_([k \in Keys |-> Object(k)])
  <2>1. ContentInv /\ ContentInv' /\ [Next]_vars
        => \/ UNCHANGED [k \in Keys |-> Object(k)]
           \/ \E k \in Keys : Store!Land(k)
    BY OnlyRenameStores DEF Store!Land
  <2> QED
    BY <2>1 DEF Store!Next
<1> QED
  BY InitContentInv, StepContentInv, <1>1, <1>2, PTL DEF Spec, ImplementsStore, Store!Spec

-----------------------------------------------------------------------------
(***************************************************************************)
(* The quota.  What a save takes of it is the lesser of its sizes, as soon *)
(* as a check has found room for that much and for as long as it may land; *)
(* what a body takes is what it has been let write beyond its row.         *)
(***************************************************************************)
Least(k) == IF Size[k] < Declared[k] THEN Size[k] ELSE Declared[k]

Judged == {"create", "append", "stream", "write"}

Backed(q) ==
    \/ q.pc \in {"rename", "finalize"}
    \/ q.pc \in Streaming \ {"budget"} /\ q.budget >= Least(q.key)

Secured(k) ==
    final[k] # NoFile \/ \E r \in Puts : Backed(put[r]) /\ put[r].key = k

Backing == [k \in SaveKeys |-> IF Secured(k) THEN Least(k) ELSE 0]

Weight(q) ==
    IF q.pc = "write" THEN Max0(q.written + 1 - q.counted)
    ELSE IF \/ q.pc \in {"create", "append", "stream", "rename", "finalize"}
            \/ q.pc \in {"reread", "publish", "judge"} /\ q.next = "write"
    THEN Max0(q.written - q.counted)
    ELSE 0

Weights == [r \in Puts |-> Weight(put[r])]

RowsKnown ==
    /\ row \in [Keys -> Nat]
    /\ inFlight \in [Keys -> Nat \cup {Absent}]
    /\ \A k \in SaveKeys :
        /\ final[k] # NoFile => k \in granted
        /\ k \in granted => row[k] >= Least(k)

(* What a request knows of its row and was granted of the quota.           *)
KnowsRow(q) ==
    /\ q.pc \in Streaming =>
        /\ q.counted \in Nat /\ q.counted <= row[q.key]
        /\ q.key \in SaveKeys => q.counted = row[q.key]
        /\ q.budget \in 0..Quota
    /\ q.pc \in Judged => q.budget >= Least(q.key)
    /\ q.pc \in {"rename", "finalize"} =>
        /\ q.written \in Nat /\ q.counted \in Nat
        /\ q.key \in SaveKeys => q.written = Size[q.key]
    /\ q.pc = "finalize" => final[q.key] # NoFile

(* What the registry shows the others of it.                               *)
Published(q) ==
    Uploading(q) =>
        /\ Weight(q) <= Max0(inFlight[q.key])
        /\ q.pc = "judge" => inFlight[q.key] = Max0(Footprint(q) - q.counted)

BackingFits == Total(Backing, SaveKeys) <= Quota
WeightsFit == Total(Weights, Puts) <= Quota

QuotaInv ==
    /\ RowsKnown
    /\ \A r \in Puts : KnowsRow(put[r]) /\ Published(put[r])
    /\ BackingFits /\ WeightsFit

(* Totals are taken over finite sets.                                      *)
FiniteInstance == IsFiniteSet(Keys) /\ IsFiniteSet(Puts)

LEMMA LeastNat ==
    \A k \in Keys : Least(k) \in Nat /\ Least(k) <= Size[k] /\ Least(k) <= Declared[k]
  BY SizesAssumption DEF Least

LEMMA Max0Nat == \A n \in Int : Max0(n) \in Nat /\ Max0(n) >= n /\ (n <= 0 => Max0(n) = 0)
                                /\ (n >= 0 => Max0(n) = n)
  BY DEF Max0

LEMMA WeightNat ==
    ASSUME NEW q, PutTyped(q), KnowsRow(q)
    PROVE  Weight(q) \in Nat
  <1>1. CASE q.pc \in Streaming
    <2>1. q.written \in Nat /\ q.counted \in Nat
      BY <1>1, Counters DEF KnowsRow, StreamTyped
    <2> QED
      BY <2>1 DEF Weight, Max0
  <1>2. CASE q.pc \in {"rename", "finalize"}
    <2>1. q.written \in Nat /\ q.counted \in Nat
      BY <1>2 DEF KnowsRow
    <2> QED
      BY <2>1 DEF Weight, Max0
  <1>3. CASE q.pc \notin Streaming \cup {"rename", "finalize"}
    BY <1>3 DEF Weight, Streaming, GatePcs
  <1> QED
    BY <1>1, <1>2, <1>3

LEMMA BackingKept ==
    ASSUME FiniteInstance, BackingFits, \A k \in SaveKeys : Secured(k)' => Secured(k)
    PROVE  BackingFits'
  <1> PICK b : b = Backing
    OBVIOUS
  <1> PICK c : c = Backing'
    OBVIOUS
  <1>1. \A k \in SaveKeys : b[k] \in Nat /\ c[k] \in Nat /\ c[k] <= b[k]
    <2> SUFFICES ASSUME NEW k \in SaveKeys PROVE b[k] \in Nat /\ c[k] \in Nat /\ c[k] <= b[k]
      OBVIOUS
    <2>1. Least(k) \in Nat
      BY LeastNat DEF Keys
    <2>2. b[k] = (IF Secured(k) THEN Least(k) ELSE 0)
      BY DEF Backing
    <2>3. c[k] = (IF Secured(k)' THEN Least(k) ELSE 0)
      BY DEF Backing, Least
    <2> QED
      BY <2>1, <2>2, <2>3
  <1>2. IsFiniteSet(SaveKeys)
    BY FS_Subset DEF FiniteInstance, Keys
  <1>3. Total(c, SaveKeys) <= Total(b, SaveKeys) /\ Total(c, SaveKeys) \in Nat
        /\ Total(b, SaveKeys) \in Nat
    BY <1>1, <1>2, TotalMonotone, TotalNat
  <1>4. Total(b, SaveKeys) <= Quota
    BY DEF BackingFits
  <1>5. Total(c, SaveKeys) <= Quota
    BY <1>3, <1>4, BoundsAssumption
  <1> QED
    BY <1>5 DEF BackingFits

LEMMA UsedIs ==
    ASSUME RowsKnown
    PROVE  UsedBytes = Total(row, Keys)
  BY DEF RowsKnown, UsedBytes, SumFunction, Total

LEMMA OthersIs ==
    ASSUME NEW k, NEW h, h = [j \in Keys |-> IF j = k THEN 0 ELSE Max0(inFlight[j])]
    PROVE  Others(k) = Total(h, Keys)
  BY DEF Others, SumFunction, Total

LEMMA UsedNat ==
    ASSUME FiniteInstance, RowsKnown, NEW k \in Keys
    PROVE  UsedBytes \in Nat /\ row[k] \in Nat /\ row[k] <= UsedBytes
  <1>1. \A j \in Keys : row[j] \in Nat
    BY DEF RowsKnown
  <1>2. IsFiniteSet(Keys) /\ IsFiniteSet(Keys \ {k})
    BY FS_Subset DEF FiniteInstance
  <1>3. Total(row, Keys) = row[k] + Total(row, Keys \ {k}) /\ Total(row, Keys \ {k}) \in Nat
    BY <1>1, <1>2, TotalSplit, TotalNat
  <1> QED
    BY <1>1, <1>3, UsedIs

LEMMA FreeIs ==
    ASSUME FiniteInstance, RowsKnown, NEW k \in Keys, NEW counted \in Nat, counted <= row[k]
    PROVE  /\ Free(k, counted) \in 0..Quota
           /\ \A n \in Nat \ {0} : Free(k, counted) >= n => UsedBytes - counted + n <= Quota
  BY UsedNat, BoundsAssumption DEF Free, Max0

LEMMA SecuredGranted ==
    ASSUME ContentInv, RowsKnown, NEW k \in SaveKeys, Secured(k)
    PROVE  k \in granted /\ row[k] >= Least(k)
  <1>1. ASSUME NEW r \in Puts, Backed(put[r]), put[r].key = k PROVE k \in granted
    BY <1>1 DEF Backed, ContentInv, OneWriter, Uploading, Streaming, GatePcs
  <1> QED
    BY <1>1 DEF Secured, RowsKnown

(* A check that finds room for a save finds it beside the rows of the      *)
(* others, which are not less than what the others have secured.           *)
LEMMA BackingGrows ==
    ASSUME FiniteInstance, ContentInv, RowsKnown, NEW k \in SaveKeys,
           \A j \in SaveKeys \ {k} : Secured(j)' => Secured(j),
           UsedBytes - row[k] + Least(k) <= Quota
    PROVE  BackingFits'
  <1> PICK c : c = Backing'
    OBVIOUS
  <1> DEFINE h == [j \in Keys |-> IF j = k THEN Least(k) ELSE row[j]]
  <1>0. k \in Keys /\ SaveKeys \in SUBSET Keys
    BY DEF Keys
  <1>1. \A j \in Keys : row[j] \in Nat /\ h[j] \in Nat
    BY LeastNat DEF RowsKnown
  <1>2. \A j \in SaveKeys : c[j] \in Nat /\ c[j] <= h[j]
    <2> SUFFICES ASSUME NEW j \in SaveKeys PROVE c[j] \in Nat /\ c[j] <= h[j]
      OBVIOUS
    <2>1. Least(j) \in Nat /\ j \in Keys
      BY LeastNat DEF Keys
    <2>2. c[j] = (IF Secured(j)' THEN Least(j) ELSE 0)
      BY DEF Backing, Least
    <2>3. CASE j = k
      BY <2>1, <2>2, <2>3
    <2>4. CASE j # k /\ Secured(j)
      <3>1. row[j] >= Least(j)
        BY <2>4, SecuredGranted
      <3> QED
        BY <1>1, <2>1, <2>2, <2>4, <3>1
    <2>5. CASE j # k /\ ~Secured(j)
      BY <1>1, <2>1, <2>2, <2>5
    <2> QED
      BY <2>3, <2>4, <2>5
  <1>3. h[k] = Least(k) /\ \A j \in Keys \ {k} : h[j] = row[j]
    BY <1>0
  <1> HIDE DEF h
  <1>4. IsFiniteSet(Keys) /\ IsFiniteSet(SaveKeys) /\ IsFiniteSet(Keys \ {k})
    BY <1>0, FS_Subset DEF FiniteInstance
  <1>5. Total(c, SaveKeys) <= Total(h, SaveKeys) /\ Total(h, SaveKeys) <= Total(h, Keys)
    <2>1. \A j \in SaveKeys : c[j] \in Nat /\ h[j] \in Nat /\ c[j] <= h[j]
      BY <1>0, <1>1, <1>2
    <2>2. Total(c, SaveKeys) <= Total(h, SaveKeys)
      BY <1>4, <2>1, TotalMonotone
    <2> QED
      BY <1>0, <1>1, <1>4, <2>2, TotalPart
  <1>6. Total(h, Keys) = Least(k) + Total(h, Keys \ {k})
    BY <1>0, <1>1, <1>3, <1>4, TotalSplit
  <1>7. Total(h, Keys \ {k}) = Total(row, Keys \ {k})
    BY <1>1, <1>3, <1>4, TotalSame
  <1>8. UsedBytes = row[k] + Total(row, Keys \ {k})
    BY <1>0, <1>1, <1>4, TotalSplit, UsedIs
  <1>9. /\ Total(c, SaveKeys) \in Nat /\ Total(h, SaveKeys) \in Nat /\ Total(h, Keys) \in Nat
        /\ Total(row, Keys \ {k}) \in Nat /\ row[k] \in Nat /\ Least(k) \in Nat
    BY <1>0, <1>1, <1>2, <1>4, TotalNat, LeastNat
  <1>10. Total(c, SaveKeys) <= Quota
    BY <1>5, <1>6, <1>7, <1>8, <1>9, BoundsAssumption
  <1> QED
    BY <1>10 DEF BackingFits

(* No step of a request secures anything but by a check or a rename.       *)
LEMMA SecuredStays ==
    ASSUME FilesTyped, NEW r \in Puts, NEW state, Goto(r, state),
           \A j \in SaveKeys : final'[j] # NoFile => Secured(j),
           Backed(state) => Backed(put[r]) /\ state.key = put[r].key
    PROVE  \A j \in SaveKeys : Secured(j)' => Secured(j)
  <1> SUFFICES ASSUME NEW j \in SaveKeys, Secured(j)' PROVE Secured(j)
    OBVIOUS
  <1>1. CASE final'[j] # NoFile
    BY <1>1
  <1>2. CASE \E x \in Puts : Backed(put'[x]) /\ put'[x].key = j
    <2>1. PICK x \in Puts : Backed(put'[x]) /\ put'[x].key = j
      BY <1>2
    <2>2. CASE x = r
      <3>1. put'[x] = state
        BY <2>2, GotoPuts
      <3>2. Backed(put[r]) /\ put[r].key = j
        BY <2>1, <3>1
      <3> QED
        BY <3>2 DEF Secured
    <2>3. CASE x # r
      BY <2>1, <2>3, GotoPuts DEF Secured
    <2> QED
      BY <2>2, <2>3
  <1> QED
    BY <1>1, <1>2 DEF Secured, Backed, Least

LEMMA WeightsAfter ==
    ASSUME FilesTyped, NEW r \in Puts, NEW state, Goto(r, state)
    PROVE  \A x \in Puts : Weights'[x] = IF x = r THEN Weight(state) ELSE Weights[x]
  <1>1. \A x \in Puts : Weights'[x] = Weight(put'[x])
    BY DEF Weights, Weight, Max0
  <1>2. \A x \in Puts : Weights[x] = Weight(put[x])
    BY DEF Weights
  <1> QED
    BY <1>1, <1>2, GotoPuts

LEMMA WeightsKept ==
    ASSUME FiniteInstance, WeightsFit, FilesTyped, \A x \in Puts : KnowsRow(put[x]),
           NEW r \in Puts, NEW state, Goto(r, state),
           Weight(state) \in Nat, Weight(state) <= Weight(put[r])
    PROVE  WeightsFit'
  <1> PICK w : w = Weights
    OBVIOUS
  <1> PICK v : v = Weights'
    OBVIOUS
  <1>1. \A x \in Puts : w[x] \in Nat /\ v[x] \in Nat /\ v[x] <= w[x]
    <2>1. \A x \in Puts : w[x] = Weight(put[x])
      BY DEF Weights
    <2>2. \A x \in Puts : v[x] = IF x = r THEN Weight(state) ELSE w[x]
      BY WeightsAfter
    <2>3. \A x \in Puts : w[x] \in Nat
      BY <2>1, WeightNat DEF FilesTyped
    <2>4. v[r] \in Nat /\ v[r] <= w[r]
      BY <2>1, <2>2
    <2>5. \A x \in Puts \ {r} : v[x] = w[x]
      BY <2>2
    <2> QED
      BY <2>3, <2>4, <2>5
  <1>2. Total(v, Puts) <= Total(w, Puts) /\ Total(v, Puts) \in Nat /\ Total(w, Puts) \in Nat
    BY <1>1, TotalMonotone, TotalNat DEF FiniteInstance
  <1>3. Total(v, Puts) <= Quota
    BY <1>2, BoundsAssumption DEF WeightsFit
  <1> QED
    BY <1>3 DEF WeightsFit

(* A judged request has room beside what the registry shows of the others, *)
(* which is not less than what they weigh.                                 *)
LEMMA JudgedFits ==
    ASSUME FiniteInstance, ContentInv, QuotaInv, NEW r \in Puts, NEW state, Goto(r, state),
           Uploading(put[r]), NEW n \in Nat, n + Others(put[r].key) <= Quota,
           Weight(state) \in Nat, Weight(state) <= n
    PROVE  WeightsFit'
  <1> PICK v : v = Weights'
    OBVIOUS
  <1> PICK k : k = put[r].key
    OBVIOUS
  <1> DEFINE Rest == Puts \ {r}
             Up == {x \in Rest : Uploading(put[x])}
             key == [x \in Up |-> put[x].key]
             h == [j \in Keys |-> IF j = k THEN 0 ELSE Max0(inFlight[j])]
  <1>1. \A x \in Rest : v[x] = Weight(put[x]) /\ v[x] \in Nat
    <2>1. \A x \in Rest : v[x] = Weight(put[x])
      BY WeightsAfter DEF Weights, ContentInv
    <2> QED
      BY <2>1, WeightNat DEF ContentInv, FilesTyped, QuotaInv
  <1>2. v[r] = Weight(state)
    BY WeightsAfter DEF ContentInv
  <1>3. \A x \in Rest \ Up : v[x] = 0
    BY <1>1 DEF Uploading, Weight
  <1>4. \A x \in Up :
          /\ key[x] \in Keys /\ key[x] # k
          /\ v[x] <= Max0(inFlight[key[x]])
    <2> SUFFICES ASSUME NEW x \in Up
                 PROVE  /\ put[x].key \in Keys /\ put[x].key # k
                        /\ v[x] <= Max0(inFlight[put[x].key])
      OBVIOUS
    <2>1. put[x].key \in Keys
      BY Counters DEF ContentInv, FilesTyped
    <2>2. put[x].key # k
      BY DEF ContentInv, OneWriter, Uploading
    <2>3. v[x] <= Max0(inFlight[put[x].key])
      BY <1>1 DEF QuotaInv, Published
    <2> QED
      BY <2>1, <2>2, <2>3
  <1>5. \A x, y \in Up : key[x] = key[y] => x = y
    BY DEF ContentInv, OneWriter, Uploading
  <1>6. \A j \in Keys : h[j] \in Nat /\ (j # k => h[j] = Max0(inFlight[j]))
    BY Max0Nat DEF QuotaInv, RowsKnown, Absent
  <1>7. Others(k) = Total(h, Keys)
    BY OthersIs
  <1>8. IsFiniteSet(Keys) /\ IsFiniteSet(Puts) /\ IsFiniteSet(Rest) /\ IsFiniteSet(Up)
    BY FS_Subset DEF FiniteInstance
  <1>9. Up \in SUBSET Rest /\ \A x \in Puts : v[x] \in Nat
    BY <1>1, <1>2
  <1> HIDE DEF Up, key, h
  <1>10. Total(v, Up) <= Total(h, Keys)
    <2>1. \A x \in Up : key[x] \in Keys /\ v[x] \in Nat /\ v[x] <= h[key[x]]
      BY <1>1, <1>4, <1>6, <1>9
    <2> QED
      BY <1>5, <1>6, <1>8, <2>1, TotalInto
  <1>11. Total(v, Rest) = Total(v, Up)
    <2> HIDE DEF Rest
    <2> QED
      BY <1>1, <1>3, <1>8, <1>9, TotalWithoutZeros
  <1>12. Total(v, Puts) = v[r] + Total(v, Rest)
    BY <1>8, <1>9, TotalSplit
  <1>13. /\ Total(v, Up) \in Nat /\ Total(h, Keys) \in Nat /\ Total(v, Rest) \in Nat
    BY <1>1, <1>6, <1>8, <1>9, TotalNat
  <1>14. Total(v, Puts) <= Quota
    BY <1>2, <1>7, <1>10, <1>11, <1>12, <1>13, BoundsAssumption
  <1> QED
    BY <1>14 DEF WeightsFit

Elsewhere(r, k) == \A x \in Puts \ {r} : Uploading(put[x]) => put[x].key \in Keys \ {k}

(* What a step does to the rows and the registry, it does at one key.      *)
OnlyAt(k) ==
    \A j \in Keys \ {k} :
        /\ row'[j] = row[j] /\ inFlight'[j] = inFlight[j] /\ final'[j] = final[j]
        /\ j \in granted' => j \in granted
RowAfter(k) ==
    /\ row' \in [Keys -> Nat] /\ inFlight' \in [Keys -> Nat \cup {Absent}]
    /\ k \in SaveKeys =>
        /\ final'[k] # NoFile => k \in granted'
        /\ k \in granted' => row'[k] >= Least(k)
KnowsAfter(q) == KnowsRow(q)' /\ Published(q)'

LEMMA QuotaStep ==
    ASSUME FilesTyped, QuotaInv, NEW r \in Puts, NEW state, Goto(r, state),
           NEW k \in Keys, Elsewhere(r, k), OnlyAt(k), RowAfter(k), granted \subseteq granted',
           KnowsAfter(state), BackingFits', WeightsFit'
    PROVE  QuotaInv'
  <1>1. RowsKnown'
    <2> SUFFICES ASSUME NEW j \in SaveKeys
                 PROVE  /\ final'[j] # NoFile => j \in granted'
                        /\ j \in granted' => row'[j] >= Least(j)
      BY DEF RowsKnown, RowAfter, Least
    <2>1. CASE j = k
      BY <2>1 DEF RowAfter
    <2>2. CASE j # k
      BY <2>2 DEF OnlyAt, QuotaInv, RowsKnown, Keys
    <2> QED
      BY <2>1, <2>2
  <1>2. ASSUME NEW x \in Puts PROVE KnowsRow(put[x])' /\ Published(put[x])'
    <2>1. CASE x = r
      <3>1. put'[x] = state
        BY <2>1, GotoPuts
      <3> QED
        BY <3>1 DEF KnowsAfter
    <2>2. CASE x # r /\ ~Uploading(put[x])
      <3> PICK q : q = put[x]
        OBVIOUS
      <3>1. put'[x] = q
        BY <2>2, GotoPuts
      <3>2. KnowsRow(q)' /\ Published(q)'
        BY <2>2 DEF KnowsRow, Published, Uploading, Streaming, GatePcs, Judged
      <3> QED
        BY <3>1, <3>2
    <2>3. CASE x # r /\ Uploading(put[x])
      <3> PICK q : q = put[x]
        OBVIOUS
      <3>1. put'[x] = q
        BY <2>3, GotoPuts
      <3>2. q.key \in Keys \ {k}
        BY <2>3 DEF Elsewhere
      <3>3. row'[q.key] = row[q.key] /\ inFlight'[q.key] = inFlight[q.key]
            /\ final'[q.key] = final[q.key]
        BY <3>2 DEF OnlyAt
      <3>4. KnowsRow(q)'
        BY <3>3 DEF KnowsRow, QuotaInv, Least
      <3>5. Published(q)'
        BY <3>3 DEF Published, QuotaInv, Weight, Max0, Footprint, Measured, Larger
      <3> QED
        BY <3>1, <3>4, <3>5
    <2> QED
      BY <2>1, <2>2, <2>3
  <1> QED
    BY <1>1, <1>2 DEF QuotaInv

LEMMA Apart ==
    ASSUME ContentInv, NEW r \in Puts, put[r].pc # "idle"
    PROVE  Elsewhere(r, put[r].key)
  BY Counters DEF Elsewhere, ContentInv, FilesTyped, OneWriter

(* The registry changes at most at k.                                      *)
Registers(k) ==
    UNCHANGED inFlight
    \/ \E n \in Nat \cup {Absent} : inFlight' = [inFlight EXCEPT ![k] = n]

LEMMA RegistersAt ==
    ASSUME RowsKnown, NEW k \in Keys, Registers(k)
    PROVE  /\ inFlight' \in [Keys -> Nat \cup {Absent}]
           /\ \A j \in Keys \ {k} : inFlight'[j] = inFlight[j]
  BY DEF RowsKnown, Registers

(* A step that leaves the rows alone, secures nothing and adds no weight.  *)
LEMMA QuietStep ==
    ASSUME FiniteInstance, ContentInv, QuotaInv, NEW r \in Puts, NEW state, Goto(r, state),
           Uploading(put[r]), Registers(put[r].key), UNCHANGED <<row, granted, final>>,
           PutTyped(state), KnowsAfter(state),
           Backed(state) => Backed(put[r]) /\ state.key = put[r].key,
           Weight(state) <= Weight(put[r])
    PROVE  QuotaInv'
  <1> PICK k : k = put[r].key
    OBVIOUS
  <1>1. k \in Keys /\ FilesTyped /\ RowsKnown
    BY Counters DEF ContentInv, FilesTyped, QuotaInv
  <1>2. Elsewhere(r, k)
    BY Apart DEF Uploading
  <1>3. OnlyAt(k) /\ RowAfter(k)
    BY <1>1, RegistersAt DEF OnlyAt, RowAfter, RowsKnown
  <1>4. KnowsRow(state)
    BY DEF KnowsAfter, KnowsRow, Least
  <1>5. Weight(state) \in Nat
    BY <1>4, WeightNat
  <1>6. BackingFits'
    <2>1. \A j \in SaveKeys : final'[j] # NoFile => Secured(j)
      BY DEF Secured
    <2> QED
      BY <1>1, <2>1, SecuredStays, BackingKept DEF QuotaInv
  <1>7. WeightsFit'
    BY <1>1, <1>5, WeightsKept DEF QuotaInv
  <1> QED
    BY <1>1, <1>2, <1>3, <1>6, <1>7, QuotaStep

LEMMA EndedStep ==
    ASSUME FiniteInstance, ContentInv, QuotaInv, NEW r \in Puts, Goto(r, Idle),
           Uploading(put[r]), Registers(put[r].key), UNCHANGED <<row, granted, final>>
    PROVE  QuotaInv'
  <1> PICK state : state = Idle
    OBVIOUS
  <1>1. state.pc = "idle" /\ PutTyped(state)
    BY DEF Idle, PutTyped
  <1>2. KnowsAfter(state)
    BY <1>1 DEF KnowsAfter, KnowsRow, Published, Uploading, Streaming, GatePcs, Judged
  <1>3. ~Backed(state) /\ Weight(state) = 0
    BY <1>1 DEF Backed, Weight, Streaming, GatePcs
  <1>4. Weight(put[r]) \in Nat
    BY WeightNat DEF ContentInv, FilesTyped, QuotaInv
  <1> QED
    BY <1>1, <1>2, <1>3, <1>4, QuietStep

(* Of a streaming request: what its step keeps and what it knows.          *)
QuotaFields == {"key", "chunked", "counted", "written", "next", "budget"}

LEMMA StreamKnows ==
    ASSUME ContentInv, QuotaInv, NEW r \in Puts, put[r].pc \in Streaming
    PROVE  /\ StreamTyped(put[r]) /\ Sound(put[r]) /\ Uploading(put[r])
           /\ KnowsRow(put[r]) /\ Published(put[r])
           /\ put[r].counted \in Nat /\ put[r].written \in Nat /\ put[r].budget \in Nat
           /\ put[r].key \in Keys
  <1>1. StreamTyped(put[r]) /\ Sound(put[r]) /\ Uploading(put[r])
    BY Counters, UploadingPcs DEF ContentInv, FilesTyped, AllSound
  <1>2. KnowsRow(put[r]) /\ Published(put[r])
    BY DEF QuotaInv
  <1> QED
    BY <1>1, <1>2, BoundsAssumption DEF KnowsRow, StreamTyped

LEMMA FootprintIs ==
    ASSUME NEW q, q.written \in Nat, q.key \in Keys
    PROVE  /\ Footprint(q) \in Nat /\ Footprint(q) >= Measured(q)
           /\ Footprint(q) >= Least(q.key)
           /\ Measured(q) = IF q.next = "write" THEN q.written + 1 ELSE q.written
  <1>1. /\ Least(q.key) \in Nat /\ Least(q.key) <= Size[q.key] /\ Least(q.key) <= Declared[q.key]
        /\ Size[q.key] \in Nat /\ Declared[q.key] \in Nat
    BY LeastNat, SizesAssumption
  <1>2. Measured(q) \in Nat /\ Measured(q) = IF q.next = "write" THEN q.written + 1 ELSE q.written
    BY DEF Measured
  <1> QED
    BY <1>1, <1>2 DEF Footprint, Larger

(* A step to another counter.                                              *)
LEMMA Keeps ==
    ASSUME NEW q, NEW p, q.written \in Nat, q.counted \in Nat,
           \A f \in QuotaFields : p[f] = q[f]
    PROVE  /\ p.key = q.key /\ p.counted = q.counted /\ p.written = q.written
           /\ p.next = q.next /\ p.budget = q.budget
           /\ Footprint(p) = Footprint(q)
  BY DEF QuotaFields, Footprint, Measured

LEMMA PublishQuota ==
    ASSUME FiniteInstance, ContentInv, QuotaInv, NEW r \in Puts, Publish(r)
    PROVE  QuotaInv'
  <1> PICK q : q = put[r]
    OBVIOUS
  <1>0. PICK state : state = [q EXCEPT !.pc = "judge"]
    OBVIOUS
  <1> PICK n : n = Max0(Footprint(q) - q.counted)
    OBVIOUS
  <1>1. q.pc = "publish" /\ q.pc \in Streaming
    BY DEF Publish, At, Streaming, GatePcs
  <1>2. /\ StreamTyped(q) /\ KnowsRow(q) /\ Published(q) /\ Uploading(q)
        /\ q.counted \in Nat /\ q.written \in Nat /\ q.budget \in Nat /\ q.key \in Keys
    BY <1>1, StreamKnows
  <1>3. /\ Goto(r, state) /\ UNCHANGED <<row, granted, final>>
        /\ inFlight' = [inFlight EXCEPT ![q.key] = n]
    BY <1>0 DEF Publish, Step, rows, files
  <1>4. /\ state.pc = "judge" /\ \A f \in QuotaFields : state[f] = q[f]
        /\ state.key = q.key /\ state.counted = q.counted /\ state.written = q.written
        /\ state.next = q.next /\ state.budget = q.budget /\ Footprint(state) = Footprint(q)
    <2>1. state.pc = "judge" /\ \A f \in QuotaFields : state[f] = q[f]
      BY <1>0, <1>2 DEF StreamTyped, StreamFields, QuotaFields
    <2> QED
      BY <1>2, <2>1, Keeps
  <1>5. PutTyped(state)
    BY <1>0, <1>2 DEF PutTyped, StreamTyped, StreamFields, Streaming, GatePcs
  <1>6. n \in Nat /\ q.written - q.counted <= n
    BY <1>2, FootprintIs DEF Max0
  <1>7. inFlight'[q.key] = n
    BY <1>2, <1>3 DEF QuotaInv, RowsKnown
  <1>8. Weight(state) = Weight(q) /\ Weight(state) <= n /\ Weight(q) \in Nat
    BY <1>1, <1>2, <1>4, <1>6 DEF Weight, Max0
  <1>9. KnowsAfter(state)
    <2>1. KnowsRow(state)'
      BY <1>1, <1>2, <1>3, <1>4 DEF KnowsRow, Streaming, GatePcs, Judged
    <2>2. Published(state)'
      <3>1. Weight(state) <= Max0(inFlight'[state.key])
        BY <1>4, <1>6, <1>7, <1>8 DEF Max0
      <3>2. inFlight'[state.key] = Max0(Footprint(state) - state.counted)
        BY <1>4, <1>7
      <3> QED
        BY <3>1, <3>2 DEF Published, Weight, Max0, Footprint, Measured, Larger
    <2> QED
      BY <2>1, <2>2 DEF KnowsAfter
  <1>10. Backed(state) => Backed(q)
    BY <1>1, <1>4 DEF Backed, Streaming, GatePcs
  <1>11. Registers(q.key)
    BY <1>3, <1>6 DEF Registers
  <1> QED
    BY <1>2, <1>3, <1>4, <1>5, <1>8, <1>9, <1>10, <1>11, QuietStep

LEMMA OthersNat ==
    ASSUME FiniteInstance, RowsKnown, NEW k
    PROVE  Others(k) \in Nat
  <1> PICK h : h = [j \in Keys |-> IF j = k THEN 0 ELSE Max0(inFlight[j])]
    OBVIOUS
  <1>1. \A j \in Keys : h[j] \in Nat
    BY DEF RowsKnown, Max0, Absent
  <1>2. Total(h, Keys) \in Nat
    BY <1>1, TotalNat DEF FiniteInstance
  <1> QED
    BY <1>2, OthersIs

LEMMA JudgeQuota ==
    ASSUME FiniteInstance, ContentInv, QuotaInv, NEW r \in Puts, Judge(r)
    PROVE  QuotaInv'
  <1> PICK q : q = put[r]
    OBVIOUS
  <1>0. PICK state : state = [q EXCEPT !.pc = q.next]
    OBVIOUS
  <1> PICK n : n = Footprint(q)
    OBVIOUS
  <1>1. q.pc = "judge" /\ q.pc \in Streaming
    BY DEF Judge, At, Streaming, GatePcs
  <1>2. /\ StreamTyped(q) /\ KnowsRow(q) /\ Published(q) /\ Uploading(q)
        /\ q.counted \in Nat /\ q.written \in Nat /\ q.budget \in Nat /\ q.key \in Keys
        /\ q.next \in {"create", "write"}
    BY <1>1, StreamKnows DEF StreamTyped
  <1>3. /\ Goto(r, state) /\ UNCHANGED <<row, granted, final, inFlight>>
        /\ n <= q.budget - Others(q.key)
    BY <1>0 DEF Judge, Step, rows, files, Fits
  <1>4. /\ state.pc = q.next
        /\ state.key = q.key /\ state.counted = q.counted /\ state.written = q.written
        /\ state.budget = q.budget
    BY <1>0, <1>2 DEF StreamTyped, StreamFields
  <1>5. n \in Nat /\ n >= Measured(q) /\ n >= Least(q.key) /\ Least(q.key) \in Nat
        /\ Measured(q) = IF q.next = "write" THEN q.written + 1 ELSE q.written
    BY <1>2, FootprintIs, LeastNat
  <1>6. Others(q.key) \in Nat /\ q.budget \in 0..Quota /\ RowsKnown /\ Quota \in Nat
    BY <1>1, <1>2, OthersNat, BoundsAssumption DEF QuotaInv, KnowsRow
  <1>7. n <= q.budget /\ n + Others(q.key) <= Quota
    BY <1>2, <1>3, <1>5, <1>6
  <1>8. /\ Weight(state) \in Nat /\ Weight(state) <= n
        /\ Weight(state) <= Max0(n - q.counted)
    BY <1>2, <1>4, <1>5 DEF Weight, Max0
  <1>9. WeightsFit'
    BY <1>2, <1>3, <1>5, <1>7, <1>8, JudgedFits
  <1>10. BackingFits'
    <2>1. Backed(q)
      BY <1>1, <1>2, <1>5, <1>6, <1>7 DEF Backed
    <2>2. \A j \in SaveKeys : final'[j] # NoFile => Secured(j)
      BY <1>3 DEF Secured
    <2> QED
      BY <1>3, <1>4, <2>1, <2>2, SecuredStays, BackingKept DEF QuotaInv, ContentInv
  <1>11. KnowsAfter(state)
    <2>1. KnowsRow(state)'
      BY <1>1, <1>2, <1>3, <1>4, <1>5, <1>7 DEF KnowsRow, Streaming, GatePcs, Judged, Least
    <2>2. inFlight'[q.key] = Max0(n - q.counted)
      BY <1>1, <1>2, <1>3 DEF Published
    <2>3. Weight(state) <= Max0(inFlight'[state.key])
      BY <1>2, <1>4, <1>5, <1>8, <2>2 DEF Max0
    <2>4. Published(state)'
      BY <1>2, <1>4, <2>3 DEF Published, Weight, Max0
    <2> QED
      BY <2>1, <2>4 DEF KnowsAfter
  <1>12. Elsewhere(r, q.key)
    BY <1>2, Apart DEF Uploading
  <1>13. OnlyAt(q.key) /\ RowAfter(q.key)
    BY <1>3, <1>6 DEF OnlyAt, RowAfter, RowsKnown
  <1> QED
    BY <1>2, <1>3, <1>9, <1>10, <1>11, <1>12, <1>13, QuotaStep DEF ContentInv

(* What is left of the quota is read, before the first check or between    *)
(* two.                                                                    *)
LEMMA BudgetQuota ==
    ASSUME FiniteInstance, Quota > 0, ContentInv, QuotaInv, NEW r \in Puts,
           OpenBudget(r) \/ QuotaReread(r)
    PROVE  QuotaInv'
  <1> PICK q : q = put[r]
    OBVIOUS
  <1> PICK n : n = Free(q.key, q.counted)
    OBVIOUS
  <1>1. q.pc \in {"budget", "reread"} /\ q.pc \in Streaming
    BY DEF OpenBudget, QuotaReread, At, Streaming, GatePcs
  <1>2. /\ StreamTyped(q) /\ Sound(q) /\ KnowsRow(q) /\ Published(q) /\ Uploading(q)
        /\ q.counted \in Nat /\ q.written \in Nat /\ q.budget \in Nat /\ q.key \in Keys
    BY <1>1, StreamKnows
  <1>a. FirstCheck(q) \in {"reread", "publish"} /\ Quota # 0
    BY DEF FirstCheck
  <1>0. PICK state :
          /\ Goto(r, state)
          /\ \/ state = [q EXCEPT !.budget = n, !.pc = FirstCheck(q)]
             \/ state = [q EXCEPT !.budget = n, !.readAt = Measured(q), !.pc = "publish"]
    BY <1>a DEF OpenBudget, QuotaReread
  <1>3. UNCHANGED <<row, granted, final, inFlight>>
    BY DEF OpenBudget, QuotaReread, rows, files
  <1>4. /\ state.pc \in {"reread", "publish"} /\ state.budget = n
        /\ state.key = q.key /\ state.counted = q.counted /\ state.written = q.written
        /\ state.next = q.next
    <2>1. CASE state = [q EXCEPT !.budget = n, !.pc = FirstCheck(q)]
      BY <1>a, <1>2, <2>1 DEF StreamTyped, StreamFields
    <2>2. CASE state = [q EXCEPT !.budget = n, !.readAt = Measured(q), !.pc = "publish"]
      BY <1>2, <2>2 DEF StreamTyped, StreamFields
    <2> QED
      BY <1>0, <2>1, <2>2
  <1>5. RowsKnown /\ n \in 0..Quota /\ q.counted <= row[q.key]
        /\ \A m \in Nat \ {0} : n >= m => UsedBytes - q.counted + m <= Quota
    BY <1>1, <1>2, FreeIs DEF QuotaInv, KnowsRow
  <1>6. Weight(state) <= Weight(q) /\ Weight(state) \in Nat
    <2>1. q.pc = "budget" => q.next = "create"
      BY <1>1, <1>2 DEF Sound, NextFits
    <2> QED
      BY <1>1, <1>2, <1>4, <2>1 DEF Weight, Max0
  <1>7. WeightsFit'
    BY <1>0, <1>6, WeightsKept DEF QuotaInv, ContentInv
  <1>8. \A j \in SaveKeys \ {q.key} : Secured(j)' => Secured(j)
    <2> SUFFICES ASSUME NEW j \in SaveKeys \ {q.key}, Secured(j)' PROVE Secured(j)
      OBVIOUS
    <2>1. CASE \E x \in Puts : Backed(put'[x]) /\ put'[x].key = j
      <3>1. PICK x \in Puts : Backed(put'[x]) /\ put'[x].key = j
        BY <2>1
      <3>2. put'[r] = state /\ \A y \in Puts \ {r} : put'[y] = put[y]
        BY <1>0, GotoPuts DEF ContentInv
      <3>3. x # r
        BY <1>4, <3>1, <3>2
      <3> QED
        BY <3>1, <3>2, <3>3 DEF Secured
    <2> QED
      BY <1>3, <2>1 DEF Secured, Backed, Least
  <1>9. BackingFits'
    <2>1. CASE q.key \in SaveKeys /\ n >= Least(q.key)
      <3>1. Least(q.key) \in Nat \ {0}
        BY <1>2, SizesAssumption DEF Least
      <3>2. UsedBytes - row[q.key] + Least(q.key) <= Quota
        BY <1>1, <1>2, <1>5, <2>1, <3>1 DEF KnowsRow
      <3> QED
        BY <1>5, <1>8, <2>1, <3>2, BackingGrows
    <2>2. CASE ~(q.key \in SaveKeys /\ n >= Least(q.key))
      <3>1. ASSUME q.key \in SaveKeys PROVE ~Backed(state)
        BY <1>4, <1>5, <2>2, <3>1, LeastNat, BoundsAssumption DEF Backed, Keys
      <3>2. \A j \in SaveKeys : final'[j] # NoFile => Secured(j)
        BY <1>3 DEF Secured
      <3>3. CASE q.key \in SaveKeys
        BY <1>0, <3>1, <3>2, <3>3, SecuredStays, BackingKept DEF QuotaInv, ContentInv
      <3>4. CASE q.key \notin SaveKeys
        BY <1>8, <3>4, BackingKept DEF QuotaInv
      <3> QED
        BY <3>3, <3>4
    <2> QED
      BY <2>1, <2>2
  <1>10. KnowsAfter(state)
    <2>1. KnowsRow(state)'
      BY <1>1, <1>2, <1>3, <1>4, <1>5 DEF KnowsRow, Streaming, GatePcs, Judged
    <2>2. Max0(inFlight[q.key]) \in Nat /\ Weight(q) <= Max0(inFlight[q.key])
      BY <1>2, <1>5 DEF RowsKnown, Max0, Absent, Published
    <2>3. Weight(q) \in Nat
      BY <1>2, WeightNat DEF PutTyped
    <2>4. Weight(state) <= Max0(inFlight[state.key])
      BY <1>4, <1>6, <2>2, <2>3
    <2>5. Published(state)'
      BY <1>3, <1>4, <2>4 DEF Published, Weight, Max0
    <2> QED
      BY <2>1, <2>5 DEF KnowsAfter
  <1>11. Elsewhere(r, q.key)
    BY <1>2, Apart DEF Uploading
  <1>12. OnlyAt(q.key) /\ RowAfter(q.key)
    BY <1>3, <1>5 DEF OnlyAt, RowAfter, RowsKnown
  <1> QED
    BY <1>0, <1>2, <1>3, <1>7, <1>9, <1>10, <1>11, <1>12, QuotaStep DEF ContentInv

(* The steps of the temporary file and of the body.  None secures          *)
(* anything or adds weight: the check has counted the unit in hand.        *)
LEMMA BodyQuota ==
    ASSUME FiniteInstance, ContentInv, ContentInv', QuotaInv, NEW r \in Puts, NEW state,
           Goto(r, state), put[r].pc \in Streaming,
           UNCHANGED <<row, granted, final, inFlight>>,
           state.pc \in Streaming, state.pc # "judge", state.key = put[r].key,
           state.counted = put[r].counted, state.budget = put[r].budget,
           state.pc \in Judged => put[r].pc \in Judged, put[r].pc # "budget",
           Weight(state) <= Weight(put[r])
    PROVE  QuotaInv'
  <1> PICK q : q = put[r]
    OBVIOUS
  <1>1. /\ KnowsRow(q) /\ Published(q) /\ Uploading(q) /\ StreamTyped(q)
        /\ q.key \in Keys
    BY StreamKnows
  <1>2. PutTyped(state)
    <2>1. put'[r] = state
      BY GotoPuts DEF ContentInv
    <2> QED
      BY <2>1 DEF ContentInv, FilesTyped, PutTyped, StreamTyped, RenameTyped
  <1>3. KnowsRow(state)
    BY <1>1 DEF KnowsRow, Streaming, GatePcs, Judged
  <1>4. Weight(state) \in Nat /\ Weight(q) \in Nat
    BY <1>1, <1>2, <1>3, WeightNat DEF PutTyped
  <1>5. KnowsAfter(state)
    <2>1. KnowsRow(state)'
      BY <1>3 DEF KnowsRow, Least
    <2>2. Weight(q) <= Max0(inFlight[q.key]) /\ Max0(inFlight[q.key]) \in Nat
      BY <1>1 DEF Published, QuotaInv, RowsKnown, Max0, Absent
    <2>3. Weight(state) <= Max0(inFlight[state.key])
      BY <1>4, <2>2
    <2>4. Published(state)'
      BY <2>3 DEF Published, Weight, Max0
    <2> QED
      BY <2>1, <2>4 DEF KnowsAfter
  <1>6. Backed(state) => Backed(q)
    BY DEF Backed, Streaming, GatePcs
  <1> QED
    BY <1>1, <1>2, <1>4, <1>5, <1>6, QuietStep DEF Registers

LEMMA OpenFileQuota ==
    ASSUME FiniteInstance, ContentInv, ContentInv', QuotaInv, NEW r \in Puts,
           Create(r) \/ CheckOffset(r) \/ OpenAppend(r)
    PROVE  QuotaInv'
  <1> PICK q : q = put[r]
    OBVIOUS
  <1>1. q.pc \in {"create", "append"} /\ q.pc \in Streaming
    BY DEF Create, CheckOffset, OpenAppend, At, Streaming, GatePcs
  <1>2. StreamTyped(q) /\ Uploading(q) /\ q.counted \in Nat /\ q.written \in Nat
    BY <1>1, StreamKnows
  <1>3. UNCHANGED <<row, granted, final>>
    BY DEF Create, CheckOffset, OpenAppend, rows, files
  <1>4. CASE Goto(r, Idle) /\ Release(q.key)
    <2>1. Registers(q.key)
      BY <1>4 DEF Registers, Release
    <2> QED
      BY <1>2, <1>3, <1>4, <2>1, EndedStep
  <1>5. CASE \E i : UNCHANGED inFlight
                    /\ Goto(r, [q EXCEPT !.inode = i, !.next = "write", !.pc = "stream"])
    <2>1. PICK i : Goto(r, [q EXCEPT !.inode = i, !.next = "write", !.pc = "stream"])
      BY <1>5
    <2>2. PICK state : state = [q EXCEPT !.inode = i, !.next = "write", !.pc = "stream"]
      OBVIOUS
    <2>3. /\ state.pc = "stream" /\ state.key = q.key /\ state.counted = q.counted
          /\ state.written = q.written /\ state.budget = q.budget
      BY <1>2, <2>2 DEF StreamTyped, StreamFields
    <2>4. Weight(state) <= Weight(q)
      BY <1>1, <1>2, <2>3 DEF Weight, Max0
    <2>5. state.pc \in Streaming /\ q.pc \in Judged
      BY <1>1, <2>3 DEF Streaming, Judged
    <2> QED
      BY <1>1, <1>3, <1>5, <2>1, <2>2, <2>3, <2>4, <2>5, BodyQuota
  <1>6. CASE UNCHANGED inFlight /\ Goto(r, [q EXCEPT !.pc = "append"])
    <2>2. PICK state : state = [q EXCEPT !.pc = "append"]
      OBVIOUS
    <2>3. /\ state.pc = "append" /\ state.key = q.key /\ state.counted = q.counted
          /\ state.written = q.written /\ state.budget = q.budget
      BY <1>2, <2>2 DEF StreamTyped, StreamFields
    <2>4. Weight(state) <= Weight(q)
      BY <1>1, <1>2, <2>3 DEF Weight, Max0
    <2>5. state.pc \in Streaming /\ q.pc \in Judged
      BY <1>1, <2>3 DEF Streaming, GatePcs, Judged
    <2> QED
      BY <1>1, <1>3, <1>6, <2>2, <2>3, <2>4, <2>5, BodyQuota
  <1>7. CASE Create(r)
    BY <1>5, <1>7 DEF Create
  <1>8. CASE CheckOffset(r)
    BY <1>4, <1>6, <1>8 DEF CheckOffset, Step, Ends
  <1>9. CASE OpenAppend(r)
    BY <1>4, <1>5, <1>9 DEF OpenAppend, Ends
  <1> QED
    BY <1>7, <1>8, <1>9

LEMMA ReceiveQuota ==
    ASSUME FiniteInstance, Quota > 0, ContentInv, ContentInv', QuotaInv, NEW r \in Puts, Receive(r)
    PROVE  QuotaInv'
  <1> PICK q : q = put[r]
    OBVIOUS
  <1>1. q.pc = "stream" /\ q.pc \in Streaming
    BY DEF Receive, At, Streaming
  <1>2. StreamTyped(q) /\ Uploading(q) /\ q.counted \in Nat /\ q.written \in Nat
    BY <1>1, StreamKnows
  <1>3. UNCHANGED <<row, granted, final, inFlight>>
    BY DEF Receive, rows, files
  <1>4. PICK u :
          LET p == [q EXCEPT !.unit = u, !.good = @ /\ u = q.written + 1] IN
          Goto(r, [p EXCEPT !.pc = IF Quota = 0 THEN "write" ELSE FirstCheck(p)])
    BY DEF Receive
  <1>5. PICK p : p = [q EXCEPT !.unit = u, !.good = @ /\ u = q.written + 1]
    OBVIOUS
  <1>6. PICK pc : pc = FirstCheck(p)
    OBVIOUS
  <1>7. pc \in {"reread", "publish"} /\ Quota # 0
    BY <1>6 DEF FirstCheck
  <1>8. PICK state : state = [p EXCEPT !.pc = pc]
    OBVIOUS
  <1>9. Goto(r, state)
    BY <1>4, <1>5, <1>6, <1>7, <1>8
  <1>10. /\ DOMAIN p = StreamFields /\ p.key = q.key /\ p.counted = q.counted
         /\ p.written = q.written /\ p.budget = q.budget
    BY <1>2, <1>5 DEF StreamTyped, StreamFields
  <1>11. /\ state.pc = pc /\ state.key = q.key /\ state.counted = q.counted
         /\ state.written = q.written /\ state.budget = q.budget
    BY <1>8, <1>10 DEF StreamFields
  <1>12. Weight(state) <= Weight(q)
    BY <1>1, <1>2, <1>7, <1>11 DEF Weight, Max0
  <1>13. state.pc \in Streaming /\ state.pc \notin Judged /\ state.pc # "judge"
    BY <1>7, <1>11 DEF Streaming, GatePcs, Judged
  <1> QED
    BY <1>1, <1>3, <1>9, <1>11, <1>12, <1>13, BodyQuota

LEMMA WriteQuota ==
    ASSUME FiniteInstance, ContentInv, ContentInv', QuotaInv, NEW r \in Puts, Write(r)
    PROVE  QuotaInv'
  <1> PICK q : q = put[r]
    OBVIOUS
  <1>1. q.pc = "write" /\ q.pc \in Streaming
    BY DEF Write, At, Streaming
  <1>2. StreamTyped(q) /\ Uploading(q) /\ q.counted \in Nat /\ q.written \in Nat
    BY <1>1, StreamKnows
  <1>3. UNCHANGED <<row, granted, final, inFlight>>
    BY DEF Write, rows
  <1>4. PICK state : state = [q EXCEPT !.written = @ + 1, !.unit = 0, !.pc = "stream"]
    OBVIOUS
  <1>5. Goto(r, state)
    BY <1>4 DEF Write
  <1>6. /\ state.pc = "stream" /\ state.key = q.key /\ state.counted = q.counted
        /\ state.written = q.written + 1 /\ state.budget = q.budget
    BY <1>2, <1>4 DEF StreamTyped, StreamFields
  <1>7. Weight(state) <= Weight(q)
    BY <1>1, <1>2, <1>6 DEF Weight, Max0
  <1>8. state.pc \in Streaming /\ q.pc \in Judged
    BY <1>1, <1>6 DEF Streaming, Judged
  <1> QED
    BY <1>1, <1>3, <1>5, <1>6, <1>7, <1>8, BodyQuota

(* A complete body keeps what it has, whatever is left of the quota.       *)
LEMMA EndBodyQuota ==
    ASSUME FiniteInstance, ContentInv, ContentInv', QuotaInv, NEW r \in Puts, EndBody(r)
    PROVE  QuotaInv'
  <1> PICK q : q = put[r]
    OBVIOUS
  <1>1. q.pc = "stream" /\ q.pc \in Streaming
    BY DEF EndBody, At, Streaming
  <1>2. /\ StreamTyped(q) /\ Sound(q) /\ KnowsRow(q) /\ Published(q) /\ Uploading(q)
        /\ q.counted \in Nat /\ q.written \in Nat /\ q.budget \in Nat /\ q.key \in Keys
    BY <1>1, StreamKnows
  <1>3. UNCHANGED <<row, granted, final>>
    BY DEF EndBody, rows
  <1>4. CASE Verified(q)
    <2>1. PICK state : state = [pc |-> "rename", key |-> q.key, written |-> q.written,
                                counted |-> q.counted]
      OBVIOUS
    <2>2. Goto(r, state) /\ UNCHANGED inFlight
      BY <1>4, <2>1 DEF EndBody
    <2>3. PutTyped(state)
      BY <1>2, <2>1 DEF PutTyped, RenameTyped
    <2>4. q.key \in SaveKeys => q.written = Size[q.key]
      BY <1>1, <1>2, KeysAssumption, SizesAssumption
      DEF Sound, SaveInOrder, Streaming, EndBody, BodyMayEnd, Unfinished
    <2>5. KnowsRow(state)'
      BY <1>2, <2>1, <2>4 DEF KnowsRow, Streaming, GatePcs, Judged
    <2>6. Weight(state) = Weight(q) /\ Weight(q) \in Nat
      BY <1>1, <1>2, <2>1 DEF Weight, Max0
    <2>7. Weight(state) <= Max0(inFlight[state.key])
      BY <1>2, <2>1, <2>6 DEF Published
    <2>8. Published(state)'
      BY <2>1, <2>2, <2>7 DEF Published, Weight, Max0
    <2>9. Backed(q) /\ state.key = q.key
      BY <1>1, <1>2, <2>1 DEF Backed, KnowsRow, Judged
    <2> QED
      BY <1>2, <1>3, <2>2, <2>3, <2>5, <2>6, <2>8, <2>9, QuietStep DEF KnowsAfter, Registers
  <1>5. CASE ~Verified(q)
    <2>1. Goto(r, Idle) /\ Registers(q.key)
      BY <1>5 DEF EndBody, Ends, Release, Registers
    <2> QED
      BY <1>2, <1>3, <2>1, EndedStep
  <1> QED
    BY <1>4, <1>5

LEMMA RenameQuota ==
    ASSUME FiniteInstance, ContentInv, QuotaInv, NEW r \in Puts, Rename(r)
    PROVE  QuotaInv'
  <1> PICK q : q = put[r]
    OBVIOUS
  <1>1. q.pc = "rename" /\ Uploading(q) /\ RenameTyped(q) /\ FilesTyped
    BY Counters, UploadingPcs DEF Rename, At, ContentInv, FilesTyped
  <1>2. KnowsRow(q) /\ Published(q) /\ RowsKnown /\ q.key \in Keys
        /\ q.counted \in Nat /\ q.written \in Nat
    BY <1>1 DEF QuotaInv, KnowsRow, RenameTyped
  <1>3. UNCHANGED <<row, granted>>
    BY DEF Rename, rows
  <1>4. CASE temp[q.key] # NoFile
    <2>1. PICK state : state = [q EXCEPT !.pc = "finalize"]
      OBVIOUS
    <2>2. /\ Goto(r, state) /\ UNCHANGED inFlight
          /\ final' = [final EXCEPT ![q.key] = temp[q.key]]
      BY <1>4, <2>1 DEF Rename, Step
    <2>3. /\ state.pc = "finalize" /\ state.key = q.key /\ state.written = q.written
          /\ state.counted = q.counted
      BY <1>1, <2>1 DEF RenameTyped
    <2>4. final'[q.key] # NoFile /\ \A j \in Keys \ {q.key} : final'[j] = final[j]
      BY <1>1, <1>2, <1>4, <2>2 DEF FilesTyped
    <2>5. KnowsRow(state)'
      BY <1>1, <1>2, <2>3, <2>4 DEF KnowsRow, Streaming, GatePcs, Judged
    <2>6. Weight(state) = Weight(q) /\ Weight(q) \in Nat
      BY <1>1, <1>2, <2>3 DEF Weight, Max0
    <2>7. Published(state)'
      <3>1. Weight(state) <= Max0(inFlight[state.key])
        BY <1>1, <1>2, <2>3, <2>6 DEF Published
      <3> QED
        BY <2>2, <2>3, <3>1 DEF Published, Weight, Max0
    <2>8. WeightsFit'
      BY <1>1, <2>2, <2>6, WeightsKept DEF QuotaInv
    <2>9. BackingFits'
      <3>1. Backed(q)
        BY <1>1 DEF Backed
      <3>2. ASSUME NEW j \in SaveKeys, final'[j] # NoFile PROVE Secured(j)
        <4>1. CASE j = q.key
          BY <3>1, <4>1 DEF Secured
        <4>2. CASE j # q.key
          BY <2>4, <3>2, <4>2 DEF Secured, Keys
        <4> QED
          BY <4>1, <4>2
      <3> QED
        BY <1>1, <2>2, <2>3, <3>1, <3>2, SecuredStays, BackingKept DEF QuotaInv
    <2>10. q.key \in granted
      BY <1>1 DEF ContentInv, OneWriter
    <2>11. OnlyAt(q.key) /\ RowAfter(q.key)
      BY <1>2, <1>3, <2>2, <2>4, <2>10 DEF OnlyAt, RowAfter, RowsKnown
    <2>12. Elsewhere(r, q.key)
      BY <1>1, Apart DEF Uploading
    <2> QED
      BY <1>1, <1>2, <1>3, <2>2, <2>5, <2>7, <2>8, <2>9, <2>11, <2>12, QuotaStep DEF KnowsAfter
  <1>5. CASE ~(temp[q.key] # NoFile)
    <2>1. Goto(r, Idle) /\ Registers(q.key) /\ UNCHANGED final
      BY <1>5 DEF Rename, Ends, Release, Registers
    <2> QED
      BY <1>1, <1>3, <2>1, EndedStep
  <1> QED
    BY <1>4, <1>5

(* A request that comes to weigh nothing and to secure nothing.            *)
LEMMA LightStep ==
    ASSUME FiniteInstance, ContentInv, QuotaInv, NEW r \in Puts, NEW state, Goto(r, state),
           UNCHANGED final, ~Backed(state), Weight(state) = 0
    PROVE  BackingFits' /\ WeightsFit'
  <1>1. FilesTyped
    BY DEF ContentInv
  <1>2. \A j \in SaveKeys : final'[j] # NoFile => Secured(j)
    BY DEF Secured
  <1>3. BackingFits'
    BY <1>1, <1>2, SecuredStays, BackingKept DEF QuotaInv
  <1>4. Weight(put[r]) \in Nat
    BY WeightNat DEF ContentInv, FilesTyped, QuotaInv
  <1>5. WeightsFit'
    BY <1>1, <1>4, WeightsKept DEF QuotaInv
  <1> QED
    BY <1>3, <1>5

(* One that is no upload knows nothing.                                    *)
LEMMA Stateless ==
    ASSUME NEW state, state.pc \in {"idle", "presign"}
    PROVE  KnowsAfter(state) /\ ~Backed(state) /\ Weight(state) = 0
  <1>1. KnowsAfter(state)
    BY DEF KnowsAfter, KnowsRow, Published, Uploading, Streaming, GatePcs, Judged
  <1>2. ~Backed(state)
    BY DEF Backed, Streaming, GatePcs
  <1>3. Weight(state) = 0
    BY DEF Weight
  <1> QED
    BY <1>1, <1>2, <1>3

(* The row of a save that has landed learns its real size.                 *)
LEMMA FinalizeQuota ==
    ASSUME FiniteInstance, ContentInv, QuotaInv, NEW r \in Puts, Finalize(r)
    PROVE  QuotaInv'
  <1> PICK q : q = put[r]
    OBVIOUS
  <1> PICK k : k = q.key
    OBVIOUS
  <1> PICK state : state = Idle
    OBVIOUS
  <1>1. q.pc = "finalize" /\ Uploading(q) /\ RenameTyped(q) /\ FilesTyped
    BY Counters, UploadingPcs DEF Finalize, At, ContentInv, FilesTyped
  <1>2. /\ KnowsRow(q) /\ RowsKnown /\ k \in Keys /\ q.written \in Nat
        /\ k \in SaveKeys => q.written = Size[k]
    BY <1>1 DEF QuotaInv, KnowsRow, RenameTyped
  <1>3. /\ Goto(r, state) /\ UNCHANGED <<final, granted>>
        /\ inFlight' = [inFlight EXCEPT ![k] = Absent]
        /\ row' = IF k \in SaveKeys THEN [row EXCEPT ![k] = q.written] ELSE row
    BY DEF Finalize, Ends, Release, files
  <1>4. KnowsAfter(state) /\ ~Backed(state) /\ Weight(state) = 0
    BY Stateless DEF Idle
  <1>5. BackingFits' /\ WeightsFit'
    BY <1>3, <1>4, LightStep
  <1>6. k \in SaveKeys => row'[k] = Size[k]
    BY <1>2, <1>3 DEF RowsKnown
  <1>7. OnlyAt(k)
    BY <1>2, <1>3 DEF OnlyAt, RowsKnown
  <1>8. RowAfter(k)
    <2>1. row' \in [Keys -> Nat] /\ inFlight' \in [Keys -> Nat \cup {Absent}]
      BY <1>2, <1>3 DEF RowsKnown
    <2>2. k \in SaveKeys => row'[k] >= Least(k)
      BY <1>2, <1>6, LeastNat, SizesAssumption
    <2> QED
      BY <1>2, <1>3, <2>1, <2>2 DEF RowAfter, RowsKnown
  <1>9. Elsewhere(r, k)
    BY <1>1, Apart DEF Uploading
  <1> QED
    BY <1>1, <1>2, <1>3, <1>4, <1>5, <1>7, <1>8, <1>9, QuotaStep

(* The row of a presign is there with the declared size.                   *)
LEMMA PresignInsertQuota ==
    ASSUME FiniteInstance, ContentInv, QuotaInv, NEW r \in Puts, PresignInsert(r)
    PROVE  QuotaInv'
  <1> PICK q : q = put[r]
    OBVIOUS
  <1> PICK k : k = q.key
    OBVIOUS
  <1> PICK state : state = Idle
    OBVIOUS
  <1>1. q.pc = "presign" /\ k \in Keys /\ FilesTyped /\ RowsKnown
    BY DEF PresignInsert, At, ContentInv, FilesTyped, PutTyped, QuotaInv, Idle, StreamTyped,
           RenameTyped, Streaming, GatePcs
  <1>2. /\ Goto(r, state) /\ UNCHANGED <<final, inFlight>>
        /\ granted' = granted \cup {k}
        /\ row' = IF k \in SaveKeys THEN [row EXCEPT ![k] = Declared[k]] ELSE row
    BY DEF PresignInsert, files
  <1>3. KnowsAfter(state) /\ ~Backed(state) /\ Weight(state) = 0
    BY Stateless DEF Idle
  <1>4. BackingFits' /\ WeightsFit'
    BY <1>2, <1>3, LightStep
  <1>5. Declared[k] \in Nat /\ Least(k) <= Declared[k]
    BY <1>1, LeastNat, SizesAssumption
  <1>6. OnlyAt(k)
    BY <1>1, <1>2 DEF OnlyAt, RowsKnown
  <1>7. RowAfter(k)
    <2>1. row' \in [Keys -> Nat] /\ inFlight' \in [Keys -> Nat \cup {Absent}]
      BY <1>1, <1>2, <1>5 DEF RowsKnown
    <2>2. k \in SaveKeys => row'[k] >= Least(k)
      BY <1>1, <1>2, <1>5, LeastNat DEF RowsKnown
    <2> QED
      BY <1>2, <2>1, <2>2 DEF RowAfter
  <1>8. Elsewhere(r, k)
    BY <1>1, Apart
  <1>9. granted \subseteq granted'
    BY <1>2
  <1> QED
    BY <1>1, <1>2, <1>3, <1>4, <1>6, <1>7, <1>8, <1>9, QuotaStep

LEMMA PresignQuota ==
    ASSUME FiniteInstance, ContentInv, QuotaInv, NEW r \in Puts, NEW k \in Keys, Presign(r, k)
    PROVE  QuotaInv'
  <1> PICK state : state = [pc |-> "presign", key |-> k]
    OBVIOUS
  <1>1. Goto(r, state) /\ UNCHANGED <<final, inFlight, granted, row>> /\ k \notin granted
    BY DEF Presign, files, rows
  <1>2. KnowsAfter(state) /\ ~Backed(state) /\ Weight(state) = 0
    BY Stateless
  <1>3. BackingFits' /\ WeightsFit'
    BY <1>1, <1>2, LightStep
  <1>4. FilesTyped /\ RowsKnown
    BY DEF ContentInv, QuotaInv
  <1>5. OnlyAt(k) /\ RowAfter(k)
    BY <1>1, <1>4 DEF OnlyAt, RowAfter, RowsKnown
  <1>6. Elsewhere(r, k)
    BY <1>1, Counters DEF Elsewhere, ContentInv, FilesTyped, OneWriter
  <1> QED
    BY <1>1, <1>2, <1>3, <1>4, <1>5, <1>6, QuotaStep

LEMMA OpenQuota ==
    ASSUME FiniteInstance, ~SameKeyTwice, ContentInv, QuotaInv, NEW r \in Puts, NEW k \in Keys,
           NEW chunked \in BOOLEAN, NEW offset \in 0..Size[k], Open(r, k, offset, chunked)
    PROVE  QuotaInv'
  <1> PICK state :
        state = [pc |-> "budget", key |-> k, chunked |-> chunked, counted |-> row[k],
                 budget |-> 0, readAt |-> 0, written |-> offset, appends |-> offset > 0,
                 good |-> TRUE, unit |-> 0, next |-> "create", inode |-> NoFile]
    OBVIOUS
  <1>1. Goto(r, state) /\ UNCHANGED <<final, inFlight, granted, row>>
    BY DEF Open, files, rows
  <1>2. /\ state.pc = "budget" /\ state.key = k /\ state.counted = row[k] /\ state.budget = 0
    OBVIOUS
  <1>3. FilesTyped /\ RowsKnown
    BY DEF ContentInv, QuotaInv
  <1>4. ~Backed(state) /\ Weight(state) = 0
    BY <1>2 DEF Backed, Weight
  <1>5. BackingFits' /\ WeightsFit'
    BY <1>1, <1>4, LightStep
  <1>6. KnowsAfter(state)
    <2>1. row[k] \in Nat /\ inFlight[k] \in Nat \cup {Absent}
      BY <1>3 DEF RowsKnown
    <2>2. KnowsRow(state)'
      BY <1>1, <1>2, <2>1, BoundsAssumption DEF KnowsRow, Judged
    <2>3. Published(state)'
      BY <1>1, <1>2, <2>1 DEF Published, Weight, Max0, Absent
    <2> QED
      BY <2>2, <2>3 DEF KnowsAfter
  <1>7. OnlyAt(k) /\ RowAfter(k)
    BY <1>1, <1>3 DEF OnlyAt, RowAfter, RowsKnown
  <1>8. Elsewhere(r, k)
    <2>1. \A x \in Puts : put[x].pc # "idle" => put[x].key # k
      BY DEF Open, PutsOf, At
    <2> QED
      BY <2>1, Counters DEF Elsewhere, ContentInv, FilesTyped, Uploading
  <1> QED
    BY <1>1, <1>3, <1>5, <1>6, <1>7, <1>8, QuotaStep

(* A commit counts a blob that has landed: a row grows, of a key that is   *)
(* no save.                                                                *)
LEMMA RegisterQuota ==
    ASSUME ContentInv, QuotaInv, NEW k \in BlobKeys, RegisterBlob(k)
    PROVE  QuotaInv'
  <1>1. /\ k \in Keys /\ k \notin SaveKeys /\ RowsKnown /\ Size[k] \in Nat
    BY KeysAssumption, SizesAssumption DEF QuotaInv, Keys
  <1>2. /\ row' = [row EXCEPT ![k] = Size[k]] /\ row[k] = 0
        /\ UNCHANGED <<final, granted, inFlight, put>>
    BY DEF RegisterBlob, files
  <1>3. /\ row' \in [Keys -> Nat] /\ \A j \in Keys : row'[j] >= row[j] /\ row[j] \in Nat
        /\ \A j \in SaveKeys : row'[j] = row[j]
    BY <1>1, <1>2 DEF RowsKnown, Keys
  <1>4. RowsKnown'
    BY <1>1, <1>2, <1>3 DEF RowsKnown, Least
  <1>5. BackingFits' /\ WeightsFit'
    BY <1>2 DEF BackingFits, WeightsFit, Backing, Secured, Backed, Least, Weights, Weight,
                Max0, QuotaInv
  <1>6. ASSUME NEW r \in Puts PROVE KnowsRow(put[r])' /\ Published(put[r])'
    <2> PICK q : q = put[r]
      OBVIOUS
    <2>1. KnowsRow(q) /\ Published(q) /\ put'[r] = q
      BY <1>2 DEF QuotaInv
    <2>2. q.pc \in Streaming => q.key \in Keys /\ (q.key \in SaveKeys => row'[q.key] = row[q.key])
      BY <1>3, Counters DEF ContentInv, FilesTyped, StreamTyped
    <2>3. q.pc \in Streaming => q.counted \in Nat /\ q.counted <= row'[q.key]
      BY <1>3, <2>1, <2>2 DEF KnowsRow
    <2>4. KnowsRow(q)'
      BY <1>2, <2>1, <2>2, <2>3 DEF KnowsRow, Least
    <2>5. Published(q)'
      BY <1>2, <2>1 DEF Published, Weight, Max0, Footprint, Measured, Larger
    <2> QED
      BY <2>1, <2>4, <2>5
  <1> QED
    BY <1>4, <1>5, <1>6 DEF QuotaInv

(* A request that ends, before the gate or with it.                        *)
LEMMA EndsQuota ==
    ASSUME FiniteInstance, ContentInv, QuotaInv, NEW r \in Puts,
           JudgeRefuses(r) \/ ReceiveTooMuch(r) \/ EndChunk(r) \/ RequestFails(r)
    PROVE  QuotaInv'
  <1> PICK state : state = Idle
    OBVIOUS
  <1>1. /\ put[r].pc # "idle" /\ Goto(r, state) /\ UNCHANGED <<row, granted, final>>
        /\ Registers(put[r].key)
    BY DEF JudgeRefuses, ReceiveTooMuch, EndChunk, RequestFails, At, Ends, Release, rows, files,
           Registers
  <1>2. FilesTyped /\ RowsKnown
    BY DEF ContentInv, QuotaInv
  <1>3. KnowsAfter(state) /\ ~Backed(state) /\ Weight(state) = 0
    BY Stateless DEF Idle
  <1>4. BackingFits' /\ WeightsFit'
    BY <1>1, <1>3, LightStep
  <1> PICK k : k = put[r].key
    OBVIOUS
  <1>5. k \in Keys
    BY <1>1 DEF ContentInv, FilesTyped, PutTyped, StreamTyped, RenameTyped, Idle
  <1>6. Elsewhere(r, k)
    BY <1>1, Apart
  <1>7. OnlyAt(k) /\ RowAfter(k)
    BY <1>1, <1>2, <1>5, RegistersAt DEF OnlyAt, RowAfter, RowsKnown
  <1> QED
    BY <1>1, <1>2, <1>3, <1>4, <1>5, <1>6, <1>7, QuotaStep

LEMMA InitQuotaInv ==
    ASSUME FiniteInstance, Init
    PROVE  QuotaInv
  <1>1. \A r \in Puts : put[r] = Idle
    BY DEF Init
  <1>2. RowsKnown
    BY DEF Init, RowsKnown, Keys
  <1>3. ASSUME NEW q, q = Idle
        PROVE  KnowsRow(q) /\ Published(q) /\ ~Backed(q) /\ Weight(q) = 0
    <2>1. q.pc = "idle"
      BY <1>3 DEF Idle
    <2> QED
      BY <2>1 DEF KnowsRow, Published, Backed, Weight, Uploading, Streaming, GatePcs, Judged
  <1>4. BackingFits
    <2> PICK b : b = Backing
      OBVIOUS
    <2>1. \A k \in SaveKeys : ~Secured(k)
      BY <1>1, <1>3 DEF Secured, Init, Keys
    <2>2. \A k \in SaveKeys : b[k] = 0
      BY <2>1 DEF Backing
    <2>3. IsFiniteSet(SaveKeys)
      BY FS_Subset DEF FiniteInstance, Keys
    <2>4. Total(b, SaveKeys) = 0
      BY <2>2, <2>3, TotalWithoutZeros, TotalNone
    <2> QED
      BY <2>4, BoundsAssumption DEF BackingFits
  <1>5. WeightsFit
    <2> PICK w : w = Weights
      OBVIOUS
    <2>1. \A r \in Puts : w[r] = 0
      BY <1>1, <1>3 DEF Weights
    <2>2. Total(w, Puts) = 0
      BY <2>1, TotalWithoutZeros, TotalNone DEF FiniteInstance
    <2> QED
      BY <2>2, BoundsAssumption DEF WeightsFit
  <1> QED
    BY <1>1, <1>2, <1>3, <1>4, <1>5 DEF QuotaInv

LEMMA StepQuotaInv ==
    ASSUME ~SameKeyTwice, FiniteInstance, Quota > 0, ContentInv, ContentInv', QuotaInv, [Next]_vars
    PROVE  QuotaInv'
  <1>1. CASE UNCHANGED vars
    BY <1>1 DEF vars, QuotaInv, RowsKnown, KnowsRow, Published, BackingFits, WeightsFit, Backing,
                Secured, Backed, Least, Weights, Weight, Max0, Uploading, Footprint, Measured,
                Larger
  <1>2. CASE \E k \in BlobKeys : RegisterBlob(k)
    BY <1>2, RegisterQuota
  <1>3. ASSUME NEW r \in Puts,
               \/ \E k \in Keys : Presign(r, k)
               \/ \E k \in Keys, chunked \in BOOLEAN :
                   \E offset \in 0..Size[k] : Open(r, k, offset, chunked)
               \/ PresignInsert(r)
        PROVE  QuotaInv'
    BY <1>3, PresignQuota, OpenQuota, PresignInsertQuota
  <1>4. ASSUME NEW r \in Puts,
               OpenBudget(r) \/ QuotaReread(r) \/ Publish(r) \/ Judge(r) \/ JudgeRefuses(r)
        PROVE  QuotaInv'
    BY <1>4, BudgetQuota, PublishQuota, JudgeQuota, EndsQuota
  <1>5. ASSUME NEW r \in Puts,
               \/ Create(r) \/ CheckOffset(r) \/ OpenAppend(r)
               \/ Receive(r) \/ ReceiveTooMuch(r) \/ Write(r)
        PROVE  QuotaInv'
    BY <1>5, OpenFileQuota, ReceiveQuota, WriteQuota, EndsQuota
  <1>6. ASSUME NEW r \in Puts,
               EndChunk(r) \/ EndBody(r) \/ Rename(r) \/ Finalize(r) \/ RequestFails(r)
        PROVE  QuotaInv'
    BY <1>6, EndsQuota, EndBodyQuota, RenameQuota, FinalizeQuota
  <1> QED
    BY <1>1, <1>2, <1>3, <1>4, <1>5, <1>6 DEF Next

(* A save that landed has its size: what it secured, and at most what its  *)
(* presign left out.                                                       *)
LEMMA LandedFits ==
    ASSUME FiniteInstance, ContentInv, QuotaInv
    PROVE  StoredUnits(SaveKeys) <= Quota + Understated
  <1> PICK s : s = [k \in SaveKeys |-> IF final[k] = NoFile THEN 0 ELSE Len(content[final[k]])]
    OBVIOUS
  <1> PICK b : b = Backing
    OBVIOUS
  <1> PICK u : u = [k \in SaveKeys |-> Max0(Size[k] - Declared[k])]
    OBVIOUS
  <1> PICK h : h = [k \in SaveKeys |-> b[k] + u[k]]
    OBVIOUS
  <1>1. ASSUME NEW k \in SaveKeys
        PROVE  /\ b[k] \in Nat /\ u[k] \in Nat /\ h[k] \in Nat /\ h[k] = b[k] + u[k]
               /\ s[k] \in Nat /\ s[k] <= h[k]
    <2>1. /\ k \in Keys /\ Size[k] \in Nat /\ Declared[k] \in Nat /\ Least(k) \in Nat
          /\ Size[k] <= Least(k) + Max0(Size[k] - Declared[k])
      BY SizesAssumption DEF Keys, Least, Max0
    <2>2. b[k] = IF Secured(k) THEN Least(k) ELSE 0
      BY DEF Backing
    <2>3. u[k] \in Nat /\ u[k] = Max0(Size[k] - Declared[k])
      BY <2>1, Max0Nat
    <2>4. h[k] = b[k] + u[k]
      OBVIOUS
    <2>5. s[k] = IF final[k] = NoFile THEN 0 ELSE Size[k]
      <3>1. final[k] # NoFile => content[final[k]] = Whole(k)
        BY <2>1 DEF ContentInv, FinalIsWhole
      <3>2. Len(Whole(k)) = Size[k]
        BY <2>1 DEF Whole
      <3> QED
        BY <3>1, <3>2
    <2>6. final[k] # NoFile => Secured(k)
      BY DEF Secured
    <2> HIDE DEF Secured
    <2> QED
      BY <2>1, <2>2, <2>3, <2>4, <2>5, <2>6
  <1>2. IsFiniteSet(SaveKeys)
    BY FS_Subset DEF FiniteInstance, Keys
  <1>3. Total(s, SaveKeys) <= Total(h, SaveKeys)
    BY <1>1, <1>2, TotalMonotone
  <1>4. Total(h, SaveKeys) = Total(b, SaveKeys) + Total(u, SaveKeys)
    BY <1>1, <1>2, TotalPlus
  <1>5. Total(s, SaveKeys) \in Nat /\ Total(b, SaveKeys) \in Nat /\ Total(u, SaveKeys) \in Nat
    BY <1>1, <1>2, TotalNat
  <1>6. StoredUnits(SaveKeys) = Total(s, SaveKeys)
    BY DEF StoredUnits, SumFunction, Total
  <1>7. Understated = Total(u, SaveKeys)
    BY DEF Understated, SumFunction, Total
  <1>8. Total(b, SaveKeys) <= Quota
    BY DEF QuotaInv, BackingFits
  <1> QED
    BY <1>3, <1>4, <1>5, <1>6, <1>7, <1>8, BoundsAssumption

(* A body that arrives weighs what it has been let write.                  *)
LEMMA ArrivingFits ==
    ASSUME FiniteInstance, ContentInv, QuotaInv
    PROVE  SumFunction([r \in Puts |->
               IF Arriving(r) THEN Max0(put[r].written - put[r].counted) ELSE 0]) <= Quota
  <1> PICK a : a = [r \in Puts |->
                     IF Arriving(r) THEN Max0(put[r].written - put[r].counted) ELSE 0]
    OBVIOUS
  <1> PICK w : w = Weights
    OBVIOUS
  <1>1. ASSUME NEW r \in Puts PROVE a[r] \in Nat /\ w[r] \in Nat /\ a[r] <= w[r]
    <2> PICK q : q = put[r]
      OBVIOUS
    <2>1. w[r] = Weight(q)
      BY DEF Weights
    <2>2. Weight(q) \in Nat
      BY WeightNat DEF ContentInv, FilesTyped, QuotaInv
    <2>3. CASE Arriving(r)
      <3>1. a[r] = Max0(q.written - q.counted)
        BY <2>3
      <3>2. Weight(q) = Max0(q.written - q.counted)
        BY <2>3 DEF Weight, Arriving
      <3> QED
        BY <2>1, <2>2, <3>1, <3>2
    <2>4. CASE ~Arriving(r)
      BY <2>1, <2>2, <2>4
    <2> QED
      BY <2>3, <2>4
  <1>2. Total(a, Puts) <= Total(w, Puts) /\ Total(a, Puts) \in Nat /\ Total(w, Puts) \in Nat
    BY <1>1, TotalMonotone, TotalNat DEF FiniteInstance
  <1>3. Total(w, Puts) <= Quota
    BY DEF QuotaInv, WeightsFit
  <1>4. SumFunction(a) = Total(a, Puts)
    BY DEF SumFunction, Total
  <1> QED
    BY <1>2, <1>3, <1>4, BoundsAssumption

(* Whatever presigns race each other, whatever uploads run at once and     *)
(* wherever they fail, the saves that landed fit in the quota of their     *)
(* owner, but for the units the presigns did not declare: every check      *)
(* counts the rows of the others, and a save has its row before it may be  *)
(* sent (check_quota, QuotaGate, finalize_upload).                         *)
THEOREM SavesFitQuota ==
    ASSUME ~SameKeyTwice, IsFiniteSet(Keys), IsFiniteSet(Puts)
    PROVE  Spec => []SavesWithinQuota
  <1>1. CASE Quota > 0
    <2>1. FiniteInstance
      BY DEF FiniteInstance
    <2>2. Init => ContentInv /\ QuotaInv
      BY <2>1, InitContentInv, InitQuotaInv
    <2>3. ContentInv /\ QuotaInv /\ [Next]_vars => (ContentInv /\ QuotaInv)'
      BY <1>1, <2>1, StepContentInv, StepQuotaInv
    <2>4. ContentInv /\ QuotaInv => SavesWithinQuota
      BY <2>1, LandedFits DEF SavesWithinQuota
    <2> QED
      BY <2>2, <2>3, <2>4, PTL DEF Spec
  <1>2. CASE ~(Quota > 0)
    <2>1. SavesWithinQuota
      BY <1>2 DEF SavesWithinQuota
    <2> QED
      BY <2>1, PTL
  <1> QED
    BY <1>1, <1>2

(* The bodies arriving at once never take more than the quota together:    *)
(* of two that would fit alone, the registry refuses one.                  *)
THEOREM StreamsFitQuota ==
    ASSUME ~SameKeyTwice, IsFiniteSet(Keys), IsFiniteSet(Puts)
    PROVE  Spec => []StreamsShareQuota
  <1>1. CASE Quota > 0
    <2>1. FiniteInstance
      BY DEF FiniteInstance
    <2>2. Init => ContentInv /\ QuotaInv
      BY <2>1, InitContentInv, InitQuotaInv
    <2>3. ContentInv /\ QuotaInv /\ [Next]_vars => (ContentInv /\ QuotaInv)'
      BY <1>1, <2>1, StepContentInv, StepQuotaInv
    <2>4. ContentInv /\ QuotaInv => StreamsShareQuota
      BY <2>1, ArrivingFits DEF StreamsShareQuota
    <2> QED
      BY <2>2, <2>3, <2>4, PTL DEF Spec
  <1>2. CASE ~(Quota > 0)
    <2>1. StreamsShareQuota
      BY <1>2 DEF StreamsShareQuota
    <2> QED
      BY <2>1, PTL
  <1> QED
    BY <1>1, <1>2

=============================================================================
