--------------------------- MODULE ArtifactsProofs ---------------------------
(* Theorems about Artifacts, for any backups, games, friends and requests. *)
EXTENDS Artifacts, FiniteSetTheorems, TLAPS

-----------------------------------------------------------------------------
(* Types.                                                                  *)
LEMMA InitTypeOK == Init => TypeOK
  BY DEF Init, TypeOK, States, Idle

(* What a request of each kind holds.                                      *)
LEMMA HandlerAt ==
    ASSUME TypeOK, NEW h \in Handlers
    PROVE  /\ At(h, "insert") => handler[h] \in [pc : {"insert"}, id : Artifacts]
           /\ At(h, "delete") \/ At(h, "purge") \/ At(h, "unlink")
                => handler[h] \in [pc : {"delete", "purge", "unlink"}, ids : SUBSET Artifacts]
           /\ At(h, "share")
                => handler[h] \in [pc : {"share"}, id : Artifacts, friend : Friends]
  BY DEF TypeOK, States, At, Idle

LEMMA GotoTypeOK ==
    ASSUME TypeOK, NEW h \in Handlers, NEW s \in States, Goto(h, s)
    PROVE  handler' \in [Handlers -> States]
  BY DEF TypeOK, Goto

(* Deletions leave the tables typed.                                       *)
LEMMA DropTypeOK ==
    ASSUME TypeOK, NEW h \in Handlers, NEW gone, NEW files \in SUBSET Artifacts,
           DropRows(h, gone, files), UNCHANGED <<used, uploaded, landing>>
    PROVE  TypeOK'
  <1>1. [pc |-> "unlink", ids |-> files] \in States
    BY DEF States
  <1>2. handler' \in [Handlers -> States]
    BY <1>1, GotoTypeOK DEF DropRows
  <1> QED
    BY <1>2 DEF DropRows, TypeOK

LEMMA StepTypeOK == TypeOK /\ [Next]_vars => TypeOK'
  <1> SUFFICES ASSUME TypeOK, [Next]_vars PROVE TypeOK'
    OBVIOUS
  <1>0. Idle \in States
    BY DEF States
  <1>1. ASSUME NEW a \in Artifacts, Land(a) \/ Finalize(a) \/ SetFrozen(a) PROVE TypeOK'
    BY <1>1 DEF Land, Finalize, SetFrozen, TypeOK, stored
  <1>2. ASSUME NEW a \in Artifacts, NEW f \in Friends, Unshare(a, f) PROVE TypeOK'
    BY <1>2 DEF Unshare, TypeOK, stored
  <1>3. ASSUME NEW h \in Handlers, CreateFails(h) PROVE TypeOK'
    BY <1>0, <1>3, GotoTypeOK DEF CreateFails, TypeOK, stored
  <1>4. ASSUME NEW h \in Handlers, CreateInserts(h) PROVE TypeOK'
    <2>1. handler[h].id \in Artifacts
      BY <1>4, HandlerAt DEF CreateInserts
    <2>2. handler' \in [Handlers -> States]
      BY <1>0, <1>4, GotoTypeOK DEF CreateInserts
    <2> QED
      BY <1>4, <2>1, <2>2 DEF CreateInserts, TypeOK
  <1>5. ASSUME NEW h \in Handlers, ShareInserts(h) PROVE TypeOK'
    <2>1. handler[h].id \in Artifacts /\ handler[h].friend \in Friends
      BY <1>5, HandlerAt DEF ShareInserts
    <2>2. handler' \in [Handlers -> States]
      BY <1>0, <1>5, GotoTypeOK DEF ShareInserts
    <2> QED
      BY <1>5, <2>1, <2>2 DEF ShareInserts, TypeOK, stored
  <1>6. ASSUME NEW h \in Handlers, PanelDrops(h) \/ PurgeDrops(h) PROVE TypeOK'
    <2>1. handler[h].ids \in SUBSET Artifacts
      BY <1>6, HandlerAt DEF PanelDrops, PurgeDrops
    <2> QED
      BY <1>6, <2>1, DropTypeOK DEF PanelDrops, PurgeDrops
  <1>7. ASSUME NEW h \in Handlers, PurgeLists(h) PROVE TypeOK'
    <2>1. [pc |-> "purge", ids |-> rows] \in States
      BY DEF States, TypeOK
    <2> QED
      BY <1>7, <2>1, GotoTypeOK DEF PurgeLists, TypeOK, stored
  <1>8. ASSUME NEW h \in Handlers, Unlink(h) PROVE TypeOK'
    <2>1. handler[h] \in [pc : {"delete", "purge", "unlink"}, ids : SUBSET Artifacts]
      BY <1>8, HandlerAt DEF Unlink
    <2>2. \A a : [handler[h] EXCEPT !.ids = @ \ {a}] \in States
      BY <2>1 DEF States
    <2>3. handler' \in [Handlers -> States]
      BY <1>0, <1>8, <2>2, GotoTypeOK DEF Unlink
    <2> QED
      BY <1>8, <2>3 DEF Unlink, TypeOK
  <1>9. ASSUME NEW h \in Handlers, NEW a \in Artifacts, CreateCounted(h, a) PROVE TypeOK'
    <2>1. [pc |-> "insert", id |-> a] \in States
      BY DEF States
    <2> QED
      BY <1>9, <2>1, GotoTypeOK DEF CreateCounted, TypeOK, stored
  <1>10. ASSUME NEW h \in Handlers, NEW a \in Artifacts, Delete(h, a) PROVE TypeOK'
    BY <1>10, DropTypeOK DEF Delete
  <1>11. ASSUME NEW h \in Handlers, NEW a \in Artifacts, PanelFinds(h, a) PROVE TypeOK'
    <2>1. [pc |-> "delete", ids |-> {a}] \in States
      BY DEF States
    <2> QED
      BY <1>11, <2>1, GotoTypeOK DEF PanelFinds, TypeOK, stored
  <1>12. ASSUME NEW h \in Handlers, NEW a \in Artifacts, NEW f \in Friends, ShareChecked(h, a, f)
         PROVE  TypeOK'
    <2>1. [pc |-> "share", id |-> a, friend |-> f] \in States
      BY DEF States
    <2> QED
      BY <1>12, <2>1, GotoTypeOK DEF ShareChecked, TypeOK, stored
  <1>13. CASE UNCHANGED vars
    BY <1>13 DEF vars, stored, TypeOK
  <1> QED
    BY <1>1, <1>2, <1>3, <1>4, <1>5, <1>6, <1>7, <1>8, <1>9, <1>10, <1>11, <1>12, <1>13 DEF Next

-----------------------------------------------------------------------------
(* What is shared.  An id about to be inserted has never been a row, and   *)
(* no two requests insert the same; a file is removed only when its row    *)
(* has gone for good; a row whose upload is in place, or was when a share  *)
(* of it was checked, still has its file.                                  *)
Inserting(a) == {h \in Handlers : At(h, "insert") /\ handler[h].id = a}

FreshIds ==
    \A h \in Handlers : At(h, "insert") =>
        handler[h].id \notin used /\ Inserting(handler[h].id) = {h}
DoomedFiles ==
    \A h \in Handlers :
        /\ At(h, "delete") \/ At(h, "purge") => handler[h].ids \subseteq used
        /\ At(h, "unlink") => handler[h].ids \subseteq used \ rows
FilesInPlace == rows \cap (uploaded \cup landing) \subseteq disk
SharesOfUploads ==
    /\ \A s \in shares : s[1] \in uploaded
    /\ \A h \in Handlers : At(h, "share") => handler[h].id \in uploaded

ShareInv == TypeOK /\ FreshIds /\ DoomedFiles /\ FilesInPlace /\ SharesOfUploads

LEMMA StepShares == ShareInv /\ [Next]_vars => ShareInv'
  <1> SUFFICES ASSUME ShareInv, [Next]_vars
               PROVE  FreshIds' /\ DoomedFiles' /\ FilesInPlace' /\ SharesOfUploads'
    BY StepTypeOK DEF ShareInv
  <1> DEFINE Kept == FreshIds' /\ DoomedFiles' /\ FilesInPlace' /\ SharesOfUploads'
  <1>t. TypeOK
    BY DEF ShareInv
  <1>u. rows \subseteq used /\ uploaded \subseteq used /\ landing \subseteq used
    BY <1>t DEF TypeOK
  <1>i. Idle.pc = "idle"
    BY DEF Idle
  (* A request that goes idle takes nothing away from the others.          *)
  <1>a. ASSUME NEW h \in Handlers, NEW s, Goto(h, s)
        PROVE  handler'[h] = s /\ \A o \in Handlers \ {h} : handler'[o] = handler[o]
    BY <1>a, <1>t DEF Goto, TypeOK
  <1>b. ASSUME NEW h \in Handlers, NEW gone, NEW files \in SUBSET used,
               DropRows(h, gone, files), files \subseteq gone \/ gone = rows,
               UNCHANGED <<used, uploaded, landing>>
        PROVE  Kept
    <2> DEFINE s == [pc |-> "unlink", ids |-> files]
    <2>1. handler'[h] = s /\ \A o \in Handlers \ {h} : handler'[o] = handler[o]
      BY <1>b, <1>a DEF DropRows
    <2>2. FreshIds'
      BY <1>b, <2>1 DEF ShareInv, FreshIds, Inserting, At
    <2>3. DoomedFiles'
      BY <1>b, <2>1 DEF ShareInv, DoomedFiles, DropRows, At
    <2>4. FilesInPlace'
      BY <1>b DEF ShareInv, FilesInPlace, DropRows
    <2>5. SharesOfUploads'
      BY <1>b, <2>1 DEF ShareInv, SharesOfUploads, DropRows, At
    <2> QED
      BY <2>2, <2>3, <2>4, <2>5
  (* A request that reads, and moves to s.                                 *)
  <1>c. ASSUME NEW h \in Handlers, NEW s, Goto(h, s), UNCHANGED <<rows, stored>>,
               \A x \in shares' : x \in shares \/ x[1] \in uploaded,
               s.pc # "insert",
               s.pc \in {"delete", "purge"} => s.ids \subseteq used,
               s.pc = "unlink" => s.ids \subseteq used \ rows,
               s.pc = "share" => s.id \in uploaded
        PROVE  Kept
    <2>1. handler'[h] = s /\ \A o \in Handlers \ {h} : handler'[o] = handler[o]
      BY <1>c, <1>a
    <2>2. FreshIds'
      BY <1>c, <2>1 DEF ShareInv, FreshIds, Inserting, At, stored
    <2>3. DoomedFiles'
      BY <1>c, <2>1 DEF ShareInv, DoomedFiles, At, stored
    <2>4. FilesInPlace'
      BY <1>c DEF ShareInv, FilesInPlace, stored
    <2>5. SharesOfUploads'
      BY <1>c, <2>1 DEF ShareInv, SharesOfUploads, At, stored
    <2> QED
      BY <2>2, <2>3, <2>4, <2>5
  <1>1. ASSUME NEW a \in Artifacts, Land(a) PROVE Kept
    BY <1>1 DEF Land, ShareInv, FreshIds, Inserting, DoomedFiles, FilesInPlace, SharesOfUploads, At
  <1>2. ASSUME NEW a \in Artifacts, Finalize(a) PROVE Kept
    BY <1>2 DEF Finalize, ShareInv, FreshIds, Inserting, DoomedFiles, FilesInPlace, SharesOfUploads, At
  <1>3. ASSUME NEW a \in Artifacts, SetFrozen(a) PROVE Kept
    BY <1>3 DEF SetFrozen, stored, ShareInv, FreshIds, Inserting, DoomedFiles, FilesInPlace,
       SharesOfUploads, At
  <1>4. ASSUME NEW a \in Artifacts, NEW f \in Friends, Unshare(a, f) PROVE Kept
    BY <1>4 DEF Unshare, stored, ShareInv, FreshIds, Inserting, DoomedFiles, FilesInPlace,
       SharesOfUploads, At
  <1>5. ASSUME NEW h \in Handlers, CreateFails(h) PROVE Kept
    BY <1>5, <1>c, <1>i DEF CreateFails
  <1>6. ASSUME NEW h \in Handlers, CreateInserts(h) PROVE Kept
    <2> DEFINE a == handler[h].id
    <2>0. At(h, "insert") /\ a \notin used /\ Inserting(a) = {h}
      BY <1>6 DEF CreateInserts, ShareInv, FreshIds
    <2>1. handler'[h] = Idle /\ \A o \in Handlers \ {h} : handler'[o] = handler[o]
      BY <1>6, <1>a DEF CreateInserts
    <2>2. used' = used \cup {a} /\ rows' = rows \cup {a}
      BY <1>6 DEF CreateInserts
    <2>3. FreshIds'
      <3> SUFFICES ASSUME NEW o \in Handlers, At(o, "insert")'
                   PROVE  handler'[o].id \notin used' /\ Inserting(handler[o].id)' = {o}
        BY DEF FreshIds
      <3>1. o # h /\ At(o, "insert") /\ handler'[o] = handler[o]
        BY <1>i, <2>1 DEF At
      <3>2. handler[o].id # a
        BY <2>0, <3>1 DEF Inserting
      <3>3. handler[o].id \notin used /\ Inserting(handler[o].id) = {o}
        BY <3>1 DEF ShareInv, FreshIds
      <3> QED
        BY <1>i, <2>1, <2>2, <3>1, <3>2, <3>3 DEF Inserting, At
    <2>4. DoomedFiles'
      BY <1>i, <2>0, <2>1, <2>2 DEF ShareInv, DoomedFiles, At
    <2>5. FilesInPlace'
      BY <1>6, <1>u, <2>0, <2>2 DEF ShareInv, FilesInPlace, CreateInserts
    <2>6. SharesOfUploads'
      BY <1>6, <1>i, <2>1 DEF ShareInv, SharesOfUploads, CreateInserts, At
    <2> QED
      BY <2>3, <2>4, <2>5, <2>6
  <1>7. ASSUME NEW h \in Handlers, ShareInserts(h) PROVE Kept
    <2>1. handler[h].id \in uploaded
      BY <1>7 DEF ShareInserts, ShareInv, SharesOfUploads
    <2>2. \A x \in shares' : x \in shares \/ x[1] \in uploaded
      BY <1>7, <2>1 DEF ShareInserts
    <2> QED
      BY <1>7, <1>c, <1>i, <2>2 DEF ShareInserts
  <1>8. ASSUME NEW h \in Handlers, PanelDrops(h) PROVE Kept
    <2>1. handler[h].ids \subseteq used
      BY <1>8 DEF PanelDrops, ShareInv, DoomedFiles
    <2> QED
      BY <1>8, <1>b, <2>1 DEF PanelDrops
  <1>9. ASSUME NEW h \in Handlers, PurgeDrops(h) PROVE Kept
    <2>1. handler[h].ids \subseteq used
      BY <1>9 DEF PurgeDrops, ShareInv, DoomedFiles
    <2> QED
      BY <1>9, <1>b, <2>1 DEF PurgeDrops
  <1>10. ASSUME NEW h \in Handlers, PurgeLists(h) PROVE Kept
    BY <1>10, <1>c, <1>u DEF PurgeLists
  <1>11. ASSUME NEW h \in Handlers, Unlink(h) PROVE Kept
    <2>1. PICK a \in handler[h].ids :
            /\ disk' = disk \ {a}
            /\ Goto(h, IF handler[h].ids = {a} THEN Idle
                       ELSE [handler[h] EXCEPT !.ids = @ \ {a}])
      BY <1>11 DEF Unlink
    <2>2. /\ handler[h].ids \subseteq used \ rows
          /\ handler[h] \in [pc : {"delete", "purge", "unlink"}, ids : SUBSET Artifacts]
          /\ handler[h].pc = "unlink"
      BY <1>11, <1>t, HandlerAt DEF Unlink, ShareInv, DoomedFiles, At
    <2>3. /\ \A o \in Handlers \ {h} : handler'[o] = handler[o]
          /\ handler'[h].pc \in {"idle", "unlink"}
          /\ handler'[h].pc = "unlink" => handler'[h].ids \subseteq handler[h].ids
      BY <1>a, <1>i, <2>1, <2>2
    <2>4. FreshIds'
      BY <1>11, <2>3 DEF Unlink, ShareInv, FreshIds, Inserting, At
    <2>5. DoomedFiles'
      BY <1>11, <2>2, <2>3 DEF Unlink, ShareInv, DoomedFiles, At
    <2>6. FilesInPlace'
      BY <1>11, <2>1, <2>2 DEF Unlink, ShareInv, FilesInPlace
    <2>7. SharesOfUploads'
      BY <1>11, <2>3 DEF Unlink, ShareInv, SharesOfUploads, At
    <2> QED
      BY <2>4, <2>5, <2>6, <2>7
  <1>12. ASSUME NEW h \in Handlers, NEW a \in Artifacts, CreateCounted(h, a) PROVE Kept
    <2>1. /\ handler'[h] = [pc |-> "insert", id |-> a]
          /\ \A o \in Handlers \ {h} : handler'[o] = handler[o]
      BY <1>12, <1>a DEF CreateCounted
    <2>2. At(h, "idle") /\ a \notin used /\ Inserting(a) = {}
      BY <1>12 DEF CreateCounted, Inserting, At
    <2>3. FreshIds'
      BY <1>12, <2>1, <2>2 DEF CreateCounted, stored, ShareInv, FreshIds, Inserting, At
    <2>4. DoomedFiles' /\ FilesInPlace' /\ SharesOfUploads'
      BY <1>12, <2>1 DEF CreateCounted, stored, ShareInv, DoomedFiles, FilesInPlace,
         SharesOfUploads, At
    <2> QED
      BY <2>3, <2>4
  <1>13. ASSUME NEW h \in Handlers, NEW a \in Artifacts, Delete(h, a) PROVE Kept
    BY <1>13, <1>b, <1>u DEF Delete
  <1>14. ASSUME NEW h \in Handlers, NEW a \in Artifacts, PanelFinds(h, a) PROVE Kept
    BY <1>14, <1>c, <1>u DEF PanelFinds
  <1>15. ASSUME NEW h \in Handlers, NEW a \in Artifacts, NEW f \in Friends, ShareChecked(h, a, f)
         PROVE  Kept
    BY <1>15, <1>c DEF ShareChecked, Shareable, Listed
  <1>16. CASE UNCHANGED vars
    BY <1>16 DEF vars, stored, ShareInv, FreshIds, Inserting, DoomedFiles, FilesInPlace,
       SharesOfUploads, At
  <1> QED
    BY <1>1, <1>2, <1>3, <1>4, <1>5, <1>6, <1>7, <1>8, <1>9, <1>10, <1>11, <1>12, <1>13, <1>14,
       <1>15, <1>16 DEF Next

(* What is shared can be downloaded, whatever deletions, uploads and       *)
(* shares interleave, for any number of each.                              *)
THEOREM SharesStand == Spec => []SharedIsDownloadable
  <1>1. Init => ShareInv
    <2> SUFFICES ASSUME Init PROVE ShareInv
      OBVIOUS
    <2>1. \A h \in Handlers : At(h, "idle")
      BY DEF Init, At, Idle
    <2> QED
      BY <2>1, InitTypeOK DEF Init, ShareInv, FreshIds, DoomedFiles, FilesInPlace,
         SharesOfUploads, At
  <1>2. ShareInv => SharedIsDownloadable
    BY DEF ShareInv, TypeOK, FilesInPlace, SharesOfUploads, SharedIsDownloadable, SharedWith, Listed
  <1> QED
    BY <1>1, <1>2, StepShares, PTL DEF Spec

-----------------------------------------------------------------------------
(* The limit.  A request that has counted is a backup to come: the two     *)
(* together never pass the bound, since the count a request was let pass   *)
(* on was below the limit, and requests to come are at most all there are. *)
Coming(g) == {h \in Handlers : At(h, "insert") /\ GameOf[handler[h].id] = g}
Weight(g) == Cardinality(Of(g)) + Cardinality(Coming(g))

LimitInv == TypeOK /\ IsFiniteSet(rows) /\ OverLimitOnlyByRacing

LEMMA Counts ==
    ASSUME IsFiniteSet(Handlers), IsFiniteSet(rows), NEW g
    PROVE  /\ IsFiniteSet(Of(g)) /\ IsFiniteSet(Coming(g))
           /\ Cardinality(Of(g)) \in Nat /\ Cardinality(Coming(g)) \in Nat
           /\ Cardinality(Handlers) \in Nat
           /\ Cardinality(Coming(g)) <= Cardinality(Handlers)
  <1>1. Of(g) \subseteq rows /\ Coming(g) \subseteq Handlers
    BY DEF Of, Coming
  <1>2. IsFiniteSet(Of(g)) /\ IsFiniteSet(Coming(g))
        /\ Cardinality(Coming(g)) <= Cardinality(Handlers)
    BY <1>1, FS_Subset
  <1> QED
    BY <1>2, FS_CardinalityType

(* A step that adds no row and counts for no game adds no weight.          *)
LEMMA NoHeavier ==
    ASSUME IsFiniteSet(Handlers), IsFiniteSet(rows), NEW g,
           Of(g)' \subseteq Of(g), Coming(g)' \subseteq Coming(g)
    PROVE  Weight(g)' <= Weight(g) /\ Weight(g) \in Nat /\ Weight(g)' \in Nat
  <1>1. /\ IsFiniteSet(Of(g)) /\ IsFiniteSet(Coming(g))
        /\ Cardinality(Of(g)) \in Nat /\ Cardinality(Coming(g)) \in Nat
    BY Counts
  <1>2. /\ IsFiniteSet(Of(g)') /\ IsFiniteSet(Coming(g)')
        /\ Cardinality(Of(g)') <= Cardinality(Of(g))
        /\ Cardinality(Coming(g)') <= Cardinality(Coming(g))
    BY <1>1, FS_Subset
  <1>3. Cardinality(Of(g)') \in Nat /\ Cardinality(Coming(g)') \in Nat
    BY <1>2, FS_CardinalityType
  <1> QED
    BY <1>1, <1>2, <1>3 DEF Weight

(* A backup inserted is one that was to come.                              *)
LEMMA InsertWeighsTheSame ==
    ASSUME IsFiniteSet(Handlers), IsFiniteSet(rows), TypeOK, NEW h \in Handlers,
           CreateInserts(h), NEW g
    PROVE  Weight(g)' <= Weight(g) /\ Weight(g) \in Nat /\ Weight(g)' \in Nat
  <1> DEFINE a == handler[h].id
  <1>1. At(h, "insert") /\ rows' = rows \cup {a}
    BY DEF CreateInserts
  <1>2. Coming(g)' = Coming(g) \ {h}
    BY DEF CreateInserts, Coming, At, Goto, Idle, TypeOK
  <1>3. /\ IsFiniteSet(Of(g)) /\ IsFiniteSet(Coming(g))
        /\ Cardinality(Of(g)) \in Nat /\ Cardinality(Coming(g)) \in Nat
    BY Counts
  <1>4. CASE GameOf[a] = g
    <2>1. h \in Coming(g) /\ Of(g)' = Of(g) \cup {a}
      BY <1>1, <1>4 DEF Coming, Of
    <2>2. Cardinality(Of(g)') <= Cardinality(Of(g)) + 1 /\ Cardinality(Of(g)') \in Nat
      <3>1. IsFiniteSet(Of(g) \cup {a})
            /\ Cardinality(Of(g) \cup {a})
                 = IF a \in Of(g) THEN Cardinality(Of(g)) ELSE Cardinality(Of(g)) + 1
        BY <1>3, FS_AddElement
      <3> QED
        BY <1>3, <2>1, <3>1
    <2>3. Cardinality(Coming(g)') = Cardinality(Coming(g)) - 1
          /\ IsFiniteSet(Coming(g)')
      BY <1>2, <1>3, <2>1, FS_RemoveElement
    <2>4. Cardinality(Coming(g)') \in Nat
      BY <2>3, FS_CardinalityType
    <2> QED
      BY <1>3, <2>2, <2>3, <2>4 DEF Weight
  <1>5. CASE GameOf[a] # g
    <2>1. Of(g)' \subseteq Of(g)
      BY <1>1, <1>5 DEF Of
    <2> QED
      BY <1>2, <2>1, NoHeavier
  <1> QED
    BY <1>4, <1>5

(* A request is about to insert because it was, or because it has counted. *)
LEMMA ComesByCounting ==
    ASSUME TypeOK, [Next]_vars, NEW o \in Handlers, At(o, "insert")'
    PROVE  \/ At(o, "insert") /\ handler'[o] = handler[o]
           \/ \E a \in Artifacts : CreateCounted(o, a) /\ handler'[o].id = a
  <1>1. ASSUME NEW h \in Handlers, NEW s, Goto(h, s), s.pc # "insert"
        PROVE  At(o, "insert") /\ handler'[o] = handler[o]
    BY <1>1 DEF Goto, TypeOK, At
  <1>2. ASSUME NEW h \in Handlers, NEW a \in Artifacts, CreateCounted(h, a)
        PROVE  \/ At(o, "insert") /\ handler'[o] = handler[o]
               \/ CreateCounted(o, a) /\ handler'[o].id = a
    BY <1>2 DEF CreateCounted, Goto, TypeOK, At
  <1>3. ASSUME NEW h \in Handlers, Unlink(h)
        PROVE  At(o, "insert") /\ handler'[o] = handler[o]
    <2>1. /\ handler[h] \in [pc : {"delete", "purge", "unlink"}, ids : SUBSET Artifacts]
          /\ handler[h].pc = "unlink"
      BY <1>3, HandlerAt DEF Unlink, At
    <2>2. PICK a : Goto(h, IF handler[h].ids = {a} THEN Idle
                           ELSE [handler[h] EXCEPT !.ids = @ \ {a}])
      BY <1>3 DEF Unlink
    <2>3. [handler[h] EXCEPT !.ids = @ \ {a}].pc # "insert" /\ Idle.pc # "insert"
      BY <2>1 DEF Idle
    <2> QED
      BY <1>1, <2>2, <2>3
  <1>4. CASE UNCHANGED handler
    BY <1>4 DEF At
  <1>5. ASSUME NEW h \in Handlers, NEW gone, NEW files, DropRows(h, gone, files)
        PROVE  At(o, "insert") /\ handler'[o] = handler[o]
    BY <1>1, <1>5 DEF DropRows
  <1>6. ASSUME NEW h \in Handlers, CreateFails(h) \/ CreateInserts(h) \/ ShareInserts(h)
        PROVE  At(o, "insert") /\ handler'[o] = handler[o]
    BY <1>1, <1>6 DEF CreateFails, CreateInserts, ShareInserts, Idle
  <1>7. ASSUME NEW h \in Handlers, PurgeLists(h) \/ (\E a \in Artifacts : PanelFinds(h, a))
               \/ (\E a \in Artifacts, f \in Friends : ShareChecked(h, a, f))
        PROVE  At(o, "insert") /\ handler'[o] = handler[o]
    BY <1>1, <1>7 DEF PurgeLists, PanelFinds, ShareChecked
  <1> QED
    BY <1>2, <1>3, <1>4, <1>5, <1>6, <1>7
       DEF Next, vars, Land, Finalize, SetFrozen, Unshare, PanelDrops, PurgeDrops, Delete

LEMMA StepLimit ==
    ASSUME IsFiniteSet(Handlers), Limit \in Nat, LimitInv, [Next]_vars
    PROVE  LimitInv'
  <1>0. TypeOK /\ TypeOK' /\ IsFiniteSet(rows)
    BY StepTypeOK DEF LimitInv
  <1>g. \A g \in Games : Weight(g) <= Limit - 1 + Cardinality(Handlers)
    BY DEF LimitInv, OverLimitOnlyByRacing, Weight, Coming
  <1>n. Cardinality(Handlers) \in Nat
    BY FS_CardinalityType
  <1>1. IsFiniteSet(rows')
    <2>1. rows' \subseteq rows \/ \E a \in Artifacts : rows' = rows \cup {a}
      <3>1. ASSUME NEW h \in Handlers, CreateInserts(h)
            PROVE  \E a \in Artifacts : rows' = rows \cup {a}
        BY <1>0, <3>1, HandlerAt DEF CreateInserts
      <3> QED
        BY <3>1 DEF Next, vars, Land, Finalize, SetFrozen, Unshare, CreateFails, ShareInserts,
           PanelDrops, PurgeLists, PurgeDrops, Unlink, CreateCounted, Delete, PanelFinds,
           ShareChecked, DropRows
    <2> QED
      BY <1>0, <2>1, FS_Subset, FS_AddElement
  <1>2. ASSUME NEW g \in Games PROVE Weight(g)' <= Limit - 1 + Cardinality(Handlers)
    <2>1. CASE \E h \in Handlers : CreateInserts(h)
      <3>1. Weight(g)' <= Weight(g) /\ Weight(g) \in Nat /\ Weight(g)' \in Nat
        BY <1>0, <2>1, InsertWeighsTheSame
      <3> QED
        BY <1>g, <3>1, <1>n
    <2>2. CASE \E h \in Handlers, a \in Artifacts : CreateCounted(h, a) /\ GameOf[a] = g
      <3>1. PICK h \in Handlers, a \in Artifacts : CreateCounted(h, a) /\ GameOf[a] = g
        BY <2>2
      <3>2. Cardinality(Of(g)) < Limit /\ Of(g)' = Of(g)
        BY <3>1 DEF CreateCounted, Counted, Of
      <3>3. IsFiniteSet(Coming(g)') /\ Cardinality(Coming(g)') <= Cardinality(Handlers)
        <4>1. Coming(g)' \subseteq Handlers
          BY DEF Coming
        <4> QED
          BY <4>1, FS_Subset
      <3>4. Cardinality(Of(g)) \in Nat /\ Cardinality(Coming(g)') \in Nat
        BY <1>0, <3>3, Counts, FS_CardinalityType
      <3> QED
        BY <1>n, <3>2, <3>3, <3>4 DEF Weight
    <2>3. CASE ~\E h \in Handlers : \/ CreateInserts(h)
                                    \/ \E a \in Artifacts : CreateCounted(h, a) /\ GameOf[a] = g
      <3>1. rows' \subseteq rows
        BY <2>3 DEF Next, vars, Land, Finalize, SetFrozen, Unshare, CreateFails, ShareInserts,
           PanelDrops, PurgeLists, PurgeDrops, Unlink, CreateCounted, Delete, PanelFinds,
           ShareChecked, DropRows
      <3>2. Coming(g)' \subseteq Coming(g)
        <4> SUFFICES ASSUME NEW o \in Handlers, At(o, "insert")', GameOf[handler'[o].id] = g
                     PROVE  At(o, "insert") /\ GameOf[handler[o].id] = g
          BY DEF Coming
        <4> QED
          BY <1>0, <2>3, ComesByCounting
      <3>3. Of(g)' \subseteq Of(g)
        BY <3>1 DEF Of
      <3>4. Weight(g)' <= Weight(g) /\ Weight(g) \in Nat /\ Weight(g)' \in Nat
        BY <1>0, <3>2, <3>3, NoHeavier
      <3> QED
        BY <1>g, <1>n, <3>4
    <2> QED
      BY <2>1, <2>2, <2>3
  <1> QED
    BY <1>0, <1>1, <1>2 DEF LimitInv, OverLimitOnlyByRacing, Weight, Coming

(* A game's backups pass the limit by racing only: by at most one for each *)
(* request there could be beside the one that was let pass last, for any   *)
(* number of games and backups, any limit and any finite set of requests.  *)
THEOREM LimitPassedByRacing ==
    ASSUME IsFiniteSet(Handlers), Handlers # {}, Limit \in Nat
    PROVE  Spec => []OverLimitOnlyByRacing
  <1>1. Init => LimitInv
    <2> SUFFICES ASSUME Init PROVE IsFiniteSet(rows) /\ OverLimitOnlyByRacing
      BY InitTypeOK DEF LimitInv
    <2>1. rows = {} /\ \A g : Of(g) = {} /\ Coming(g) = {}
      BY DEF Init, Of, Coming, At, Idle
    <2>2. Cardinality(Handlers) \in Nat \ {0}
      BY FS_CardinalityType, FS_EmptySet
    <2>3. IsFiniteSet({}) /\ Cardinality({}) = 0
      BY FS_EmptySet
    <2>4. \A g \in Games : Weight(g) <= Limit - 1 + Cardinality(Handlers)
      <3> TAKE g \in Games
      <3>1. Cardinality(Of(g)) = 0 /\ Cardinality(Coming(g)) = 0
        BY <2>1, <2>3
      <3> QED
        BY <2>2, <3>1 DEF Weight
    <2> QED
      BY <2>1, <2>3, <2>4 DEF OverLimitOnlyByRacing, Weight, Coming
  <1>2. LimitInv /\ [Next]_vars => LimitInv'
    BY StepLimit
  <1>3. LimitInv => OverLimitOnlyByRacing
    BY DEF LimitInv
  <1> QED
    BY <1>1, <1>2, <1>3, PTL DEF Spec
=============================================================================
