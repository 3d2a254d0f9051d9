----------------------------- MODULE SavesProofs -----------------------------
(* Theorems about EmulationSaves, and those about Artifacts carried over to *)
(* Saves, for any saves, slots, backups, games, friends and requests.       *)
EXTENDS Saves, TLAPS

-----------------------------------------------------------------------------
(* Types.                                                                  *)
LEMMA InitTypeOK == Init => TypeOK
  BY DEF Init, TypeOK, Shapes, Idle

(* What a request of each kind holds.                                      *)
LEMMA RequestAt ==
    ASSUME TypeOK, NEW r \in Requests
    PROVE  /\ At(r, "list") \/ At(r, "own") => req[r] \in [pc : {"list", "own"}, save : Saves]
           /\ At(r, "limits")
                => req[r] \in [pc : {"limits"}, save : Saves, old : SUBSET Saves, up : SUBSET Saves]
           /\ At(r, "replace")
                => req[r] \in [pc : {"replace"}, save : Saves, old : SUBSET Saves, keep : SUBSET Saves]
           /\ At(r, "file")
                => req[r] \in [pc : {"file"}, save : Saves, old : SUBSET Saves, keep : SUBSET Saves,
                               file : Saves]
           /\ At(r, "unlink") => req[r] \in [pc : {"unlink"}, file : Saves, rest : SUBSET Saves]
           /\ At(r, "doomed") \/ At(r, "purge") \/ At(r, "purgeFiles")
                => req[r] \in [pc : {"doomed", "purge", "purgeFiles"}, rest : SUBSET Saves]
  BY DEF TypeOK, Shapes, At, Idle

LEMMA GotoTypeOK ==
    ASSUME TypeOK, NEW r \in Requests, NEW state \in Shapes, Goto(r, state)
    PROVE  req' \in [Requests -> Shapes]
  BY DEF TypeOK, Goto

(* A request that moves, with the tables as they are or some rows gone,    *)
(* leaves everything typed.                                                *)
LEMMA MoveTypeOK ==
    ASSUME TypeOK, NEW r \in Requests, NEW state \in Shapes, Goto(r, state),
           UNCHANGED <<drawn, landing, filled>>, disk' \subseteq disk,
           \/ UNCHANGED <<rows, uploaded, superseded, committed>>
           \/ \E gone : DropRows(gone),
           excused' \subseteq Slots
    PROVE  TypeOK'
  <1>1. req' \in [Requests -> Shapes]
    BY GotoTypeOK
  <1> QED
    BY <1>1 DEF TypeOK, DropRows

LEMMA StepTypeOK == TypeOK /\ [Next]_vars => TypeOK'
  <1> SUFFICES ASSUME TypeOK, [Next]_vars PROVE TypeOK'
    OBVIOUS
  <1>0. Idle \in Shapes /\ rows \subseteq Saves /\ superseded \subseteq Saves
        /\ uploaded \subseteq Saves /\ excused \subseteq Slots
    BY DEF Shapes, TypeOK
  <1>1. ASSUME NEW s \in Saves, Presign(s) \/ Land(s) \/ Finalize(s) PROVE TypeOK'
    BY <1>1 DEF Presign, Land, Finalize, TypeOK, marks
  <1>2. ASSUME NEW r \in Requests, NEW s \in Saves, Commit(r, s) PROVE TypeOK'
    <2>1. [pc |-> "list", save |-> s] \in Shapes
      BY DEF Shapes
    <2>2. SlotOf[s] \in Slots
      BY SlotOfSaves
    <2> QED
      BY <1>0, <1>2, <2>1, <2>2, MoveTypeOK DEF Commit, store
  <1>3. ASSUME NEW r \in Requests, NEW s \in Saves, Delete(r, s) PROVE TypeOK'
    <2>1. [pc |-> "unlink", file |-> s, rest |-> {}] \in Shapes
      BY DEF Shapes
    <2>2. SlotOf[s] \in Slots
      BY SlotOfSaves
    <2> QED
      BY <1>0, <1>3, <2>1, <2>2, MoveTypeOK DEF Delete
  <1>4. ASSUME NEW r \in Requests, NEW s \in Saves, PanelDelete(r, s) PROVE TypeOK'
    <2>1. [pc |-> "doomed", rest |-> {s}] \in Shapes
      BY DEF Shapes
    <2>2. SlotOf[s] \in Slots
      BY SlotOfSaves
    <2> QED
      BY <1>0, <1>4, <2>1, <2>2, MoveTypeOK DEF PanelDelete, store
  <1>5. ASSUME NEW r \in Requests, CommitList(r) PROVE TypeOK'
    <2> DEFINE s == req[r].save
    <2>1. s \in Saves /\ ReadOld(s) \subseteq Saves
      BY <1>0, <1>5, RequestAt DEF CommitList, ReadOld, SlotOthers
    <2>2. [pc |-> "limits", save |-> s, old |-> ReadOld(s), up |-> ReadOld(s) \cap uploaded] \in Shapes
      BY <2>1 DEF Shapes
    <2> HIDE DEF s
    <2> QED
      BY <1>0, <1>5, <2>2, MoveTypeOK DEF CommitList, store, marks, s
  <1>6. ASSUME NEW r \in Requests, CommitLimits(r) PROVE TypeOK'
    <2>1. PICK keep \in {{}, req[r].up} :
            Goto(r, [pc |-> "replace", save |-> req[r].save, old |-> req[r].old, keep |-> keep])
      BY <1>6 DEF CommitLimits
    <2>2. [pc |-> "replace", save |-> req[r].save, old |-> req[r].old, keep |-> keep] \in Shapes
      BY <1>6, RequestAt DEF CommitLimits, Shapes
    <2> QED
      BY <1>0, <1>6, <2>1, <2>2, MoveTypeOK DEF CommitLimits, store, marks
  <1>7. ASSUME NEW r \in Requests, CommitDrop(r) PROVE TypeOK'
    <2>1. PICK o \in req[r].old \ req[r].keep :
            /\ DropRows({o})
            /\ Goto(r, [pc |-> "file", save |-> req[r].save, old |-> req[r].old \ {o},
                        keep |-> req[r].keep, file |-> o])
      BY <1>7 DEF CommitDrop
    <2>2. [pc |-> "file", save |-> req[r].save, old |-> req[r].old \ {o},
           keep |-> req[r].keep, file |-> o] \in Shapes
      BY <1>7, RequestAt DEF CommitDrop, Shapes
    <2> QED
      BY <1>0, <1>7, <2>1, <2>2, MoveTypeOK DEF CommitDrop
  <1>8. ASSUME NEW r \in Requests, CommitFile(r) PROVE TypeOK'
    <2>1. [pc |-> "replace", save |-> req[r].save, old |-> req[r].old, keep |-> req[r].keep] \in Shapes
      BY <1>8, RequestAt DEF CommitFile, Shapes
    <2> QED
      BY <1>0, <1>8, <2>1, MoveTypeOK DEF CommitFile, marks
  <1>9. ASSUME NEW r \in Requests, CommitSupersede(r) PROVE TypeOK'
    <2>1. PICK o \in req[r].old \cap req[r].keep :
            /\ superseded' = superseded \cup ({o} \cap rows)
            /\ Goto(r, [req[r] EXCEPT !.old = @ \ {o}])
      BY <1>9 DEF CommitSupersede
    <2>2. [req[r] EXCEPT !.old = @ \ {o}] \in Shapes
      BY <1>9, RequestAt DEF CommitSupersede, Shapes
    <2>3. req' \in [Requests -> Shapes]
      BY <2>1, <2>2, GotoTypeOK
    <2> QED
      BY <1>9, <2>1, <2>3 DEF CommitSupersede, TypeOK, marks
  <1>10. ASSUME NEW r \in Requests, CommitReplaced(r) PROVE TypeOK'
    <2>1. [pc |-> "own", save |-> req[r].save] \in Shapes
      BY <1>10, RequestAt DEF CommitReplaced, Shapes
    <2> QED
      BY <1>0, <1>10, <2>1, MoveTypeOK DEF CommitReplaced, store, marks
  <1>11. ASSUME NEW r \in Requests, CommitOwn(r) PROVE TypeOK'
    <2>1. SlotOf[req[r].save] \in Slots
      BY <1>11, RequestAt, SlotOfSaves DEF CommitOwn
    <2>2. req' \in [Requests -> Shapes]
      BY <1>0, <1>11, GotoTypeOK DEF CommitOwn
    <2> QED
      BY <1>11, <2>1, <2>2 DEF CommitOwn, TypeOK
  <1>12. ASSUME NEW r \in Requests, RetainedJob(r) PROVE TypeOK'
    <2>1. [pc |-> "doomed", rest |-> Retained] \in Shapes
      BY <1>0 DEF Shapes, Retained
    <2> QED
      BY <1>0, <1>12, <2>1, MoveTypeOK DEF RetainedJob, store, marks
  <1>13. ASSUME NEW r \in Requests, DeleteDoomed(r) PROVE TypeOK'
    <2>1. PICK s \in req[r].rest :
            /\ DropRows({s})
            /\ Goto(r, [pc |-> "unlink", file |-> s, rest |-> req[r].rest \ {s}])
      BY <1>13 DEF DeleteDoomed
    <2>2. [pc |-> "unlink", file |-> s, rest |-> req[r].rest \ {s}] \in Shapes
      BY <1>13, RequestAt DEF DeleteDoomed, Shapes
    <2> QED
      BY <1>0, <1>13, <2>1, <2>2, MoveTypeOK DEF DeleteDoomed
  <1>14. ASSUME NEW r \in Requests, Unlink(r) PROVE TypeOK'
    <2>1. [pc |-> "doomed", rest |-> req[r].rest] \in Shapes
      BY <1>14, RequestAt DEF Unlink, Shapes
    <2> QED
      BY <1>0, <1>14, <2>1, MoveTypeOK DEF Unlink, marks
  <1>15. ASSUME NEW r \in Requests, Purge(r) PROVE TypeOK'
    <2>1. [pc |-> "purge", rest |-> rows] \in Shapes
      BY <1>0 DEF Shapes
    <2> QED
      BY <1>0, <1>15, <2>1, MoveTypeOK DEF Purge, store
  <1>16. ASSUME NEW r \in Requests, PurgeRows(r) PROVE TypeOK'
    <2>1. [pc |-> "purgeFiles", rest |-> req[r].rest] \in Shapes
      BY <1>16, RequestAt DEF PurgeRows, Shapes
    <2> QED
      BY <1>0, <1>16, <2>1, MoveTypeOK DEF PurgeRows
  <1>17. ASSUME NEW r \in Requests, PurgeFile(r) PROVE TypeOK'
    <2>1. \A s : [req[r] EXCEPT !.rest = @ \ {s}] \in Shapes
      BY <1>17, RequestAt DEF PurgeFile, Shapes
    <2> QED
      BY <1>0, <1>17, <2>1, MoveTypeOK DEF PurgeFile, marks
  <1>18. ASSUME NEW r \in Requests, RequestDies(r) PROVE TypeOK'
    BY <1>0, <1>18, MoveTypeOK DEF RequestDies, store, marks
  <1>19. CASE UNCHANGED vars
    BY <1>19 DEF vars, TypeOK
  <1> QED
    BY <1>1, <1>2, <1>3, <1>4, <1>5, <1>6, <1>7, <1>8, <1>9, <1>10, <1>11, <1>12, <1>13, <1>14,
       <1>15, <1>16, <1>17, <1>18, <1>19 DEF Next, Step

-----------------------------------------------------------------------------
(* A commit of s is past o when it will not look at o any more: it has     *)
(* listed the slot without o, or has dealt with it, or has ended.  Of two  *)
(* rows of a slot, the commit that comes to be past the other second has   *)
(* seen it (an id is drawn once, so a row missing from a list is one that  *)
(* has gone for good or one whose own commit is still to come) and has     *)
(* superseded or deleted it.  That holds where OneInUsePerSlot does not    *)
(* yet speak of a save: before its commit has marked it.                   *)
Working(r) == At(r, "limits") \/ At(r, "replace") \/ At(r, "file")

Past(s, o) ==
    \/ s \in committed
    \/ \E r \in Requests :
        \/ At(r, "own") /\ req[r].save = s
        \/ Working(r) /\ req[r].save = s /\ o \notin req[r].old

Rivals(s, o) == s \in rows /\ o \in rows /\ s # o /\ SlotOf[s] = SlotOf[o]

OneNotPast ==
    \A s, o \in Saves :
        Rivals(s, o) /\ Past(s, o) /\ Past(o, s) => s \in superseded \/ o \in superseded

CommitsOfDrawn ==
    \A r \in Requests :
        At(r, "list") \/ Working(r) \/ At(r, "own") => req[r].save \in drawn

SlotInv == TypeOK /\ CommitsOfDrawn /\ OneNotPast

(* What a request that moves to another await may be past.                 *)
LEMMA PastAfterGoto ==
    ASSUME TypeOK, NEW r \in Requests, NEW state, Goto(r, state), committed' \subseteq committed,
           NEW s, NEW o, Past(s, o)'
    PROVE  \/ Past(s, o)
           \/ state.pc = "own" /\ state.save = s
           \/ state.pc \in {"limits", "replace", "file"} /\ state.save = s /\ o \notin state.old
  <1>1. req'[r] = state /\ \A q \in Requests \ {r} : req'[q] = req[q]
    BY DEF Goto, TypeOK
  <1> QED
    BY <1>1 DEF Past, Working, At

(* A commit that moves on is past what it was past, and what it has just   *)
(* dealt with: o has gone, or is superseded.                               *)
LEMMA OneNotPastKept ==
    ASSUME TypeOK, OneNotPast, rows' \subseteq rows,
           \A s \in rows' : s \in superseded => s \in superseded',
           \A s, o \in Saves : Rivals(s, o)' /\ Past(s, o)' => Past(s, o) \/ o \in superseded'
    PROVE  OneNotPast'
  <1> SUFFICES ASSUME NEW s \in Saves, NEW o \in Saves,
                      Rivals(s, o)', Past(s, o)', Past(o, s)'
               PROVE  s \in superseded' \/ o \in superseded'
    BY DEF OneNotPast
  <1>1. Rivals(s, o) /\ Rivals(o, s)'
    BY DEF Rivals
  <1>2. Past(s, o) \/ o \in superseded'
    OBVIOUS
  <1>3. Past(o, s) \/ s \in superseded'
    BY <1>1
  <1>4. s \in rows' /\ o \in rows'
    BY DEF Rivals
  <1> QED
    BY <1>1, <1>2, <1>3, <1>4 DEF OneNotPast

LEMMA CommitsOfDrawnKept ==
    ASSUME TypeOK, CommitsOfDrawn, NEW r \in Requests, NEW state, Goto(r, state),
           drawn \subseteq drawn',
           state.pc \in {"list", "limits", "replace", "file", "own"} => state.save \in drawn
    PROVE  CommitsOfDrawn'
  <1>1. req'[r] = state /\ \A q \in Requests \ {r} : req'[q] = req[q]
    BY DEF Goto, TypeOK
  <1> QED
    BY <1>1 DEF CommitsOfDrawn, Working, At

(* A request that goes on to something other than the rest of a commit,    *)
(* while rows stay or go.                                                  *)
LEMMA OtherMoves ==
    ASSUME SlotInv, NEW r \in Requests, NEW state, Goto(r, state), UNCHANGED drawn,
           state.pc \notin {"limits", "replace", "file", "own"},
           state.pc = "list" => state.save \in drawn,
           UNCHANGED <<rows, superseded, committed>> \/ \E gone : DropRows(gone)
    PROVE  CommitsOfDrawn' /\ OneNotPast'
  <1>1. CommitsOfDrawn'
    BY CommitsOfDrawnKept DEF SlotInv
  <1>2. committed' \subseteq committed /\ rows' \subseteq rows
        /\ \A s \in rows' : s \in superseded => s \in superseded'
    BY DEF DropRows
  <1>3. \A s, o \in Saves : Past(s, o)' => Past(s, o)
    BY <1>2, PastAfterGoto DEF SlotInv
  <1> QED
    BY <1>1, <1>2, <1>3, OneNotPastKept DEF SlotInv

(* A commit that goes on, where whatever it newly is past is dealt with.   *)
LEMMA CommitMoves ==
    ASSUME SlotInv, NEW r \in Requests, NEW state, Goto(r, state), UNCHANGED drawn,
           state.pc \in {"limits", "replace", "file", "own"}, state.save \in drawn,
           committed' \subseteq committed, rows' \subseteq rows,
           \A s \in rows' : s \in superseded => s \in superseded',
           \A o \in rows' : Rivals(state.save, o)' /\ (state.pc = "own" \/ o \notin state.old)
                                => Past(state.save, o) \/ o \in superseded'
    PROVE  CommitsOfDrawn' /\ OneNotPast'
  <1>1. CommitsOfDrawn'
    BY CommitsOfDrawnKept DEF SlotInv
  <1>2. ASSUME NEW s \in Saves, NEW o \in Saves, Rivals(s, o)', Past(s, o)'
        PROVE  Past(s, o) \/ o \in superseded'
    <2>1. o \in rows'
      BY <1>2 DEF Rivals
    <2>2. \/ Past(s, o)
          \/ state.save = s /\ (state.pc = "own" \/ o \notin state.old)
      BY <1>2, PastAfterGoto DEF SlotInv
    <2> QED
      BY <1>2, <2>1, <2>2
  <1> QED
    BY <1>1, <1>2, OneNotPastKept DEF SlotInv

LEMMA StepSlot == SlotInv /\ [Next]_vars => SlotInv'
  <1> SUFFICES ASSUME SlotInv, [Next]_vars PROVE CommitsOfDrawn' /\ OneNotPast'
    BY StepTypeOK DEF SlotInv
  <1>t. TypeOK /\ CommitsOfDrawn /\ OneNotPast
    BY DEF SlotInv
  <1>s. rows \subseteq drawn /\ drawn \subseteq Saves /\ committed \subseteq rows
    BY <1>t DEF TypeOK
  <1>q. ASSUME UNCHANGED <<req, rows, superseded, committed>>, drawn \subseteq drawn'
        PROVE  CommitsOfDrawn' /\ OneNotPast'
    <2>1. CommitsOfDrawn'
      BY <1>q, <1>t DEF CommitsOfDrawn, Working, At
    <2>2. OneNotPast'
      BY <1>q, <1>t DEF OneNotPast, Rivals, Past, Working, At
    <2> QED
      BY <2>1, <2>2
  <1>1. ASSUME NEW n \in Saves, Presign(n) PROVE CommitsOfDrawn' /\ OneNotPast'
    <2>1. CommitsOfDrawn'
      BY <1>1, <1>t DEF Presign, CommitsOfDrawn, Working, At
    <2>2. \A o : ~Past(n, o)
      BY <1>1, <1>t, <1>s DEF Presign, Past, CommitsOfDrawn
    <2>3. \A s, o : Past(s, o)' <=> Past(s, o)
      BY <1>1 DEF Presign, marks, Past, Working, At
    <2>4. OneNotPast'
      BY <1>1, <1>t, <2>2, <2>3 DEF Presign, OneNotPast, Rivals
    <2> QED
      BY <2>1, <2>4
  <1>2. ASSUME NEW s \in Saves, Land(s) \/ Finalize(s) PROVE CommitsOfDrawn' /\ OneNotPast'
    BY <1>2, <1>q DEF Land, Finalize, marks
  <1>3. ASSUME NEW r \in Requests, NEW s \in Saves, Commit(r, s)
        PROVE  CommitsOfDrawn' /\ OneNotPast'
    BY <1>3, <1>s, OtherMoves DEF Commit, store
  <1>4. ASSUME NEW r \in Requests, NEW s \in Saves, Delete(r, s) \/ PanelDelete(r, s)
        PROVE  CommitsOfDrawn' /\ OneNotPast'
    BY <1>4, OtherMoves DEF Delete, PanelDelete, store
  <1>5. ASSUME NEW r \in Requests,
               \/ RetainedJob(r) \/ DeleteDoomed(r) \/ Unlink(r)
               \/ Purge(r) \/ PurgeRows(r) \/ RequestDies(r)
        PROVE  CommitsOfDrawn' /\ OneNotPast'
    BY <1>5, OtherMoves
       DEF RetainedJob, DeleteDoomed, Unlink, Purge, PurgeRows, RequestDies, store, marks, Idle
  <1>6. ASSUME NEW r \in Requests, PurgeFile(r) PROVE CommitsOfDrawn' /\ OneNotPast'
    <2>1. PICK s : Goto(r, IF req[r].rest = {s} THEN Idle ELSE [req[r] EXCEPT !.rest = @ \ {s}])
      BY <1>6 DEF PurgeFile
    <2>2. [req[r] EXCEPT !.rest = @ \ {s}].pc = "purgeFiles"
      BY <1>6, <1>t, RequestAt DEF PurgeFile, At
    <2> QED
      BY <1>6, <2>1, <2>2, OtherMoves DEF PurgeFile, marks, Idle
  <1>7. ASSUME NEW r \in Requests, CommitList(r) PROVE CommitsOfDrawn' /\ OneNotPast'
    <2>1. PICK s, old : /\ s \in drawn /\ s = req[r].save /\ old = ReadOld(s)
                       /\ UNCHANGED <<drawn, rows, superseded, committed>>
      BY <1>7, <1>t DEF CommitList, CommitsOfDrawn, store, marks
    <2>2. PICK up : Goto(r, [pc |-> "limits", save |-> s, old |-> old, up |-> up])
      BY <1>7, <2>1 DEF CommitList
    <2> DEFINE state == [pc |-> "limits", save |-> s, old |-> old, up |-> up]
    <2>3. \A o \in rows : Rivals(s, o)' => o \in old
      BY <2>1 DEF Rivals, ReadOld, SlotOthers
    <2>4. Goto(r, state) /\ state.pc = "limits" /\ state.save = s /\ state.old = old
      BY <2>2
    <2> HIDE DEF state
    <2> QED
      BY <2>1, <2>3, <2>4, CommitMoves
  <1>8. ASSUME NEW r \in Requests, CommitLimits(r) PROVE CommitsOfDrawn' /\ OneNotPast'
    <2>1. PICK keep :
            Goto(r, [pc |-> "replace", save |-> req[r].save, old |-> req[r].old, keep |-> keep])
      BY <1>8 DEF CommitLimits
    <2> DEFINE state == [pc |-> "replace", save |-> req[r].save, old |-> req[r].old, keep |-> keep]
    <2>2. req[r].save \in drawn /\ \A o : o \notin req[r].old => Past(req[r].save, o)
      BY <1>8, <1>t DEF CommitLimits, CommitsOfDrawn, Working, Past
    <2>3. state.pc = "replace" /\ state.save = req[r].save /\ state.old = req[r].old
      OBVIOUS
    <2> HIDE DEF state
    <2> QED
      BY <1>8, <2>1, <2>2, <2>3, CommitMoves DEF CommitLimits, store, marks, state
  <1>9. ASSUME NEW r \in Requests, CommitDrop(r) PROVE CommitsOfDrawn' /\ OneNotPast'
    <2>1. PICK o :
            /\ DropRows({o})
            /\ Goto(r, [pc |-> "file", save |-> req[r].save, old |-> req[r].old \ {o},
                        keep |-> req[r].keep, file |-> o])
      BY <1>9 DEF CommitDrop
    <2> DEFINE state == [pc |-> "file", save |-> req[r].save, old |-> req[r].old \ {o},
                         keep |-> req[r].keep, file |-> o]
    <2>2. req[r].save \in drawn /\ \A p : p \notin req[r].old => Past(req[r].save, p)
      BY <1>9, <1>t DEF CommitDrop, CommitsOfDrawn, Working, Past
    <2>3. state.pc = "file" /\ state.save = req[r].save /\ state.old = req[r].old \ {o}
      OBVIOUS
    <2>4. /\ rows' \subseteq rows /\ committed' \subseteq committed /\ o \notin rows'
          /\ \A s \in rows' : s \in superseded => s \in superseded'
      BY <2>1 DEF DropRows
    <2> HIDE DEF state
    <2> QED
      BY <1>9, <2>1, <2>2, <2>3, <2>4, CommitMoves DEF CommitDrop, state
  <1>10. ASSUME NEW r \in Requests, CommitFile(r) PROVE CommitsOfDrawn' /\ OneNotPast'
    <2> DEFINE state == [pc |-> "replace", save |-> req[r].save, old |-> req[r].old,
                         keep |-> req[r].keep]
    <2>1. Goto(r, state)
      BY <1>10 DEF CommitFile
    <2>2. req[r].save \in drawn /\ \A o : o \notin req[r].old => Past(req[r].save, o)
      BY <1>10, <1>t DEF CommitFile, CommitsOfDrawn, Working, Past
    <2>3. state.pc = "replace" /\ state.save = req[r].save /\ state.old = req[r].old
      OBVIOUS
    <2> HIDE DEF state
    <2> QED
      BY <1>10, <2>1, <2>2, <2>3, CommitMoves DEF CommitFile, marks
  <1>11. ASSUME NEW r \in Requests, CommitSupersede(r) PROVE CommitsOfDrawn' /\ OneNotPast'
    <2>1. PICK o \in req[r].old :
            /\ superseded' = superseded \cup ({o} \cap rows)
            /\ Goto(r, [req[r] EXCEPT !.old = @ \ {o}])
      BY <1>11 DEF CommitSupersede
    <2> DEFINE state == [req[r] EXCEPT !.old = @ \ {o}]
    <2>2. req[r].save \in drawn /\ \A p : p \notin req[r].old => Past(req[r].save, p)
      BY <1>11, <1>t DEF CommitSupersede, CommitsOfDrawn, Working, Past
    <2>3. state.pc = "replace" /\ state.save = req[r].save /\ state.old = req[r].old \ {o}
      BY <1>11, <1>t, RequestAt DEF CommitSupersede
    <2>4. UNCHANGED <<drawn, rows, committed>>
      BY <1>11 DEF CommitSupersede, marks
    <2> HIDE DEF state
    <2> QED
      BY <2>1, <2>2, <2>3, <2>4, CommitMoves DEF state
  <1>12. ASSUME NEW r \in Requests, CommitReplaced(r) PROVE CommitsOfDrawn' /\ OneNotPast'
    <2> DEFINE state == [pc |-> "own", save |-> req[r].save]
    <2>1. Goto(r, state)
      BY <1>12 DEF CommitReplaced
    <2>2. req[r].save \in drawn /\ \A o : Past(req[r].save, o)
      BY <1>12, <1>t DEF CommitReplaced, CommitsOfDrawn, Working, Past
    <2>3. state.pc = "own" /\ state.save = req[r].save
      OBVIOUS
    <2> HIDE DEF state
    <2> QED
      BY <1>12, <2>1, <2>2, <2>3, CommitMoves DEF CommitReplaced, store, marks
  <1>13. ASSUME NEW r \in Requests, CommitOwn(r) PROVE CommitsOfDrawn' /\ OneNotPast'
    <2>1. CommitsOfDrawn'
      BY <1>13, <1>t, CommitsOfDrawnKept DEF CommitOwn, Idle
    <2>2. req'[r] = Idle /\ \A q \in Requests \ {r} : req'[q] = req[q]
      BY <1>13, <1>t DEF CommitOwn, Goto, TypeOK
    <2>3. \A s, o : Past(s, o)' => Past(s, o)
      BY <1>13, <2>2 DEF CommitOwn, Past, Working, At, Idle
    <2> QED
      BY <1>13, <1>t, <2>1, <2>3, OneNotPastKept DEF CommitOwn
  <1>14. CASE UNCHANGED vars
    BY <1>14, <1>q DEF vars
  <1> QED
    BY <1>1, <1>2, <1>3, <1>4, <1>5, <1>6, <1>7, <1>8, <1>9, <1>10, <1>11, <1>12, <1>13, <1>14
       DEF Next, Step

(* Two saves committed to one slot are never both in use, for any number   *)
(* of devices committing to it at once, and wherever they die.             *)
THEOREM OneSaveInUse == Spec => []OneInUsePerSlot
  <1>1. Init => SlotInv
    <2> SUFFICES ASSUME Init PROVE CommitsOfDrawn /\ OneNotPast
      BY InitTypeOK DEF SlotInv
    <2>1. rows = {} /\ \A r \in Requests : At(r, "idle")
      BY DEF Init, At, Idle
    <2> QED
      BY <2>1 DEF CommitsOfDrawn, OneNotPast, Rivals, Working, At
  <1>2. SlotInv => OneInUsePerSlot
    BY DEF SlotInv, TypeOK, OneNotPast, Rivals, Past, OneInUsePerSlot
  <1> QED
    BY <1>1, <1>2, StepSlot, PTL DEF Spec

-----------------------------------------------------------------------------
(* SlotKeepsASave.  In a slot nobody is excused for, one commit runs at a  *)
(* time and its save is in use from beginning to end, so it stands in for  *)
(* whatever it replaces; what it replaces it has listed, and never itself. *)
(* A file is removed only after its row, and an id is drawn once, so a     *)
(* late removal never meets a row again.                                   *)
Doomed(x) == x \in drawn /\ (x \in rows => x \in superseded \/ SlotOf[x] \in excused)

InHand(r) ==
    /\ At(r, "file") \/ At(r, "unlink") => req[r].file \in drawn \ rows
    /\ At(r, "doomed") \/ At(r, "unlink") => \A x \in req[r].rest : Doomed(x)
    /\ At(r, "purge") => req[r].rest \subseteq drawn /\ Slots \subseteq excused
    /\ At(r, "purgeFiles") => req[r].rest \subseteq drawn \ rows
    /\ Working(r) =>
         \A o \in req[r].old : o \in drawn /\ o # req[r].save /\ SlotOf[o] = SlotOf[req[r].save]

Tended(t) ==
    /\ \A s \in uploaded : SlotOf[s] = t => s \in disk
    /\ \A r, q \in Committing(t) : r = q
    /\ \A r \in Committing(t) : req[r].save \in uploaded \ superseded
    /\ t \in filled => Listed(t) \cap disk # {}

KeepInv ==
    /\ TypeOK
    /\ \A r \in Requests : InHand(r)
    /\ landing \cap rows \subseteq disk
    /\ \A t \in Slots \ excused : Tended(t)

AllExcused == {"overlap", "superseded", "early"} \subseteq Excusable

LEMMA InitKeepInv == Init => KeepInv
  <1> SUFFICES ASSUME Init PROVE KeepInv
    OBVIOUS
  <1>1. \A r \in Requests : InHand(r)
    BY DEF Init, InHand, Working, At, Idle
  <1>2. \A t \in Slots : Tended(t)
    BY DEF Init, Tended, Committing, Idle
  <1> QED
    BY <1>1, <1>2, InitTypeOK DEF KeepInv, Init

(* No row comes back, none that stays is restored to use, and no excuse is *)
(* withdrawn.                                                              *)
Onward ==
    /\ drawn \subseteq drawn' /\ rows' \cap drawn \subseteq rows
    /\ superseded \cap rows' \subseteq superseded'
    /\ excused \subseteq excused'

LEMMA StepOnward == TypeOK /\ [Next]_vars => Onward
  <1> SUFFICES ASSUME TypeOK, [Next]_vars PROVE Onward
    OBVIOUS
  <1>1. ASSUME NEW s \in Saves, Presign(s) \/ Land(s) \/ Finalize(s) PROVE Onward
    BY <1>1 DEF Presign, Land, Finalize, marks, Onward
  <1>2. ASSUME NEW r \in Requests, NEW s \in Saves, Commit(r, s) \/ Delete(r, s) \/ PanelDelete(r, s)
        PROVE  Onward
    BY <1>2 DEF Commit, Delete, PanelDelete, DropRows, store, Onward
  <1>3. ASSUME NEW r \in Requests, CommitDrop(r) \/ DeleteDoomed(r) \/ PurgeRows(r)
        PROVE  Onward
    BY <1>3 DEF CommitDrop, DeleteDoomed, PurgeRows, DropRows, Onward
  <1>4. ASSUME NEW r \in Requests, Purge(r)
        PROVE  Onward
    BY <1>4 DEF Purge, store, Onward, TypeOK
  <1>5. ASSUME NEW r \in Requests,
               \/ CommitList(r) \/ CommitLimits(r) \/ CommitFile(r) \/ CommitSupersede(r)
               \/ CommitReplaced(r) \/ CommitOwn(r) \/ RetainedJob(r) \/ Unlink(r)
               \/ PurgeFile(r) \/ RequestDies(r)
        PROVE  Onward
    BY <1>5 DEF CommitList, CommitLimits, CommitFile, CommitSupersede, CommitReplaced,
       CommitOwn, RetainedJob, Unlink, PurgeFile, RequestDies, store, marks, Onward
  <1>6. CASE UNCHANGED vars
    BY <1>6 DEF vars, Onward
  <1> QED
    BY <1>1, <1>2, <1>3, <1>4, <1>5, <1>6 DEF Next, Step

LEMMA OthersInHand ==
    ASSUME Onward, NEW q \in Requests, InHand(q), req'[q] = req[q]
    PROVE  InHand(q)'
  BY DEF Onward, InHand, Doomed, Working, At

(* A step of a request: what it now has in hand.                           *)
LEMMA OwnInHand ==
    ASSUME KeepInv, NEW r \in Requests, Step(r)
    PROVE  InHand(r)'
  <1>t. TypeOK /\ InHand(r)
    BY DEF KeepInv
  <1>g. ASSUME NEW state, Goto(r, state) PROVE req'[r] = state
    BY <1>g, <1>t DEF Goto, TypeOK
  <1>1. ASSUME NEW s \in Saves, Commit(r, s) PROVE InHand(r)'
    BY <1>1, <1>g DEF Commit, InHand, Working, At
  <1>2. ASSUME NEW s \in Saves, Delete(r, s) PROVE InHand(r)'
    <2>1. req'[r] = [pc |-> "unlink", file |-> s, rest |-> {}]
      BY <1>2, <1>g DEF Delete
    <2>2. s \in drawn' \ rows'
      BY <1>2, <1>t DEF Delete, DropRows, TypeOK
    <2> QED
      BY <2>1, <2>2 DEF InHand, Working, At
  <1>3. ASSUME NEW s \in Saves, PanelDelete(r, s) PROVE InHand(r)'
    <2>1. req'[r] = [pc |-> "doomed", rest |-> {s}]
      BY <1>3, <1>g DEF PanelDelete
    <2>2. s \in drawn' /\ SlotOf[s] \in excused'
      BY <1>3, <1>t DEF PanelDelete, store, TypeOK
    <2> QED
      BY <2>1, <2>2 DEF InHand, Doomed, Working, At
  <1>4. CASE CommitList(r)
    <2>1. PICK s, old, up : /\ old = ReadOld(s)
                           /\ req'[r] = [pc |-> "limits", save |-> s, old |-> old, up |-> up]
      BY <1>4, <1>g DEF CommitList
    <2>2. \A o \in old : o \in drawn' /\ o # s /\ SlotOf[o] = SlotOf[s]
      BY <1>4, <1>t, <2>1 DEF CommitList, ReadOld, SlotOthers, TypeOK, store
    <2> QED
      BY <2>1, <2>2 DEF InHand, Working, At
  <1>5. CASE CommitLimits(r) \/ CommitFile(r)
    <2>1. PICK keep : req'[r] = [pc |-> "replace", save |-> req[r].save, old |-> req[r].old,
                                 keep |-> keep]
      BY <1>5, <1>g DEF CommitLimits, CommitFile
    <2>2. Working(r) /\ drawn' = drawn
      BY <1>5 DEF CommitLimits, CommitFile, Working, store
    <2> QED
      BY <1>t, <2>1, <2>2 DEF InHand, Working, At
  <1>6. CASE CommitDrop(r)
    <2>1. PICK o \in req[r].old \ req[r].keep :
            /\ DropRows({o})
            /\ req'[r] = [pc |-> "file", save |-> req[r].save, old |-> req[r].old \ {o},
                          keep |-> req[r].keep, file |-> o]
      BY <1>6, <1>g DEF CommitDrop
    <2>2. Working(r)
      BY <1>6 DEF CommitDrop, Working
    <2>3. drawn' = drawn /\ o \in drawn
      BY <1>6, <1>t, <2>1, <2>2 DEF CommitDrop, InHand
    <2> QED
      BY <1>t, <2>1, <2>2, <2>3 DEF InHand, Working, At, DropRows
  <1>7. CASE CommitSupersede(r)
    <2>1. PICK o \in req[r].old : req'[r] = [req[r] EXCEPT !.old = @ \ {o}]
      BY <1>7, <1>g DEF CommitSupersede
    <2>2. /\ req'[r].pc = "replace" /\ req'[r].save = req[r].save
          /\ req'[r].old = req[r].old \ {o}
      BY <1>7, <1>t, <2>1, RequestAt DEF CommitSupersede, At
    <2>3. Working(r) /\ drawn' = drawn
      BY <1>7 DEF CommitSupersede, Working
    <2> QED
      BY <1>t, <2>2, <2>3 DEF InHand, Working, At
  <1>8. CASE CommitReplaced(r)
    BY <1>8, <1>g DEF CommitReplaced, InHand, Working, At
  <1>9. CASE CommitOwn(r) \/ RequestDies(r)
    BY <1>9, <1>g DEF CommitOwn, RequestDies, Idle, InHand, Working, At
  <1>10. CASE RetainedJob(r)
    <2>1. req'[r] = [pc |-> "doomed", rest |-> superseded]
      BY <1>10, <1>g DEF RetainedJob, Retained
    <2>2. UNCHANGED <<drawn, superseded>> /\ superseded \subseteq drawn
      BY <1>10, <1>t DEF RetainedJob, store, TypeOK
    <2> QED
      BY <2>1, <2>2 DEF InHand, Doomed, Working, At
  <1>11. CASE DeleteDoomed(r)
    <2>1. PICK s \in req[r].rest :
            /\ DropRows({s})
            /\ req'[r] = [pc |-> "unlink", file |-> s, rest |-> req[r].rest \ {s}]
      BY <1>11, <1>g DEF DeleteDoomed
    <2>2. \A x \in req[r].rest : Doomed(x)
      BY <1>11, <1>t DEF DeleteDoomed, InHand
    <2>3. UNCHANGED <<drawn, excused>>
      BY <1>11 DEF DeleteDoomed
    <2> QED
      BY <2>1, <2>2, <2>3 DEF InHand, Doomed, Working, At, DropRows
  <1>12. CASE Unlink(r)
    <2>1. req'[r] = Idle \/ req'[r] = [pc |-> "doomed", rest |-> req[r].rest]
      BY <1>12, <1>g DEF Unlink
    <2>2. \A x \in req[r].rest : Doomed(x)
      BY <1>12, <1>t DEF Unlink, InHand
    <2>3. UNCHANGED <<drawn, rows, superseded, excused>>
      BY <1>12 DEF Unlink, marks
    <2> QED
      BY <2>1, <2>2, <2>3 DEF InHand, Doomed, Working, At, Idle
  <1>13. CASE Purge(r)
    <2>1. req'[r] = [pc |-> "purge", rest |-> rows]
      BY <1>13, <1>g DEF Purge
    <2>2. drawn' = drawn /\ rows \subseteq drawn /\ excused' = Slots
      BY <1>13, <1>t DEF Purge, store, TypeOK
    <2> QED
      BY <2>1, <2>2 DEF InHand, Working, At
  <1>14. CASE PurgeRows(r)
    <2>1. req'[r] = [pc |-> "purgeFiles", rest |-> req[r].rest]
      BY <1>14, <1>g DEF PurgeRows
    <2>2. rows' = {} /\ drawn' = drawn /\ req[r].rest \subseteq drawn
      BY <1>14, <1>t DEF PurgeRows, DropRows, InHand
    <2> QED
      BY <2>1, <2>2 DEF InHand, Working, At
  <1>15. CASE PurgeFile(r)
    <2>1. PICK s : req'[r] = Idle \/ req'[r] = [req[r] EXCEPT !.rest = @ \ {s}]
      BY <1>15, <1>g DEF PurgeFile
    <2>2. \/ req'[r] = Idle
          \/ req'[r].pc = "purgeFiles" /\ req'[r].rest = req[r].rest \ {s}
      BY <1>15, <1>t, <2>1, RequestAt DEF PurgeFile, At
    <2>3. req[r].rest \subseteq drawn \ rows /\ UNCHANGED <<drawn, rows>>
      BY <1>15, <1>t DEF PurgeFile, InHand
    <2> QED
      BY <2>2, <2>3 DEF InHand, Working, At, Idle
  <1> QED
    BY <1>1, <1>2, <1>3, <1>4, <1>5, <1>6, <1>7, <1>8, <1>9, <1>10, <1>11, <1>12, <1>13, <1>14,
       <1>15 DEF Step

LEMMA OneMoves ==
    ASSUME TypeOK, NEW r \in Requests, Step(r), NEW q \in Requests \ {r}
    PROVE  req'[q] = req[q]
  BY DEF TypeOK, Goto, Step, Commit, Delete, PanelDelete, CommitList, CommitLimits, CommitDrop,
     CommitFile, CommitSupersede, CommitReplaced, CommitOwn, RetainedJob, DeleteDoomed, Unlink,
     Purge, PurgeRows, PurgeFile, RequestDies

(* A file goes only when its row has gone, so a row whose bytes are in     *)
(* place keeps them.                                                       *)
LEMMA FilesOfRowsStay ==
    ASSUME KeepInv, NEW r \in Requests, Step(r)
    PROVE  \A s \in rows : s \in disk => s \in disk'
  <1>1. InHand(r)
    BY DEF KeepInv
  <1>2. CASE CommitFile(r)
    BY <1>1, <1>2 DEF CommitFile, InHand
  <1>3. CASE Unlink(r)
    BY <1>1, <1>3 DEF Unlink, InHand
  <1>4. CASE PurgeFile(r)
    BY <1>1, <1>4 DEF PurgeFile, InHand
  <1> QED
    BY <1>2, <1>3, <1>4 DEF Step, Commit, Delete, PanelDelete, CommitList, CommitLimits,
       CommitDrop, CommitSupersede, CommitReplaced, CommitOwn, RetainedJob, DeleteDoomed,
       Purge, PurgeRows, RequestDies, store

CommitCounters == {"list", "limits", "replace", "file", "own"}

(* A step that is no part of a commit, or ends one without completing it,  *)
(* and takes nothing the slot lists.                                       *)
LEMMA TendedQuiet ==
    ASSUME KeepInv, NEW t \in Slots, Tended(t),
           NEW r \in Requests, NEW state, Goto(r, state), state.pc \notin CommitCounters,
           uploaded' \subseteq uploaded, \A s \in rows : s \in disk => s \in disk',
           \A s \in uploaded \ superseded : SlotOf[s] = t => s \in uploaded' \ superseded',
           filled' = filled
    PROVE  Tended(t)'
  <1>1. TypeOK
    BY DEF KeepInv
  <1>2. req'[r] = state /\ \A q \in Requests \ {r} : req'[q] = req[q]
    BY <1>1 DEF Goto, TypeOK
  <1>3. Committing(t)' \subseteq Committing(t) /\ \A q \in Committing(t)' : req'[q] = req[q]
    BY <1>2 DEF Committing, CommitCounters
  <1>4. uploaded \subseteq rows
    BY <1>1 DEF TypeOK
  <1>5. \A s \in uploaded' : SlotOf[s] = t => s \in disk'
    BY <1>4 DEF Tended
  <1>6. \A q \in Committing(t)' : req'[q].save \in uploaded' \ superseded'
    BY <1>3 DEF Tended, Committing
  <1>7. t \in filled' => (Listed(t) \cap disk)' # {}
    BY <1>4 DEF Tended, Listed
  <1> QED
    BY <1>3, <1>5, <1>6, <1>7 DEF Tended

(* A commit that goes on, and may take from its slot all but its own save. *)
LEMMA TendedCommitting ==
    ASSUME KeepInv, NEW t \in Slots, Tended(t),
           NEW r \in Requests, req[r].pc \in CommitCounters,
           NEW state, Goto(r, state), state.pc \in CommitCounters, state.save = req[r].save,
           uploaded' \subseteq uploaded, \A s \in rows : s \in disk => s \in disk',
           \A s \in uploaded \ superseded :
               \/ s \in uploaded' \ superseded'
               \/ s # req[r].save /\ SlotOf[s] = SlotOf[req[r].save],
           filled' = filled
    PROVE  Tended(t)'
  <1>1. TypeOK
    BY DEF KeepInv
  <1>2. req'[r] = state /\ \A q \in Requests \ {r} : req'[q] = req[q]
    BY <1>1 DEF Goto, TypeOK
  <1>3. Committing(t)' = Committing(t) /\ \A q \in Requests : q \in Committing(t) => req'[q].save = req[q].save
    BY <1>2 DEF Committing, CommitCounters
  <1>4. uploaded \subseteq rows
    BY <1>1 DEF TypeOK
  <1>5. \A s \in uploaded' : SlotOf[s] = t => s \in disk'
    BY <1>4 DEF Tended
  <1>6. CASE SlotOf[req[r].save] = t
    <2>1. Committing(t) = {r}
      BY <1>6 DEF Tended, Committing, CommitCounters
    <2>2. req[r].save \in uploaded' \ superseded'
      BY <2>1 DEF Tended
    <2>3. req[r].save \in (Listed(t) \cap disk)'
      BY <1>5, <1>6, <2>2 DEF Listed
    <2> QED
      BY <1>3, <1>5, <2>1, <2>2, <2>3 DEF Tended
  <1>7. CASE SlotOf[req[r].save] # t
    <2>1. \A s \in uploaded \ superseded : SlotOf[s] = t => s \in uploaded' \ superseded'
      BY <1>7
    <2>2. \A q \in Committing(t)' : req'[q].save \in uploaded' \ superseded'
      BY <1>3, <2>1 DEF Tended, Committing
    <2>3. t \in filled' => (Listed(t) \cap disk)' # {}
      BY <1>4, <2>1 DEF Tended, Listed
    <2> QED
      BY <1>3, <1>5, <2>2, <2>3 DEF Tended
  <1> QED
    BY <1>6, <1>7

LEMMA TendedStep ==
    ASSUME AllExcused, KeepInv, NEW r \in Requests, Step(r), NEW t \in Slots \ excused'
    PROVE  Tended(t)'
  <1>t. TypeOK /\ InHand(r)
    BY DEF KeepInv
  <1>e. t \in Slots /\ t \notin excused
    BY StepOnward DEF Next, Onward, KeepInv
  <1>d. Tended(t)
    BY <1>e DEF KeepInv
  <1>f. \A s \in rows : s \in disk => s \in disk'
    BY FilesOfRowsStay
  <1>g. ASSUME NEW state, Goto(r, state)
        PROVE  req'[r] = state /\ \A q \in Requests \ {r} : req'[q] = req[q]
    BY <1>t, <1>g DEF Goto, TypeOK
  <1>1. ASSUME NEW s \in Saves, Commit(r, s) PROVE Tended(t)'
    <2>1. /\ req'[r] = [pc |-> "list", save |-> s]
          /\ \A q \in Requests \ {r} : req'[q] = req[q]
          /\ req[r].pc = "idle"
      BY <1>1, <1>g DEF Commit, At
    <2>2. UNCHANGED <<uploaded, superseded, disk, filled>>
      BY <1>1 DEF Commit, store
    <2>3. CASE SlotOf[s] = t
      <3>1. Straying(s) = {}
        BY <1>1, <2>3 DEF Commit
      <3>2. Committing(t) = {} /\ s \in uploaded \ superseded
        BY <1>1, <1>t, <2>3, <3>1 DEF Straying, AllExcused, Commit, TypeOK
      <3>3. Committing(t)' = {r}
        BY <2>1, <2>3, <3>2 DEF Committing
      <3> QED
        BY <1>d, <2>1, <2>2, <3>2, <3>3 DEF Tended, Listed
    <2>4. CASE SlotOf[s] # t
      <3>1. Committing(t)' = Committing(t) /\ \A q \in Committing(t) : req'[q] = req[q]
        BY <2>1, <2>4 DEF Committing
      <3> QED
        BY <1>d, <2>2, <3>1 DEF Tended, Listed
    <2> QED
      BY <2>3, <2>4
  <1>2. ASSUME NEW s \in Saves, Delete(r, s) PROVE Tended(t)'
    <2>1. SlotOf[s] # t /\ DropRows({s}) /\ filled' = filled
      BY <1>2 DEF Delete
    <2>2. \A x \in uploaded \ superseded : SlotOf[x] = t => x \in uploaded' \ superseded'
      BY <2>1 DEF DropRows
    <2> QED
      BY <1>2, <1>e, <1>d, <1>f, <2>1, <2>2, TendedQuiet DEF Delete, DropRows, CommitCounters
  <1>3. ASSUME NEW s \in Saves, PanelDelete(r, s) PROVE Tended(t)'
    BY <1>3, <1>e, <1>d, <1>f, TendedQuiet DEF PanelDelete, store, CommitCounters
  <1>4. CASE RetainedJob(r) \/ Unlink(r) \/ Purge(r) \/ RequestDies(r)
    BY <1>4, <1>e, <1>d, <1>f, TendedQuiet
    DEF RetainedJob, Unlink, Purge, RequestDies, Idle, store, marks, CommitCounters
  <1>5. CASE PurgeFile(r)
    <2>1. PICK s : Goto(r, IF req[r].rest = {s} THEN Idle ELSE [req[r] EXCEPT !.rest = @ \ {s}])
      BY <1>5 DEF PurgeFile
    <2>2. [req[r] EXCEPT !.rest = @ \ {s}].pc = "purgeFiles"
      BY <1>5, <1>t, RequestAt DEF PurgeFile, At
    <2> DEFINE state == IF req[r].rest = {s} THEN Idle ELSE [req[r] EXCEPT !.rest = @ \ {s}]
    <2>3. Goto(r, state) /\ state.pc \notin CommitCounters
      BY <2>1, <2>2 DEF Idle, CommitCounters
    <2> HIDE DEF state
    <2> QED
      BY <1>5, <1>e, <1>d, <1>f, <2>3, TendedQuiet DEF PurgeFile, marks
  <1>6. CASE PurgeRows(r)
    BY <1>6, <1>t, <1>e DEF PurgeRows, InHand
  <1>7. CASE DeleteDoomed(r)
    <2>1. PICK s \in req[r].rest :
            /\ DropRows({s})
            /\ Goto(r, [pc |-> "unlink", file |-> s, rest |-> req[r].rest \ {s}])
      BY <1>7 DEF DeleteDoomed
    <2>2. Doomed(s)
      BY <1>7, <1>t DEF DeleteDoomed, InHand
    <2>3. \A x \in uploaded \ superseded : SlotOf[x] = t => x \in uploaded' \ superseded'
      BY <1>t, <1>e, <2>1, <2>2 DEF Doomed, DropRows, TypeOK
    <2> QED
      BY <1>7, <1>e, <1>d, <1>f, <2>1, <2>3, TendedQuiet DEF DeleteDoomed, DropRows, CommitCounters
  <1>8. CASE CommitList(r) \/ CommitLimits(r) \/ CommitFile(r) \/ CommitReplaced(r)
    <2>1. PICK state : Goto(r, state) /\ state.pc \in CommitCounters /\ state.save = req[r].save
      BY <1>8 DEF CommitList, CommitLimits, CommitFile, CommitReplaced, CommitCounters
    <2>2. req[r].pc \in CommitCounters /\ UNCHANGED <<uploaded, superseded, filled>>
      BY <1>8 DEF CommitList, CommitLimits, CommitFile, CommitReplaced, CommitCounters, At, store, marks
    <2> QED
      BY <1>e, <1>d, <1>f, <2>1, <2>2, TendedCommitting
  <1>9. CASE CommitDrop(r)
    <2>1. PICK o \in req[r].old :
            /\ DropRows({o})
            /\ Goto(r, [pc |-> "file", save |-> req[r].save, old |-> req[r].old \ {o},
                        keep |-> req[r].keep, file |-> o])
      BY <1>9 DEF CommitDrop
    <2>2. o # req[r].save /\ SlotOf[o] = SlotOf[req[r].save]
      BY <1>9, <1>t DEF CommitDrop, InHand, Working
    <2>3. PICK state : Goto(r, state) /\ state.pc \in CommitCounters /\ state.save = req[r].save
      BY <2>1 DEF CommitCounters
    <2>4. req[r].pc \in CommitCounters /\ filled' = filled /\ uploaded' \subseteq uploaded
      BY <1>9, <2>1 DEF CommitDrop, CommitCounters, At, DropRows
    <2>5. \A s \in uploaded \ superseded :
               \/ s \in uploaded' \ superseded'
               \/ s # req[r].save /\ SlotOf[s] = SlotOf[req[r].save]
      BY <2>1, <2>2 DEF DropRows
    <2> QED
      BY <1>e, <1>d, <1>f, <2>3, <2>4, <2>5, TendedCommitting
  <1>10. CASE CommitSupersede(r)
    <2>1. PICK o \in req[r].old :
            /\ superseded' = superseded \cup ({o} \cap rows)
            /\ Goto(r, [req[r] EXCEPT !.old = @ \ {o}])
      BY <1>10 DEF CommitSupersede
    <2>2. o # req[r].save /\ SlotOf[o] = SlotOf[req[r].save]
      BY <1>10, <1>t DEF CommitSupersede, InHand, Working
    <2>3. PICK state : Goto(r, state) /\ state.pc \in CommitCounters /\ state.save = req[r].save
      BY <1>10, <1>t, <2>1, RequestAt DEF CommitSupersede, CommitCounters, At
    <2>4. req[r].pc \in CommitCounters /\ filled' = filled /\ uploaded' = uploaded
      BY <1>10 DEF CommitSupersede, CommitCounters, At, marks
    <2>5. \A s \in uploaded \ superseded :
               \/ s \in uploaded' \ superseded'
               \/ s # req[r].save /\ SlotOf[s] = SlotOf[req[r].save]
      BY <2>1, <2>2, <2>4
    <2> QED
      BY <1>e, <1>d, <1>f, <2>3, <2>4, <2>5, TendedCommitting
  <1>11. CASE CommitOwn(r)
    <2> DEFINE s == req[r].save
    <2>1. /\ req'[r] = Idle /\ \A q \in Requests \ {r} : req'[q] = req[q]
          /\ req[r].pc = "own"
      BY <1>11, <1>g DEF CommitOwn, At
    <2>2. /\ uploaded' = uploaded \cup ({s} \cap rows) /\ UNCHANGED <<superseded, disk>>
          /\ filled' = IF s \in rows THEN filled \cup {SlotOf[s]} ELSE filled
      BY <1>11 DEF CommitOwn
    <2> HIDE DEF s
    <2>3. Committing(t)' \subseteq Committing(t) /\ \A q \in Committing(t)' : req'[q] = req[q]
      BY <2>1 DEF Committing, Idle
    <2>4. CASE SlotOf[s] = t
      <3>1. r \in Committing(t)
        BY <2>1, <2>4 DEF Committing, s
      <3>2. s \in uploaded \ superseded
        BY <1>d, <3>1 DEF Tended, s
      <3>3. s \in Listed(t) \cap disk
        BY <1>d, <2>4, <3>2 DEF Tended, Listed
      <3>4. uploaded' = uploaded /\ (Listed(t) \cap disk)' = Listed(t) \cap disk
        BY <2>2, <3>2 DEF Listed
      <3> QED
        BY <1>d, <2>2, <2>3, <3>3, <3>4 DEF Tended
    <2>5. CASE SlotOf[s] # t
      <3>1. t \in filled' => t \in filled
        BY <2>2, <2>5
      <3>2. \A x \in uploaded' : SlotOf[x] = t => x \in uploaded
        BY <2>2, <2>5
      <3>3. Listed(t)' = Listed(t)
        BY <2>2, <2>5 DEF Listed
      <3> QED
        BY <1>d, <2>2, <2>3, <3>1, <3>2, <3>3 DEF Tended
    <2> QED
      BY <2>4, <2>5
  <1> QED
    BY <1>1, <1>2, <1>3, <1>4, <1>5, <1>6, <1>7, <1>8, <1>9, <1>10, <1>11 DEF Step

LEMMA StepKeepInv ==
    ASSUME AllExcused, KeepInv, [Next]_vars
    PROVE  KeepInv'
  <1>1. TypeOK' /\ Onward /\ TypeOK
    BY StepTypeOK, StepOnward DEF KeepInv
  <1>2. ASSUME NEW r \in Requests, Step(r) PROVE KeepInv'
    <2>1. \A q \in Requests : InHand(q)'
      BY <1>1, <1>2, OneMoves, OwnInHand, OthersInHand DEF KeepInv
    <2>2. \A t \in Slots \ excused' : Tended(t)'
      BY <1>2, TendedStep
    <2>3. landing' = landing /\ rows' \subseteq rows
      BY <1>2 DEF Step, Commit, Delete, PanelDelete, CommitList, CommitLimits, CommitDrop,
         CommitFile, CommitSupersede, CommitReplaced, CommitOwn, RetainedJob, DeleteDoomed,
         Unlink, Purge, PurgeRows, PurgeFile, RequestDies, DropRows, store
    <2>4. (landing \cap rows \subseteq disk)'
      BY <1>2, <2>3, FilesOfRowsStay DEF KeepInv
    <2> QED
      BY <1>1, <2>1, <2>2, <2>4 DEF KeepInv
  <1>3. ASSUME NEW s \in Saves, Presign(s) \/ Land(s) \/ Finalize(s) PROVE KeepInv'
    <2>1. /\ UNCHANGED <<req, excused, filled, superseded>> /\ disk \subseteq disk'
          /\ uploaded \subseteq uploaded'
          /\ uploaded' \subseteq uploaded \cup (landing \cap rows)
      BY <1>3 DEF Presign, Land, Finalize, marks
    <2>2. \A q \in Requests : InHand(q)'
      BY <1>1, <2>1, OthersInHand DEF KeepInv
    <2>3. (landing \cap rows \subseteq disk)'
      BY <1>1, <1>3 DEF KeepInv, Presign, Land, Finalize, TypeOK
    <2>4. ASSUME NEW t \in Slots \ excused PROVE Tended(t)'
      <3>1. Tended(t) /\ landing \cap rows \subseteq disk
        BY DEF KeepInv
      <3>2. Committing(t)' = Committing(t) /\ Listed(t) \subseteq Listed(t)'
        BY <2>1 DEF Committing, Listed
      <3> QED
        BY <2>1, <3>1, <3>2 DEF Tended
    <2> QED
      BY <1>1, <2>1, <2>2, <2>3, <2>4 DEF KeepInv
  <1>4. CASE UNCHANGED vars
    BY <1>1, <1>4 DEF vars, KeepInv, InHand, Doomed, Working, At, Tended, Committing, Listed
  <1> QED
    BY <1>2, <1>3, <1>4 DEF Next

(* A slot to which a save was committed goes on listing one that is on     *)
(* disk, for any number of slots, devices and jobs, wherever they die:     *)
(* excused are deletions that were asked for, two commits of the slot at   *)
(* once, and the commit of a save that is superseded or not yet uploaded.  *)
THEOREM SlotKeeps ==
    ASSUME AllExcused
    PROVE  Spec => []SlotKeepsASave
  <1>1. KeepInv /\ [Next]_vars => KeepInv'
    BY StepKeepInv
  <1>2. KeepInv => SlotKeepsASave
    BY DEF KeepInv, TypeOK, Tended, SlotKeepsASave
  <1> QED
    BY InitKeepInv, <1>1, <1>2, PTL DEF Spec

-----------------------------------------------------------------------------
(* Backups in Saves.  Proven is the instance the theorems of               *)
(* ArtifactsProofs are taken from; its definitions are those of Bak.       *)
Proven == INSTANCE ArtifactsProofs
    WITH rows <- bakRows, uploaded <- bakUploaded, disk <- bakDisk, landing <- bakLanding,
         Handlers <- Requests

LEMMA SameSize ==
    /\ \A S : Bak!Cardinality(S) = Proven!Cardinality(S)
    /\ \A S : IsFiniteSet(S) => Proven!IsFiniteSet(S)
  BY DEF Bak!Cardinality, Proven!Cardinality, IsFiniteSet, Proven!IsFiniteSet

LEMMA SameCount == \A g : Bak!Counted(g) = Proven!Counted(g)
  BY DEF Bak!Counted, Proven!Counted, Bak!Of, Proven!Of

LEMMA SameStep == Bak!Next => Proven!Next
  <1>1. ASSUME NEW a, Bak!Land(a) PROVE Proven!Land(a)
    BY <1>1 DEF Bak!Land, Proven!Land, Bak!stored, Proven!stored
  <1>2. ASSUME NEW a, Bak!Finalize(a) PROVE Proven!Finalize(a)
    BY <1>2 DEF Bak!Finalize, Proven!Finalize, Bak!stored, Proven!stored
  <1>3. ASSUME NEW a, Bak!SetFrozen(a) PROVE Proven!SetFrozen(a)
    BY <1>3 DEF Bak!SetFrozen, Proven!SetFrozen, Bak!stored, Proven!stored
  <1>4. ASSUME NEW a, NEW f, Bak!Unshare(a, f) PROVE Proven!Unshare(a, f)
    BY <1>4 DEF Bak!Unshare, Proven!Unshare, Bak!stored, Proven!stored
  <1>5. ASSUME NEW h, Bak!CreateFails(h) PROVE Proven!CreateFails(h)
    BY <1>5 DEF Bak!CreateFails, Proven!CreateFails, Bak!At, Proven!At, Bak!Goto,
       Proven!Goto, Bak!Idle, Proven!Idle, Bak!stored, Proven!stored
  <1>6. ASSUME NEW h, Bak!CreateInserts(h) PROVE Proven!CreateInserts(h)
    BY <1>6 DEF Bak!CreateInserts, Proven!CreateInserts, Bak!At, Proven!At, Bak!Goto,
       Proven!Goto, Bak!Idle, Proven!Idle, Bak!stored, Proven!stored
  <1>7. ASSUME NEW h, Bak!ShareInserts(h) PROVE Proven!ShareInserts(h)
    BY <1>7 DEF Bak!ShareInserts, Proven!ShareInserts, Bak!At, Proven!At, Bak!Goto,
       Proven!Goto, Bak!Idle, Proven!Idle, Bak!stored, Proven!stored
  <1>8. ASSUME NEW h, Bak!PanelDrops(h) PROVE Proven!PanelDrops(h)
    BY <1>8 DEF Bak!PanelDrops, Proven!PanelDrops, Bak!At, Proven!At, Bak!DropRows,
       Proven!DropRows, Bak!Goto, Proven!Goto, Bak!Idle, Proven!Idle, Bak!stored,
       Proven!stored
  <1>9. ASSUME NEW h, Bak!PurgeLists(h) PROVE Proven!PurgeLists(h)
    BY <1>9 DEF Bak!PurgeLists, Proven!PurgeLists, Bak!At, Proven!At, Bak!Goto, Proven!Goto,
       Bak!stored, Proven!stored
  <1>10. ASSUME NEW h, Bak!PurgeDrops(h) PROVE Proven!PurgeDrops(h)
    BY <1>10 DEF Bak!PurgeDrops, Proven!PurgeDrops, Bak!At, Proven!At, Bak!DropRows,
       Proven!DropRows, Bak!Goto, Proven!Goto, Bak!Idle, Proven!Idle, Bak!stored,
       Proven!stored
  <1>11. ASSUME NEW h, Bak!Unlink(h) PROVE Proven!Unlink(h)
    BY <1>11 DEF Bak!Unlink, Proven!Unlink, Bak!At, Proven!At, Bak!Goto, Proven!Goto,
       Bak!Idle, Proven!Idle
  <1>12. ASSUME NEW h, NEW a, Bak!CreateCounted(h, a) PROVE Proven!CreateCounted(h, a)
    BY <1>12, SameCount, SameSize DEF Bak!CreateCounted, Proven!CreateCounted, Bak!At,
       Proven!At, Bak!Goto, Proven!Goto, Bak!stored, Proven!stored
  <1>13. ASSUME NEW h, NEW a, Bak!Delete(h, a) PROVE Proven!Delete(h, a)
    BY <1>13 DEF Bak!Delete, Proven!Delete, Bak!At, Proven!At, Bak!DropRows,
       Proven!DropRows, Bak!Goto, Proven!Goto, Bak!Idle, Proven!Idle, Bak!stored,
       Proven!stored
  <1>14. ASSUME NEW h, NEW a, Bak!PanelFinds(h, a) PROVE Proven!PanelFinds(h, a)
    BY <1>14 DEF Bak!PanelFinds, Proven!PanelFinds, Bak!At, Proven!At, Bak!Goto,
       Proven!Goto, Bak!stored, Proven!stored
  <1>15. ASSUME NEW h, NEW a, NEW f, Bak!ShareChecked(h, a, f) PROVE Proven!ShareChecked(h, a, f)
    BY <1>15 DEF Bak!ShareChecked, Proven!ShareChecked, Bak!At, Proven!At, Bak!Goto,
       Proven!Goto, Bak!stored, Proven!stored, Bak!Shareable, Proven!Shareable, Bak!Listed,
       Proven!Listed
  <1> QED
    BY <1>1, <1>2, <1>3, <1>4, <1>5, <1>6, <1>7, <1>8, <1>9, <1>10, <1>11, <1>12, <1>13, <1>14,
       <1>15 DEF Bak!Next, Proven!Next

LEMMA SavesStep == [SavesNext]_allVars => [Proven!Next]_(Proven!vars)
  BY SameStep DEF SavesNext, EmulationStep, BackupsStep, allVars, bakVars, Proven!vars

LEMMA SavesInitially == SavesInit => Proven!Init
  BY DEF SavesInit, Bak!Init, Proven!Init, Bak!Idle, Proven!Idle

(* What is shared can be downloaded, whatever deletions, uploads and       *)
(* shares interleave, for any number of each.                              *)
THEOREM SharedStay == SavesSpec => []SharedIsDownloadable
  <1>1. Proven!Spec => []Proven!SharedIsDownloadable
    BY Proven!SharesStand
  <1>2. Proven!SharedIsDownloadable => SharedIsDownloadable
    BY DEF SharedIsDownloadable, Bak!SharedIsDownloadable, Proven!SharedIsDownloadable,
       Bak!SharedWith, Proven!SharedWith, Bak!Listed, Proven!Listed
  <1> QED
    BY SavesInitially, SavesStep, <1>1, <1>2, PTL DEF SavesSpec, Proven!Spec

(* A game's backups pass the limit by racing only: by at most one for each *)
(* request there could be beside the one that was let pass last, for any   *)
(* number of games and backups, any limit and any finite set of requests.  *)
THEOREM LimitPassedOnlyByRacing ==
    ASSUME IsFiniteSet(Requests), Requests # {}, Limit \in Nat
    PROVE  SavesSpec => []OverLimitOnlyByRacing
  <1>1. Proven!Spec => []Proven!OverLimitOnlyByRacing
    BY SameSize, Proven!LimitPassedByRacing
  <1>2. Proven!OverLimitOnlyByRacing => OverLimitOnlyByRacing
    BY SameSize DEF OverLimitOnlyByRacing, Bak!OverLimitOnlyByRacing, Proven!OverLimitOnlyByRacing,
       Bak!Of, Proven!Of, Bak!At, Proven!At
  <1> QED
    BY SavesInitially, SavesStep, <1>1, <1>2, PTL DEF SavesSpec, Proven!Spec
=============================================================================
