---------------------------- MODULE ProfilesProofs ----------------------------
(* Theorems about Profiles, one part after the other, for any pictures,    *)
(* captures, members, games and requests.                                  *)
EXTENDS Profiles, SumProofs, Sequences, TLAPS

-----------------------------------------------------------------------------
(* What a step is to each of the parts.                                    *)
LEMMA PartsStep ==
    ASSUME [ProfilesNext]_allVars
    PROVE  [Ach!Next]_achVars /\ [Lnk!Next]_lnkVars /\ [Pro!Next]_proVars
  BY DEF ProfilesNext, ReportsStep, SouvenirsStep, LinksStep, ProfileStep, allVars

-----------------------------------------------------------------------------
(* Souvenirs.  What a claim under way holds, and which souvenirs are kept. *)
Kept(s) == s \in shotUploaded /\ Ach!Ready(s)

Claims == {h \in Workers : sync[h].pc \in {"claim", "check", "file"}}
Deciding == {h \in Workers : sync[h].pc \in {"check", "file"}}

ShapeOf(t) == t = [pc |-> t.pc, game |-> t.game, todo |-> t.todo, unlocked |-> t.unlocked,
                   done |-> t.done]

(* A capture being decided on was uploaded, and goes with its row.         *)
Decides(h) ==
    LET s == Ach!Claiming(h).id IN
    /\ Ach!Wanted(h) # {} /\ s \in known
    /\ s \in shotRows => s \in shotUploaded

(* What is about to be filed shares nothing with what is filed already.    *)
NoOtherHas(h) ==
    sync[h].game \notin clashed =>
        \A s \in shotRows \ {Ach!Claiming(h).id} :
            Ach!Ready(s) /\ filed[s].game = sync[h].game
                => filed[s].names \cap Ach!Wanted(h) = {}

InClaim(h) ==
    /\ h \in Claims => ShapeOf(sync[h]) /\ \A s \in sync[h].done \ given : Kept(s)
    /\ h \in Deciding => Decides(h)
    /\ sync[h].pc = "file" => NoOtherHas(h)

(* Two claims of a game that decide at once have clashed.                  *)
Apart ==
    \A h, o \in Deciding :
        h # o /\ sync[h].game = sync[o].game => sync[h].game \in clashed

RowsInPlace ==
    /\ known \subseteq Shots /\ shotRows \subseteq known
    /\ shotUploaded \subseteq shotRows \cap shotDisk
    /\ trash \subseteq known \ shotRows
    /\ \A s \in Shots : filed[s] # Ach!Pending => s \in shotRows

Functions == filed = [s \in Shots |-> filed[s]] /\ sync = [h \in Workers |-> sync[h]]

AckedKept ==
    /\ \A s \in acked \ given : Kept(s)
    /\ \A s \in sweep : Ach!Ready(s) => s \in given

ShotInv ==
    /\ RowsInPlace /\ Functions /\ AckedKept /\ Apart
    /\ \A h \in Workers : InClaim(h)
    /\ OneCapturePerUnlock

LEMMA SyncGoto ==
    ASSUME Functions, NEW h \in Workers, NEW t, Ach!Goto(h, t)
    PROVE  /\ sync' = [o \in Workers |-> sync'[o]]
           /\ sync'[h] = t /\ \A o \in Workers \ {h} : sync'[o] = sync[o]
  BY DEF Functions, Ach!Goto

(* A claim that stands where it stood, while rows are filled and dropped.  *)
LEMMA ClaimStands ==
    ASSUME RowsInPlace, NEW h \in Workers, InClaim(h), sync'[h] = sync[h],
           given \subseteq given', clashed \subseteq clashed', known \subseteq known',
           \A s \in Shots : Kept(s) => Kept(s)' \/ s \in given',
           \A s \in known : s \in shotRows' /\ s \in shotRows /\ s \in shotUploaded
                                => s \in shotUploaded',
           \A s \in known : s \in shotRows' => s \in shotRows,
           \A s \in shotRows' : Ach!Ready(s)' => s \in shotRows /\ filed'[s] = filed[s]
    PROVE  InClaim(h)'
  <1>1. /\ Ach!Claiming(h)' = Ach!Claiming(h) /\ Ach!Wanted(h)' = Ach!Wanted(h)
        /\ (h \in Claims)' <=> h \in Claims
        /\ (h \in Deciding)' <=> h \in Deciding
    BY DEF Ach!Claiming, Ach!Wanted, Claims, Deciding
  <1>2. h \in Claims => ShapeOf(sync[h])' /\ \A s \in sync'[h].done \ given' : Kept(s)'
    BY DEF InClaim, ShapeOf, Kept, Ach!Ready, RowsInPlace
  <1>3. h \in Deciding => Decides(h)'
    BY <1>1 DEF InClaim, Decides
  <1>4. sync'[h].pc = "file" => NoOtherHas(h)'
    BY <1>1 DEF InClaim, NoOtherHas, Ach!Ready
  <1> QED
    BY <1>1, <1>2, <1>3, <1>4 DEF InClaim

(* A step that files nothing keeps the souvenirs apart.                    *)
LEMMA CapturesStand ==
    ASSUME OneCapturePerUnlock, clashed \subseteq clashed',
           \A s \in shotRows' : Ach!Ready(s)' => s \in shotRows /\ filed'[s] = filed[s]
    PROVE  OneCapturePerUnlock'
  BY DEF OneCapturePerUnlock, Ach!OneCapturePerUnlock, Ach!Ready

(* Reservations, uploads, removals, the sweep.                             *)
LEMMA RowsKeep ==
    ASSUME ShotInv, UNCHANGED <<sync, clashed, acked>>, given \subseteq given',
           RowsInPlace', filed' = [s \in Shots |-> filed'[s]], known \subseteq known',
           \A s \in Shots : Kept(s) => Kept(s)' \/ s \in given',
           \A s \in known : s \in shotRows' => s \in shotRows,
           \A s \in shotRows' : s \in shotUploaded => s \in shotUploaded',
           \A s \in shotRows' : Ach!Ready(s)' => s \in shotRows /\ filed'[s] = filed[s],
           \A s \in sweep' : Ach!Ready(s)' => s \in given'
    PROVE  ShotInv'
  <1>1. \A h \in Workers : InClaim(h)'
    BY ClaimStands DEF ShotInv
  <1>2. OneCapturePerUnlock'
    BY CapturesStand DEF ShotInv
  <1>3. Apart' /\ Functions'
    BY DEF ShotInv, Apart, Deciding, Functions
  <1>4. \A s \in acked' \ given' : Kept(s)'
    BY DEF ShotInv, AckedKept, Kept, Ach!Ready, RowsInPlace
  <1> QED
    BY <1>1, <1>2, <1>3, <1>4 DEF ShotInv, AckedKept

(* A sync that moves and files nothing.                                    *)
LEMMA SyncKeeps ==
    ASSUME ShotInv, NEW h \in Workers, NEW t, Ach!Goto(h, t),
           UNCHANGED <<known, shotRows, filed, shotUploaded, shotDisk, trash, sweep, acked, given>>,
           clashed \subseteq clashed', InClaim(h)',
           t.pc \in {"check", "file"} => \A o \in Deciding \ {h} :
                sync[o].game = t.game => t.game \in clashed'
    PROVE  ShotInv'
  <1>1. /\ sync' = [o \in Workers |-> sync'[o]]
        /\ sync'[h] = t /\ \A o \in Workers \ {h} : sync'[o] = sync[o]
    BY SyncGoto DEF ShotInv
  <1>2. \A s : Kept(s)' <=> Kept(s)
    BY DEF Kept, Ach!Ready
  <1>3. ASSUME NEW o \in Workers \ {h} PROVE InClaim(o)'
    BY <1>1, <1>2, ClaimStands DEF ShotInv, Ach!Ready
  <1>4. Apart'
    BY <1>1 DEF ShotInv, Apart, Deciding
  <1>5. OneCapturePerUnlock'
    BY CapturesStand DEF ShotInv, Ach!Ready
  <1>6. RowsInPlace' /\ Functions' /\ AckedKept'
    BY <1>1, <1>2 DEF ShotInv, RowsInPlace, Functions, AckedKept, Ach!Ready, Ach!Pending
  <1> QED
    BY <1>3, <1>4, <1>5, <1>6 DEF ShotInv

LEMMA NextClaim ==
    ASSUME NEW t, ShapeOf(t), NEW rest, NEW done
    PROVE  LET n == [t EXCEPT !.pc = "claim", !.todo = rest, !.done = done] IN
           n.pc = "claim" /\ n.done = done /\ ShapeOf(n)
  <1> DEFINE n == [t EXCEPT !.pc = "claim", !.todo = rest, !.done = done]
  <1>1. t \in [pc : {t.pc}, game : {t.game}, todo : {t.todo}, unlocked : {t.unlocked},
               done : {t.done}]
    BY DEF ShapeOf
  <1>2. n \in [pc : {"claim"}, game : {t.game}, todo : {rest}, unlocked : {t.unlocked},
               done : {done}]
    BY <1>1
  <1> HIDE DEF n
  <1>3. n.pc = "claim" /\ n.done = done /\ ShapeOf(n)
    BY <1>2 DEF ShapeOf
  <1> QED
    BY <1>3 DEF n

LEMMA FilesKeep ==
    ASSUME ShotInv, NEW h \in Workers, Ach!ClaimFiles(h), NEW s \in Shots,
           s = Ach!Claiming(h).id, s \in shotRows
    PROVE  ShotInv'
  <1> DEFINE g == sync[h].game
             page == [game |-> g, names |-> Ach!Wanted(h)]
             done == sync[h].done \cup {s}
             next == [sync[h] EXCEPT !.pc = "claim", !.todo = Tail(sync[h].todo), !.done = done]
  <1>1. /\ filed' = [filed EXCEPT ![s] = page]
        /\ given' = IF s \in sweep THEN given \cup {s} ELSE given
        /\ \/ Ach!Goto(h, Ach!Idle) /\ acked' = acked \cup done
           \/ Ach!Goto(h, next) /\ UNCHANGED acked
        /\ UNCHANGED <<shotRows, known, shotUploaded, shotDisk, trash, sweep, unlocks, accepted,
                       raced, clashed>>
    BY DEF Ach!ClaimFiles, Ach!pictures
  <1>2. sync[h].pc = "file" /\ h \in Claims /\ h \in Deciding
    BY DEF Ach!ClaimFiles, Ach!At, Claims, Deciding
  <1>3. /\ ShapeOf(sync[h]) /\ Ach!Wanted(h) # {} /\ s \in Shots /\ s \in shotUploaded
        /\ \A o \in sync[h].done \ given : Kept(o)
        /\ NoOtherHas(h)
    BY <1>2 DEF ShotInv, InClaim, Decides, RowsInPlace
  <1>4. page # Ach!Pending
    BY <1>3 DEF Ach!Pending
  <1>5. /\ filed'[s] = page /\ \A o \in Shots \ {s} : filed'[o] = filed[o]
        /\ filed' = [o \in Shots |-> filed'[o]]
    BY <1>1, <1>3 DEF ShotInv, Functions
  <1>6. Ach!Ready(s)' /\ Kept(s)' /\ \A o \in Shots : Kept(o) => Kept(o)'
    BY <1>1, <1>3, <1>4, <1>5 DEF Kept, Ach!Ready, Ach!Pending
  <1>7. \A o \in done \ given' : Kept(o)'
    BY <1>1, <1>3, <1>6 DEF ShotInv, RowsInPlace, Kept, Ach!Ready
  <1>8. /\ sync' = [o \in Workers |-> sync'[o]]
        /\ \A o \in Workers \ {h} : sync'[o] = sync[o]
        /\ \/ sync'[h] = Ach!Idle /\ acked' = acked \cup done
           \/ sync'[h] = next /\ UNCHANGED acked
    BY <1>1, SyncGoto DEF ShotInv
  <1>9. h \notin Deciding' /\ InClaim(h)'
    <2>1. CASE sync'[h] = Ach!Idle
      BY <2>1 DEF InClaim, Claims, Deciding, Ach!Idle
    <2>2. CASE sync'[h] = next
      <3>1. next.pc = "claim" /\ next.done = done /\ ShapeOf(next)
        BY <1>3, NextClaim
      <3> HIDE DEF next, done
      <3> QED
        BY <1>7, <2>2, <3>1 DEF InClaim, Claims, Deciding, ShapeOf
    <2> QED
      BY <1>8, <2>1, <2>2
  <1>10. ASSUME NEW o \in Workers \ {h} PROVE InClaim(o)'
    <2>1. /\ Ach!Claiming(o)' = Ach!Claiming(o) /\ Ach!Wanted(o)' = Ach!Wanted(o)
          /\ sync'[o] = sync[o] /\ InClaim(o)
      BY <1>8 DEF ShotInv, Ach!Claiming, Ach!Wanted
    <2>2. (o \in Claims)' => ShapeOf(sync[o])' /\ \A x \in sync'[o].done \ given' : Kept(x)'
      BY <1>1, <1>6, <2>1 DEF InClaim, Claims, ShapeOf, ShotInv, RowsInPlace, Kept, Ach!Ready
    <2>3. (o \in Deciding)' => Decides(o)'
      BY <1>1, <2>1 DEF InClaim, Deciding, Decides
    <2>4. ASSUME sync'[o].pc = "file", sync[o].game \notin clashed,
                 NEW x \in shotRows \ {Ach!Claiming(o).id}, Ach!Ready(x)', filed'[x].game = sync[o].game
          PROVE  filed'[x].names \cap Ach!Wanted(o) = {}
      <3>1. CASE x = s
        <4>1. sync[o].game = g /\ o \in Deciding
          BY <1>5, <2>1, <2>4, <3>1 DEF Deciding
        <4> QED
          BY <1>2, <2>4, <4>1 DEF ShotInv, Apart
      <3>2. CASE x # s
        <4>1. filed'[x] = filed[x] /\ Ach!Ready(x)
          BY <1>5, <2>4, <3>2 DEF ShotInv, RowsInPlace, Ach!Ready, Ach!Pending
        <4> QED
          BY <2>1, <2>4, <4>1 DEF InClaim, NoOtherHas
      <3> QED
        BY <3>1, <3>2
    <2>5. sync'[o].pc = "file" => NoOtherHas(o)'
      BY <1>1, <2>1, <2>4 DEF NoOtherHas
    <2> QED
      BY <2>2, <2>3, <2>5 DEF InClaim
  <1>11. Apart'
    BY <1>1, <1>8, <1>9 DEF ShotInv, Apart, Deciding
  <1>12. RowsInPlace' /\ Functions'
    BY <1>1, <1>5, <1>8 DEF ShotInv, RowsInPlace, Functions, Ach!Pending
  <1>13. AckedKept'
    <2>1. \A x \in acked' \ given' : Kept(x)'
      BY <1>1, <1>6, <1>7, <1>8 DEF ShotInv, AckedKept, RowsInPlace, Kept, Ach!Ready
    <2>2. \A x \in sweep' : Ach!Ready(x)' => x \in given'
      BY <1>1, <1>5 DEF ShotInv, AckedKept, RowsInPlace, Ach!Ready, Ach!Pending
    <2> QED
      BY <2>1, <2>2 DEF AckedKept
  <1>14. OneCapturePerUnlock'
    <2> SUFFICES ASSUME NEW x \in shotRows, NEW y \in shotRows, x # y, Ach!Ready(x)', Ach!Ready(y)',
                        filed'[x].game = filed'[y].game, filed'[x].game \notin clashed
                 PROVE  filed'[x].names \cap filed'[y].names = {}
      BY <1>1 DEF OneCapturePerUnlock, Ach!OneCapturePerUnlock
    <2>1. ASSUME NEW o \in shotRows \ {s}, Ach!Ready(o)'
          PROVE  filed'[o] = filed[o] /\ Ach!Ready(o)
      BY <1>5, <2>1 DEF ShotInv, RowsInPlace, Ach!Ready, Ach!Pending
    <2>2. ASSUME NEW o \in shotRows \ {s}, Ach!Ready(o)', filed'[o].game = g, g \notin clashed
          PROVE  filed'[o].names \cap page.names = {}
      BY <1>3, <2>1, <2>2 DEF NoOtherHas
    <2>3. CASE x = s
      BY <1>5, <2>2, <2>3
    <2>4. CASE y = s
      BY <1>5, <2>2, <2>4
    <2>5. CASE x # s /\ y # s
      BY <2>1, <2>5 DEF ShotInv, OneCapturePerUnlock, Ach!OneCapturePerUnlock
    <2> QED
      BY <2>3, <2>4, <2>5
  <1> QED
    BY <1>9, <1>10, <1>11, <1>12, <1>13, <1>14 DEF ShotInv

LEMMA StepShots ==
    ASSUME ShotInv, [Ach!Next]_achVars
    PROVE  ShotInv'
  <1>a. RowsInPlace /\ Functions /\ AckedKept
    BY DEF ShotInv
  <1>1. ASSUME NEW s \in Shots, Ach!Authorize(s) PROVE ShotInv'
    <2>1. /\ s \notin known /\ known' = known \cup {s} /\ shotRows' = shotRows \cup {s}
          /\ UNCHANGED <<filed, shotUploaded, shotDisk, trash, sweep, sync, clashed, acked, given>>
      BY <1>1 DEF Ach!Authorize, Ach!history
    <2>2. filed[s] = Ach!Pending
      BY <1>a, <2>1 DEF RowsInPlace
    <2> QED
      BY <1>a, <2>1, <2>2, RowsKeep DEF RowsInPlace, Functions, AckedKept, Kept, Ach!Ready, Ach!Pending
  <1>2. ASSUME NEW s \in Shots, Ach!Put(s) PROVE ShotInv'
    <2>1. /\ s \in known /\ shotDisk' = shotDisk \cup {s}
          /\ shotUploaded' = shotUploaded \cup ({s} \cap shotRows)
          /\ UNCHANGED <<known, shotRows, filed, trash, sweep, sync, clashed, acked, given>>
      BY <1>2 DEF Ach!Put, Ach!history
    <2> QED
      BY <1>a, <2>1, RowsKeep DEF RowsInPlace, Functions, AckedKept, Kept, Ach!Ready, Ach!Pending
  <1>d. ASSUME NEW s \in Shots, Ach!DropRow(s), UNCHANGED <<known, shotDisk, sync, clashed, acked>>,
               given \subseteq given', sweep' \subseteq sweep,
               Ach!Ready(s) => s \in given'
        PROVE  ShotInv'
    <2>1. /\ shotRows' = shotRows \ {s} /\ shotUploaded' = shotUploaded \ {s}
          /\ trash' = trash \cup ({s} \cap shotRows)
          /\ filed'[s] = Ach!Pending /\ \A o \in Shots \ {s} : filed'[o] = filed[o]
          /\ filed' = [o \in Shots |-> filed'[o]]
      BY <1>a, <1>d DEF Ach!DropRow, Functions
    <2>2. RowsInPlace'
      BY <1>a, <1>d, <2>1 DEF RowsInPlace, Ach!Pending
    <2>3. \A o \in shotRows' : o # s /\ o \in Shots /\ filed'[o] = filed[o]
      BY <1>a, <2>1 DEF RowsInPlace
    <2>4. \A o \in Shots : Kept(o) => Kept(o)' \/ o \in given'
      BY <1>d, <2>1 DEF Kept, Ach!Ready, Ach!Pending
    <2>5. \A o \in sweep' : Ach!Ready(o)' => o \in given'
      BY <1>a, <1>d, <2>1, <2>3 DEF AckedKept, Ach!Ready, Ach!Pending
    <2>6. \A o \in shotRows' : Ach!Ready(o)' => o \in shotRows /\ filed'[o] = filed[o]
      BY <2>1, <2>3
    <2> QED
      BY <1>d, <2>1, <2>2, <2>4, <2>5, <2>6, RowsKeep
  <1>3. ASSUME NEW s \in Shots, Ach!RemoveShot(s) PROVE ShotInv'
    BY <1>3, <1>a, <1>d DEF Ach!RemoveShot, RowsInPlace
  <1>4. ASSUME NEW s \in Shots, Ach!SweepDrops(s) PROVE ShotInv'
    <2>1. Ach!DropRow(s) /\ s \in sweep /\ sweep' \subseteq sweep
          /\ UNCHANGED <<known, shotDisk, sync, clashed, acked, given>>
      BY <1>4 DEF Ach!SweepDrops, Ach!history
    <2> QED
      BY <1>a, <1>d, <2>1 DEF AckedKept, RowsInPlace
  <1>5. ASSUME NEW s \in Shots, Ach!Unlink(s) PROVE ShotInv'
    <2>1. /\ s \in trash /\ trash' = trash \ {s} /\ shotDisk' = shotDisk \ {s}
          /\ UNCHANGED <<known, shotRows, filed, shotUploaded, sweep, sync, clashed, acked, given>>
      BY <1>5 DEF Ach!Unlink, Ach!history
    <2> QED
      BY <1>a, <2>1, RowsKeep DEF RowsInPlace, Functions, AckedKept, Kept, Ach!Ready, Ach!Pending
  <1>6. CASE Ach!SweepLists
    <2>1. PICK aged \in SUBSET shotRows : sweep' = Ach!Abandoned(aged)
      BY <1>6 DEF Ach!SweepLists
    <2>2. \A s \in sweep' : ~Ach!Ready(s)
      BY <2>1 DEF Ach!Abandoned, Ach!Ready
    <2>3. UNCHANGED <<known, shotRows, filed, shotUploaded, shotDisk, trash, sync, clashed, acked, given>>
      BY <1>6 DEF Ach!SweepLists, Ach!history, Ach!pictures
    <2> QED
      BY <1>a, <2>2, <2>3, RowsKeep DEF RowsInPlace, Functions, Kept, Ach!Ready, Ach!Pending
  <1>7. ASSUME NEW h \in Workers, NEW p, Ach!SyncReads(h, p) PROVE ShotInv'
    <2> DEFINE t == [pc |-> "upsert", of |-> p, base |-> unlocks[p.game]]
    <2>1. /\ Ach!Goto(h, t) /\ clashed' = clashed
          /\ UNCHANGED <<known, shotRows, filed, shotUploaded, shotDisk, trash, sweep, acked, given>>
      BY <1>7 DEF Ach!SyncReads, Ach!pictures
    <2>2. t.pc = "upsert"
      OBVIOUS
    <2> HIDE DEF t
    <2>3. InClaim(h)'
      BY <1>a, <2>1, <2>2, SyncGoto DEF InClaim, Claims, Deciding
    <2> QED
      BY <2>1, <2>2, <2>3, SyncKeeps
  <1>i. ASSUME NEW h \in Workers, Ach!Goto(h, Ach!Idle),
               UNCHANGED <<known, shotRows, filed, shotUploaded, shotDisk, trash, sweep, acked, given>>,
               clashed \subseteq clashed'
        PROVE  ShotInv'
    <2>1. InClaim(h)'
      BY <1>a, <1>i, SyncGoto DEF InClaim, Claims, Deciding, Ach!Idle
    <2> QED
      BY <1>i, <2>1, SyncKeeps DEF Ach!Idle
  <1>8. ASSUME NEW h \in Workers, Ach!SyncUpserts(h) PROVE ShotInv'
    <2> DEFINE p == sync[h].of
               merged == Ach!Merge(sync[h].base, p.entries)
               t == [pc |-> "claim", game |-> p.game, todo |-> p.shots,
                     unlocked |-> Ach!Names(merged), done |-> {}]
    <2>1. /\ Ach!Goto(h, IF p.shots = <<>> THEN Ach!Idle ELSE t) /\ clashed' = clashed
          /\ UNCHANGED <<known, shotRows, filed, shotUploaded, shotDisk, trash, sweep, acked, given>>
      BY <1>8 DEF Ach!SyncUpserts, Ach!pictures
    <2>2. CASE p.shots = <<>>
      BY <1>i, <2>1, <2>2
    <2>3. CASE p.shots # <<>>
      <3>1. t.pc = "claim" /\ t.done = {} /\ ShapeOf(t)
        BY DEF ShapeOf
      <3>2. Ach!Goto(h, t)
        BY <2>1, <2>3
      <3> HIDE DEF t
      <3>3. InClaim(h)'
        BY <1>a, <3>1, <3>2, SyncGoto DEF InClaim, Claims, Deciding, ShapeOf
      <3> QED
        BY <2>1, <3>1, <3>2, <3>3, SyncKeeps
    <2> QED
      BY <2>2, <2>3
  <1>9. ASSUME NEW h \in Workers, Ach!ClaimReads(h) PROVE ShotInv'
    <2> DEFINE t == [sync[h] EXCEPT !.pc = "check"]
    <2>1. /\ Ach!At(h, "claim") /\ Ach!Goto(h, IF Ach!Claimable(h) THEN t ELSE Ach!Idle)
          /\ clashed \subseteq clashed'
          /\ \A o \in Deciding \ {h} : sync[o].game = sync[h].game => sync[h].game \in clashed'
          /\ UNCHANGED <<known, shotRows, filed, shotUploaded, shotDisk, trash, sweep, acked, given>>
      BY <1>9 DEF Ach!ClaimReads, Ach!pictures, Deciding
    <2>2. CASE ~Ach!Claimable(h)
      BY <1>i, <2>1, <2>2
    <2>3. CASE Ach!Claimable(h)
      <3>1. /\ InClaim(h) /\ h \in Claims
        BY <2>1 DEF ShotInv, Claims, Ach!At
      <3>2. t = [pc |-> "check", game |-> sync[h].game, todo |-> sync[h].todo,
                 unlocked |-> sync[h].unlocked, done |-> sync[h].done]
        BY <3>1 DEF InClaim, ShapeOf
      <3>3. Ach!Goto(h, t)
        BY <2>1, <2>3
      <3> HIDE DEF t
      <3>4. sync'[h] = t
        BY <1>a, <3>3, SyncGoto
      <3>5. Ach!Claiming(h)' = Ach!Claiming(h) /\ Ach!Wanted(h)' = Ach!Wanted(h)
        BY <3>2, <3>4 DEF Ach!Claiming, Ach!Wanted
      <3>6. Decides(h)'
        BY <1>a, <2>1, <2>3, <3>5 DEF Decides, Ach!Claimable, RowsInPlace
      <3>7. ShapeOf(sync[h])' /\ \A s \in sync'[h].done \ given' : Kept(s)'
        BY <2>1, <3>1, <3>2, <3>4 DEF InClaim, ShapeOf, Kept, Ach!Ready
      <3>8. InClaim(h)'
        BY <3>2, <3>4, <3>6, <3>7 DEF InClaim
      <3> QED
        BY <2>1, <3>2, <3>3, <3>8, SyncKeeps
    <2> QED
      BY <2>2, <2>3
  <1>10. ASSUME NEW h \in Workers, Ach!ClaimChecks(h) PROVE ShotInv'
    <2> DEFINE t == [sync[h] EXCEPT !.pc = "file"]
    <2>1. /\ Ach!At(h, "check")
          /\ Ach!Goto(h, IF Ach!Wanted(h) \cap Ach!Taken(h) = {} THEN t ELSE Ach!Idle)
          /\ clashed' = clashed
          /\ UNCHANGED <<known, shotRows, filed, shotUploaded, shotDisk, trash, sweep, acked, given>>
      BY <1>10 DEF Ach!ClaimChecks, Ach!pictures, Ach!history
    <2>2. CASE Ach!Wanted(h) \cap Ach!Taken(h) # {}
      BY <1>i, <2>1, <2>2
    <2>3. CASE Ach!Wanted(h) \cap Ach!Taken(h) = {}
      <3>1. InClaim(h) /\ h \in Claims /\ h \in Deciding
        BY <2>1 DEF ShotInv, Claims, Deciding, Ach!At
      <3>2. t = [pc |-> "file", game |-> sync[h].game, todo |-> sync[h].todo,
                 unlocked |-> sync[h].unlocked, done |-> sync[h].done]
        BY <3>1 DEF InClaim, ShapeOf
      <3>3. Ach!Goto(h, t)
        BY <2>1, <2>3
      <3> HIDE DEF t
      <3>4. sync'[h] = t
        BY <1>a, <3>3, SyncGoto
      <3>5. Ach!Claiming(h)' = Ach!Claiming(h) /\ Ach!Wanted(h)' = Ach!Wanted(h)
        BY <3>2, <3>4 DEF Ach!Claiming, Ach!Wanted
      <3>6. Decides(h)'
        BY <2>1, <3>1, <3>5 DEF InClaim, Decides
      <3>7. ShapeOf(sync[h])' /\ \A s \in sync'[h].done \ given' : Kept(s)'
        BY <2>1, <3>1, <3>2, <3>4 DEF InClaim, ShapeOf, Kept, Ach!Ready
      <3>8. NoOtherHas(h)'
        <4>1. ASSUME NEW s \in shotRows \ {Ach!Claiming(h).id}, Ach!Ready(s),
                     filed[s].game = sync[h].game
              PROVE  filed[s].names \cap Ach!Wanted(h) = {}
          BY <2>3, <4>1 DEF Ach!Taken
        <4> QED
          BY <2>1, <3>2, <3>4, <3>5, <4>1 DEF NoOtherHas, Ach!Ready
      <3>9. InClaim(h)'
        BY <3>2, <3>4, <3>6, <3>7, <3>8 DEF InClaim
      <3>10. \A o \in Deciding \ {h} : sync[o].game = sync[h].game => sync[h].game \in clashed'
        BY <2>1, <3>1 DEF ShotInv, Apart
      <3> QED
        BY <2>1, <3>2, <3>3, <3>9, <3>10, SyncKeeps
    <2> QED
      BY <2>2, <2>3
  <1>11. ASSUME NEW h \in Workers, Ach!ClaimFiles(h) PROVE ShotInv'
    <2>1. CASE Ach!Claiming(h).id \notin shotRows
      BY <1>11, <1>i, <2>1 DEF Ach!ClaimFiles, Ach!pictures
    <2>2. ASSUME NEW s \in Shots, s = Ach!Claiming(h).id, s \in shotRows PROVE ShotInv'
      BY <1>11, <2>2, FilesKeep
    <2> QED
      BY <1>a, <2>1, <2>2 DEF RowsInPlace
  <1>12. ASSUME NEW h \in Workers, Ach!SyncDies(h) PROVE ShotInv'
    BY <1>12, <1>i DEF Ach!SyncDies, Ach!pictures, Ach!history
  <1>13. ASSUME NEW g, Ach!Reset(g) PROVE ShotInv'
    <2>1. UNCHANGED <<known, shotRows, filed, shotUploaded, shotDisk, trash, sweep, sync, clashed, acked, given>>
      BY <1>13 DEF Ach!Reset, Ach!pictures
    <2> QED
      BY <1>a, <2>1, RowsKeep DEF RowsInPlace, Functions, AckedKept, Kept, Ach!Ready, Ach!Pending
  <1>14. CASE UNCHANGED achVars
    BY <1>14, <1>a, RowsKeep DEF achVars, RowsInPlace, Functions, AckedKept, Kept, Ach!Ready, Ach!Pending
  <1> QED
    BY <1>1, <1>2, <1>3, <1>4, <1>5, <1>6, <1>7, <1>8, <1>9, <1>10, <1>11, <1>12, <1>13, <1>14
    DEF Ach!Next

LEMMA InitShots == Ach!Init => ShotInv
  <1> SUFFICES ASSUME Ach!Init PROVE ShotInv
    OBVIOUS
  <1>1. /\ \A h \in Workers : sync[h].pc = "idle"
        /\ sync = [h \in Workers |-> sync[h]] /\ filed = [s \in Shots |-> filed[s]]
        /\ \A s \in Shots : filed[s] = Ach!Pending
    BY DEF Ach!Init, Ach!Idle
  <1>2. \A h \in Workers : InClaim(h)
    BY <1>1 DEF InClaim, Claims, Deciding
  <1>3. RowsInPlace /\ Functions /\ AckedKept /\ OneCapturePerUnlock
    BY <1>1 DEF Ach!Init, RowsInPlace, Functions, AckedKept, OneCapturePerUnlock,
       Ach!OneCapturePerUnlock
  <1>4. Apart
    BY <1>1 DEF Apart, Deciding
  <1> QED
    BY <1>2, <1>3, <1>4 DEF ShotInv

(* Two ready souvenirs of a game never share an achievement unless claims  *)
(* for the game overlapped, for any number of captures, games and syncs.   *)
THEOREM CapturesApart == ProfilesSpec => []OneCapturePerUnlock
  <1>1. ShotInv => OneCapturePerUnlock
    BY DEF ShotInv
  <1>2. ProfilesInit => ShotInv
    BY InitShots DEF ProfilesInit
  <1>3. ShotInv /\ [ProfilesNext]_allVars => ShotInv'
    BY PartsStep, StepShots
  <1> QED
    BY <1>1, <1>2, <1>3, PTL DEF ProfilesSpec

(* A souvenir the launcher was told is stored stays shown, with its        *)
(* picture on disk, until somebody removes it, whatever uploads, syncs and *)
(* sweeps follow; excused is one that the sweep had listed before.         *)
THEOREM FiledStay == ProfilesSpec => []FiledStaysFiled
  <1>1. ShotInv => FiledStaysFiled
    BY DEF ShotInv, AckedKept, RowsInPlace, Kept, FiledStaysFiled, Ach!FiledStaysFiled, Ach!Shown,
       Ach!Ready
  <1>2. ProfilesInit => ShotInv
    BY InitShots DEF ProfilesInit
  <1>3. ShotInv /\ [ProfilesNext]_allVars => ShotInv'
    BY PartsStep, StepShots
  <1> QED
    BY <1>1, <1>2, <1>3, PTL DEF ProfilesSpec

-----------------------------------------------------------------------------
(* Profile.  What is in sight is up to date, what is not never shrinks.    *)
GameCounts == [Library -> Nat]

ReadOnce == viewing.pc \in {"rows", "answered"} =>
    /\ viewing.page \in Pro!Pages
    /\ viewing.rows \in GameCounts
    /\ \A g \in Library : viewing.rows[g] <= Pro!Rows[Pro!Told(viewing.page.kind)][g]

SightInv ==
    /\ Pro!Rows \in [Pro!Facts -> GameCounts] /\ clock \in Nat
    /\ \A g \in Library : unlocked[g] <= clock /\ captured[g] <= clock
    /\ open \in [Pro!Facts -> GameCounts]
    /\ \A f \in Pro!Facts, g \in Library :
        /\ open[f][g] <= Pro!Rows[f][g]
        /\ g \notin hidden => open[f][g] = Pro!Rows[f][g]
    /\ ReadOnce
    /\ viewing.pc = "answered" => viewing.shown \subseteq Library
    /\ PlayedInHidingStaysHidden

LEMMA AtMostMore == \A d \in Nat : Pro!Min({d, MaxDelta}) \in Nat
  BY MaxDeltaAssumption DEF Pro!Min

LEMMA ToldIsFact == \A kind : Pro!Told(kind) \in Pro!Facts
  BY DEF Pro!Told, Pro!Facts

LEMMA RowsAre ==
    /\ Pro!Rows["seconds"] = seconds /\ Pro!Rows["unlocked"] = unlocked
    /\ Pro!Rows["captured"] = captured
    /\ DOMAIN Pro!Rows = Pro!Facts /\ Pro!Rows = [f \in Pro!Facts |-> Pro!Rows[f]]
    /\ \A f \in Pro!Facts : f \in {"seconds", "unlocked", "captured"}
  BY DEF Pro!Rows, Pro!Facts

LEMMA RowsAreNext ==
    /\ Pro!Rows'["seconds"] = seconds' /\ Pro!Rows'["unlocked"] = unlocked'
    /\ Pro!Rows'["captured"] = captured'
    /\ Pro!Rows' = [f \in Pro!Facts |-> Pro!Rows'[f]]
  BY DEF Pro!Rows, Pro!Facts

LEMMA SameRows == UNCHANGED <<seconds, unlocked, captured>> => Pro!Rows' = Pro!Rows
  BY DEF Pro!Rows

LEMMA RowsType == Pro!Rows \in [Pro!Facts -> GameCounts] =>
                      seconds \in GameCounts /\ unlocked \in GameCounts /\ captured \in GameCounts
  BY RowsAre DEF Pro!Facts

LEMMA RowsTypeNext ==
    ASSUME seconds' \in GameCounts, unlocked' \in GameCounts, captured' \in GameCounts
    PROVE  Pro!Rows' \in [Pro!Facts -> GameCounts]
<1>1. \A f \in Pro!Facts : Pro!Rows'[f] \in GameCounts
  BY RowsAre, RowsAreNext
<1> QED
  BY <1>1, RowsAreNext

(* The owner's side: counts only grow, and what is in sight keeps up.      *)
LEMMA OwnerKeeps ==
    ASSUME SightInv, UNCHANGED viewing, NEW hiding,
           seconds' \in GameCounts, unlocked' \in GameCounts, captured' \in GameCounts, clock' \in Nat,
           \A g \in Library :
               /\ seconds[g] <= seconds'[g] /\ unlocked[g] <= unlocked'[g]
               /\ captured[g] <= captured'[g]
               /\ unlocked'[g] <= clock' /\ captured'[g] <= clock',
           hiding \subseteq hidden', hidden' \subseteq hiding, Pro!InSight(hiding)
    PROVE  SightInv'
<1>1. Pro!Rows' \in [Pro!Facts -> GameCounts]
  BY RowsTypeNext
<1>2. \A f \in Pro!Facts, g \in Library : Pro!Rows[f][g] <= Pro!Rows'[f][g]
  BY RowsAre, RowsAreNext
<1>3. /\ open' = [f \in Pro!Facts |-> [g \in Library |-> IF g \in hiding THEN open[f][g] ELSE Pro!Rows'[f][g]]]
      /\ open \in [Pro!Facts -> GameCounts] /\ Pro!Rows \in [Pro!Facts -> GameCounts]
  BY DEF Pro!InSight, SightInv
<1>4. open' \in [Pro!Facts -> GameCounts]
  BY <1>1, <1>3 DEF GameCounts
<1>5. ASSUME NEW f \in Pro!Facts, NEW g \in Library
      PROVE  /\ open[f][g] <= open'[f][g] /\ open'[f][g] <= Pro!Rows'[f][g]
             /\ g \notin hidden' => open'[f][g] = Pro!Rows'[f][g]
  <2>1. /\ open[f][g] \in Nat /\ Pro!Rows[f][g] \in Nat /\ Pro!Rows'[f][g] \in Nat
        /\ open'[f][g] = IF g \in hiding THEN open[f][g] ELSE Pro!Rows'[f][g]
    BY <1>1, <1>3 DEF GameCounts
  <2>2. open[f][g] <= Pro!Rows[f][g] /\ Pro!Rows[f][g] <= Pro!Rows'[f][g]
    BY <1>2 DEF SightInv
  <2> QED
    BY <2>1, <2>2
<1>6. ReadOnce'
  <2> SUFFICES ASSUME viewing.pc \in {"rows", "answered"}
               PROVE  \A g \in Library :
                          viewing.rows[g] <= Pro!Rows'[Pro!Told(viewing.page.kind)][g]
    BY DEF SightInv, ReadOnce
  <2> TAKE g \in Library
  <2> DEFINE f == Pro!Told(viewing.page.kind)
  <2>1. f \in Pro!Facts
    BY ToldIsFact
  <2>2. viewing.rows \in GameCounts /\ viewing.rows[g] <= Pro!Rows[f][g]
    BY DEF SightInv, ReadOnce
  <2> HIDE DEF f
  <2>3. viewing.rows[g] \in Nat /\ Pro!Rows[f][g] \in Nat /\ Pro!Rows'[f][g] \in Nat
    BY <1>1, <1>3, <2>1, <2>2 DEF GameCounts
  <2>4. viewing.rows[g] <= Pro!Rows'[f][g]
    BY <1>2, <2>1, <2>2, <2>3
  <2> QED
    BY <2>4 DEF f
<1>7. PlayedInHidingStaysHidden'
  <2> SUFFICES ASSUME viewing.pc = "answered", NEW g \in viewing.shown,
                      Pro!MatchesHidden(viewing.page, g)
               PROVE  viewing.rows[g] <= open'[Pro!Told(viewing.page.kind)][g]
    BY DEF PlayedInHidingStaysHidden, Pro!PlayedInHidingStaysHidden, Pro!ToldInSight,
       Pro!MatchesHidden
  <2> DEFINE f == Pro!Told(viewing.page.kind)
  <2>1. f \in Pro!Facts /\ g \in Library /\ viewing.rows \in GameCounts
    BY ToldIsFact DEF SightInv, ReadOnce
  <2>2. viewing.rows[g] <= open[f][g]
    BY DEF SightInv, PlayedInHidingStaysHidden, Pro!PlayedInHidingStaysHidden, Pro!ToldInSight
  <2> HIDE DEF f
  <2>3. viewing.rows[g] \in Nat /\ open[f][g] \in Nat /\ open'[f][g] \in Nat
    BY <1>3, <1>4, <2>1 DEF GameCounts
  <2>4. viewing.rows[g] <= open'[f][g]
    BY <1>5, <2>1, <2>2, <2>3
  <2> QED
    BY <2>4 DEF f
<1> QED
  BY <1>1, <1>4, <1>5, <1>6, <1>7 DEF SightInv

(* The viewer's side.                                                      *)
LEMMA ViewerKeeps ==
    ASSUME SightInv, UNCHANGED <<seconds, unlocked, captured, clock, hidden, open>>,
           ReadOnce', viewing'.pc = "answered" => viewing'.shown \subseteq Library,
           PlayedInHidingStaysHidden'
    PROVE  SightInv'
<1>1. Pro!Rows' = Pro!Rows
  BY DEF Pro!Rows
<1> QED
  BY <1>1 DEF SightInv

LEMMA StepSight ==
    ASSUME SightInv, [Pro!Next]_proVars
    PROVE  SightInv'
<1>1. /\ seconds \in GameCounts /\ unlocked \in GameCounts /\ captured \in GameCounts /\ clock \in Nat
      /\ \A o \in Library : unlocked[o] <= clock /\ captured[o] <= clock
  BY RowsType DEF SightInv
<1>2. ASSUME NEW g \in Library, NEW shot \in BOOLEAN, Pro!Unlock(g, shot) PROVE SightInv'
  <2>1. /\ clock' = clock + 1 /\ unlocked' = [unlocked EXCEPT ![g] = clock + 1]
        /\ captured' = [captured EXCEPT ![g] = clock + 1] \/ captured' = captured
        /\ UNCHANGED <<seconds, hidden, viewing>> /\ Pro!InSight(hidden)
    BY <1>2 DEF Pro!Unlock
  <2>2. /\ clock' \in Nat /\ unlocked' \in GameCounts /\ seconds' \in GameCounts /\ captured' \in GameCounts
        /\ \A o \in Library :
              /\ seconds[o] <= seconds'[o] /\ unlocked[o] <= unlocked'[o]
              /\ captured[o] <= captured'[o]
              /\ unlocked'[o] <= clock' /\ captured'[o] <= clock'
    BY <1>1, <2>1 DEF GameCounts
  <2> QED
    BY <2>1, <2>2, OwnerKeeps
<1>3. ASSUME NEW g \in Library, NEW delta \in 0..(MaxDelta + 1), Pro!Report(g, delta)
      PROVE  SightInv'
  <2> DEFINE more == Pro!Min({delta, MaxDelta})
  <2>1. /\ seconds' = [seconds EXCEPT ![g] = @ + more]
        /\ UNCHANGED <<unlocked, captured, clock, hidden, viewing>> /\ Pro!InSight(hidden)
    BY <1>3 DEF Pro!Report
  <2>2. more \in Nat
    BY AtMostMore, MaxDeltaAssumption
  <2> HIDE DEF more
  <2>3. /\ seconds' \in GameCounts /\ unlocked' \in GameCounts /\ captured' \in GameCounts /\ clock' \in Nat
        /\ \A o \in Library :
              /\ seconds[o] <= seconds'[o] /\ unlocked[o] <= unlocked'[o]
              /\ captured[o] <= captured'[o]
              /\ unlocked'[o] <= clock' /\ captured'[o] <= clock'
    BY <1>1, <2>1, <2>2 DEF GameCounts
  <2> QED
    BY <2>1, <2>3, OwnerKeeps
<1>4. ASSUME NEW g \in Library, Pro!Hide(g) \/ Pro!Unhide(g) PROVE SightInv'
  <2>1. UNCHANGED <<seconds, unlocked, captured, clock, viewing>>
    BY <1>4 DEF Pro!Hide, Pro!Unhide
  <2>2. (Pro!InSight(hidden) /\ hidden \subseteq hidden') \/ Pro!InSight(hidden')
    BY <1>4 DEF Pro!Hide, Pro!Unhide
  <2>3. Pro!InSight(hidden) /\ hidden \subseteq hidden' => Pro!InSight(hidden')
    <3> SUFFICES ASSUME Pro!InSight(hidden), hidden \subseteq hidden' PROVE Pro!InSight(hidden')
      OBVIOUS
    <3>1. \A f \in Pro!Facts, o \in Library :
              (IF o \in hidden THEN open[f][o] ELSE Pro!Rows'[f][o]) =
              (IF o \in hidden' THEN open[f][o] ELSE Pro!Rows'[f][o])
      <4>1. \A f \in Pro!Facts, o \in Library : o \notin hidden => open[f][o] = Pro!Rows'[f][o]
        BY <2>1, SameRows DEF SightInv
      <4> QED
        BY <4>1
    <3> QED
      BY <3>1 DEF Pro!InSight
  <2>4. /\ seconds' \in GameCounts /\ unlocked' \in GameCounts /\ captured' \in GameCounts /\ clock' \in Nat
        /\ \A o \in Library :
              /\ seconds[o] <= seconds'[o] /\ unlocked[o] <= unlocked'[o]
              /\ captured[o] <= captured'[o]
              /\ unlocked'[o] <= clock' /\ captured'[o] <= clock'
    BY <1>1, <2>1 DEF GameCounts
  <2> QED
    BY <2>1, <2>2, <2>3, <2>4, OwnerKeeps
<1>5. ASSUME NEW page \in Pro!Pages, Pro!ViewReads(page) PROVE SightInv'
  <2> DEFINE read == Pro!Rows[Pro!Told(page.kind)]
  <2>1. /\ viewing' = [pc |-> "rows", page |-> page, rows |-> read]
        /\ UNCHANGED <<seconds, unlocked, captured, clock, hidden, open>>
    BY <1>5 DEF Pro!ViewReads
  <2>2. read \in GameCounts /\ \A g \in Library : read[g] <= read[g]
    BY ToldIsFact DEF SightInv, GameCounts
  <2>3. Pro!Rows' = Pro!Rows
    BY <2>1 DEF Pro!Rows
  <2> HIDE DEF read
  <2>4. viewing'.pc = "rows" /\ viewing'.page = page /\ viewing'.rows = read
    BY <2>1
  <2>5. ReadOnce'
    BY <2>2, <2>3, <2>4 DEF ReadOnce, read, Pro!Told
  <2>6. PlayedInHidingStaysHidden'
    BY <2>4 DEF PlayedInHidingStaysHidden, Pro!PlayedInHidingStaysHidden
  <2> QED
    BY <2>1, <2>4, <2>5, <2>6, ViewerKeeps
<1>6. CASE Pro!ViewFilters
  <2> DEFINE shown == Pro!Shown(viewing.page, viewing.rows, Pro!Hiding)
  <2>1. /\ viewing.pc = "rows"
        /\ viewing' = [pc |-> "answered", page |-> viewing.page, rows |-> viewing.rows, shown |-> shown]
        /\ UNCHANGED <<seconds, unlocked, captured, clock, hidden, open>>
    BY <1>6 DEF Pro!ViewFilters
  <2>2. /\ viewing'.pc = "answered" /\ viewing'.rows = viewing.rows /\ viewing'.shown = shown
        /\ viewing'.page = viewing.page
    BY <2>1
  <2>3. viewing.page \in Pro!Pages
    BY <2>1 DEF SightInv, ReadOnce
  <2>4. shown \subseteq Library
    BY <2>3 DEF Pro!Shown, Pro!Heatmap, Pro!Recent, Pro!Stats, Pro!Captures, Pro!UnlocksOf,
       Pro!Placed, Pro!Pages
  <2>5. \A g \in shown : Pro!MatchesHidden(viewing.page, g) => g \notin hidden
    BY DEF Pro!Shown, Pro!Heatmap, Pro!Recent, Pro!Stats, Pro!Hiding, Pro!MatchesHidden
  <2> HIDE DEF shown
  <2>6. ReadOnce'
    <3>1. Pro!Rows' = Pro!Rows
      BY <2>1 DEF Pro!Rows
    <3> QED
      BY <2>1, <2>2, <3>1 DEF ReadOnce, SightInv, Pro!Told
  <2>7. PlayedInHidingStaysHidden'
    <3> SUFFICES ASSUME NEW g \in shown, Pro!MatchesHidden(viewing.page, g)
                 PROVE  viewing.rows[g] <= open[Pro!Told(viewing.page.kind)][g]
      BY <2>1, <2>2 DEF PlayedInHidingStaysHidden, Pro!PlayedInHidingStaysHidden,
         Pro!ToldInSight, Pro!MatchesHidden, Pro!Told
    <3> QED
      BY <2>1, <2>4, <2>5, ToldIsFact DEF SightInv, ReadOnce
  <2> QED
    BY <2>1, <2>2, <2>4, <2>6, <2>7, ViewerKeeps
<1>7. CASE UNCHANGED proVars
  <2>1. UNCHANGED <<seconds, unlocked, captured, clock, hidden, open, viewing>>
    BY <1>7 DEF proVars
  <2>2. Pro!Rows' = Pro!Rows
    BY <2>1 DEF Pro!Rows
  <2> QED
    BY <2>1, <2>2 DEF SightInv, ReadOnce, PlayedInHidingStaysHidden,
       Pro!PlayedInHidingStaysHidden, Pro!ToldInSight
<1> QED
  BY <1>2, <1>3, <1>4, <1>5, <1>6, <1>7 DEF Pro!Next

(* What the heat map, the recent unlocks and, of rows synced with a shop,  *)
(* the statistics tell a viewer of a game was in sight when it was         *)
(* recorded or has been since, for any library, any tabs and any limits.   *)
(* The pages that do not ask for the hidden games are not meant.           *)
THEOREM HidingHides == ProfilesSpec => []PlayedInHidingStaysHidden
  <1>1. ProfilesInit => SightInv
    <2> SUFFICES ASSUME Pro!Init PROVE SightInv
      BY DEF ProfilesInit
    <2>1. viewing.pc = "idle"
      BY DEF Pro!Init, Pro!Idle
    <2>2. /\ \A f \in Pro!Facts : Pro!Rows[f] = [g \in Library |-> 0]
          /\ open = Pro!Rows
      BY RowsAre DEF Pro!Init
    <2>3. Pro!Rows \in [Pro!Facts -> GameCounts]
      BY <2>2, RowsAre DEF GameCounts
    <2>4. \A f \in Pro!Facts, g \in Library : open[f][g] = Pro!Rows[f][g] /\ open[f][g] = 0
      BY <2>2
    <2>5. \A g \in Library : unlocked[g] = 0 /\ captured[g] = 0 /\ clock = 0
      BY DEF Pro!Init
    <2> QED
      BY <2>1, <2>2, <2>3, <2>4, <2>5 DEF Pro!Init, SightInv, ReadOnce,
         PlayedInHidingStaysHidden, Pro!PlayedInHidingStaysHidden
  <1>2. SightInv => PlayedInHidingStaysHidden
    BY DEF SightInv
  <1>3. SightInv /\ [ProfilesNext]_allVars => SightInv'
    BY PartsStep, StepSight
  <1> QED
    BY <1>1, <1>2, <1>3, PTL DEF ProfilesSpec

-----------------------------------------------------------------------------
(* SouvenirReports.  Types.                                                *)
LEMMA InitTypeOK == Init => TypeOK
  BY DEF Init, TypeOK, Tasks, Statuses, Idle

(* What a request of the state is about.                                   *)
LEMMA TaskAt ==
    ASSUME TypeOK, NEW w \in Workers
    PROVE  /\ work[w] \in Tasks
           /\ At(w, "unlike") \/ At(w, "like") \/ At(w, "count") \/ At(w, "insert")
                => work[w] \in [pc : {"unlike", "like", "count", "insert"}, of : Pictures, by : Members]
           /\ At(w, "dismiss") \/ At(w, "hide") \/ At(w, "delete") \/ At(w, "reopen")
                => work[w] \in [pc : Actions, of : Pictures]
           /\ At(w, "settle")
                => work[w] \in [pc : {"settle"}, of : Pictures, status : Statuses]
  BY DEF TypeOK, Tasks, Actions, At, Idle

(* A request that moves to a typed state leaves the requests typed.        *)
LEMMA GotoTypeOK ==
    ASSUME TypeOK, NEW w \in Workers, NEW t \in Tasks, Goto(w, t)
    PROVE  work' \in [Workers -> Tasks]
  BY DEF TypeOK, Goto

LEMMA StepTypeOK == TypeOK /\ [Next]_vars => TypeOK'
  <1> SUFFICES ASSUME TypeOK, [Next]_vars PROVE TypeOK'
    OBVIOUS
  <1>0. Idle \in Tasks
    BY DEF Tasks
  <1>1. ASSUME NEW p \in Pictures, SetVisibility(p) PROVE TypeOK'
    BY <1>1 DEF SetVisibility, TypeOK
  <1>2. ASSUME NEW p \in Pictures, OwnerDeletes(p) PROVE TypeOK'
    BY <1>2 DEF OwnerDeletes, DropPicture, TypeOK
  <1>3. CASE SetAccountVisibility
    BY <1>3 DEF SetAccountVisibility, TypeOK
  <1>4. CASE HourPasses
    BY <1>4 DEF HourPasses, TypeOK, picture
  <1>5. ASSUME NEW w \in Workers, NEW p \in Pictures, NEW m \in Members, LikeReads(w, p, m)
        PROVE  TypeOK'
    <2>1. [pc |-> "unlike", of |-> p, by |-> m] \in Tasks
      BY DEF Tasks
    <2> QED
      BY <1>5, <2>1, GotoTypeOK DEF LikeReads, TypeOK, picture
  <1>6. ASSUME NEW w \in Workers, NEW p \in Pictures, NEW m \in Members, ReportReads(w, p, m)
        PROVE  TypeOK'
    <2>1. [pc |-> "count", of |-> p, by |-> m] \in Tasks
      BY DEF Tasks
    <2> QED
      BY <1>6, <2>1, GotoTypeOK DEF ReportReads, TypeOK, picture
  <1>7. ASSUME NEW w \in Workers, NEW p \in Pictures, NEW a \in Actions, ResolveReads(w, p, a)
        PROVE  TypeOK'
    <2>1. [pc |-> a, of |-> p] \in Tasks
      BY DEF Tasks
    <2> QED
      BY <1>7, <2>1, GotoTypeOK DEF ResolveReads, TypeOK, picture
  <1>8. ASSUME NEW w \in Workers, LikeDeletes(w) PROVE TypeOK'
    <2>1. work[w] \in [pc : {"unlike", "like", "count", "insert"}, of : Pictures, by : Members]
      BY <1>8, TaskAt DEF LikeDeletes
    <2>2. [work[w] EXCEPT !.pc = "like"] \in Tasks
      BY <2>1 DEF Tasks
    <2>3. work' \in [Workers -> Tasks]
      BY <1>0, <1>8, <2>2, GotoTypeOK DEF LikeDeletes
    <2> QED
      BY <1>8, <2>3 DEF LikeDeletes, TypeOK
  <1>9. ASSUME NEW w \in Workers, LikeInserts(w) PROVE TypeOK'
    <2>1. work[w].of \in Pictures /\ work[w].by \in Members
      BY <1>9, TaskAt DEF LikeInserts
    <2>2. work' \in [Workers -> Tasks]
      BY <1>0, <1>9, GotoTypeOK DEF LikeInserts
    <2> QED
      BY <1>9, <2>1, <2>2 DEF LikeInserts, TypeOK
  <1>10. ASSUME NEW w \in Workers, ReportCounts(w) PROVE TypeOK'
    <2>1. work[w] \in [pc : {"unlike", "like", "count", "insert"}, of : Pictures, by : Members]
      BY <1>10, TaskAt DEF ReportCounts
    <2>2. [work[w] EXCEPT !.pc = "insert"] \in Tasks
      BY <2>1 DEF Tasks
    <2>3. work' \in [Workers -> Tasks]
      BY <1>0, <1>10, <2>2, GotoTypeOK DEF ReportCounts
    <2> QED
      BY <1>10, <2>3 DEF ReportCounts, TypeOK, picture
  <1>11. ASSUME NEW w \in Workers, ReportInserts(w) PROVE TypeOK'
    <2>1. <<work[w].of, work[w].by>> \in Pictures \X Members
      BY <1>11, TaskAt DEF ReportInserts
    <2>2. work' \in [Workers -> Tasks]
      BY <1>0, <1>11, GotoTypeOK DEF ReportInserts
    <2> QED
      BY <1>11, <2>1, <2>2 DEF ReportInserts, TypeOK, picture, Statuses
  <1>12. ASSUME NEW w \in Workers, NEW s \in Statuses, work[w].of \in Pictures, Settling(w, s)
         PROVE  work' \in [Workers -> Tasks]
    <2>1. [pc |-> "settle", of |-> work[w].of, status |-> s] \in Tasks
      BY <1>12 DEF Tasks
    <2> QED
      BY <1>12, <2>1, GotoTypeOK DEF Settling
  <1>13. ASSUME NEW w \in Workers, ResolveDismisses(w) PROVE TypeOK'
    <2>1. work[w].of \in Pictures
      BY <1>13, TaskAt DEF ResolveDismisses
    <2>2. work' \in [Workers -> Tasks]
      BY <1>13, <1>12, <2>1 DEF ResolveDismisses, Statuses
    <2> QED
      BY <1>13, <2>2 DEF ResolveDismisses, TypeOK, picture
  <1>14. ASSUME NEW w \in Workers, ResolveHides(w) PROVE TypeOK'
    <2>1. work[w].of \in Pictures
      BY <1>14, TaskAt DEF ResolveHides
    <2>2. work' \in [Workers -> Tasks]
      BY <1>0, <1>14, <1>12, <2>1, GotoTypeOK DEF ResolveHides, Statuses
    <2> QED
      BY <1>14, <2>2 DEF ResolveHides, TypeOK
  <1>15. ASSUME NEW w \in Workers, ResolveRemoves(w) PROVE TypeOK'
    <2>1. work[w].of \in Pictures
      BY <1>15, TaskAt DEF ResolveRemoves
    <2>2. work' \in [Workers -> Tasks]
      BY <1>15, <1>12, <2>1 DEF ResolveRemoves, Statuses
    <2> QED
      BY <1>15, <2>2 DEF ResolveRemoves, DropPicture, TypeOK
  <1>16. ASSUME NEW w \in Workers, ResolveSettles(w) PROVE TypeOK'
    <2>1. work[w].of \in Pictures /\ work[w].status \in Statuses
      BY <1>16, TaskAt DEF ResolveSettles
    <2>2. work' \in [Workers -> Tasks]
      BY <1>0, <1>16, GotoTypeOK DEF ResolveSettles
    <2>3. SettleAll(w) \in [Pictures \X Members -> Statuses \cup {"none"}]
      BY <2>1 DEF SettleAll, TypeOK
    <2>4. \A r \in Pictures \X Members : reports[r] # "none" => SettleAll(w)[r] # "none"
      BY <2>1 DEF SettleAll, TypeOK, Statuses
    <2> QED
      BY <1>16, <2>2, <2>3, <2>4 DEF ResolveSettles, TypeOK, picture
  <1>17. ASSUME NEW w \in Workers, WorkerDies(w) PROVE TypeOK'
    BY <1>0, <1>17, GotoTypeOK DEF WorkerDies, TypeOK, picture
  <1>18. CASE UNCHANGED vars
    BY <1>18 DEF vars, picture, TypeOK
  <1> QED
    BY <1>1, <1>2, <1>3, <1>4, <1>5, <1>6, <1>7, <1>8, <1>9, <1>10, <1>11, <1>13, <1>14,
       <1>15, <1>16, <1>17, <1>18 DEF Next

-----------------------------------------------------------------------------
(* The decisions.  A status is said of a picture when a settled report     *)
(* has it, and already when a request is about to settle the reports so:   *)
(* what the status claims must be true by then, and stay true while the    *)
(* owner, other decisions and late reports come in between.                *)
Says(p, status) ==
    \/ status \in Decided(p)
    \/ \E w \in Workers : At(w, "settle") /\ work[w].of = p /\ work[w].status = status

Agreed == \A p \in Pictures : \A s, t \in Decided(p) : s = t
SaidIsSo ==
    \A p \in Pictures :
        /\ Says(p, "removed") => p \notin ready
        /\ Says(p, "hidden") => p \notin public \/ p \in reshown

DecisionInv == TypeOK /\ Agreed /\ SaidIsSo

(* The reports stay as they are, or open ones appear.                      *)
Reported == \A r \in Pictures \X Members :
                reports'[r] = reports[r] \/ (reports[r] = "none" /\ reports'[r] = "open")

(* A request that settles nothing says nothing new.                        *)
LEMMA SaysNothingNew ==
    ASSUME TypeOK, NEW w \in Workers, NEW t \in Tasks, Goto(w, t), t.pc # "settle", Reported,
           NEW p \in Pictures, NEW status, Says(p, status)'
    PROVE  Says(p, status)
  <1>1. Decided(p)' \subseteq Decided(p)
    BY DEF Reported, Decided, Reports
  <1>2. \A v \in Workers : At(v, "settle")' => work'[v] = work[v]
    BY DEF Goto, TypeOK, At
  <1> QED
    BY <1>1, <1>2 DEF Says, At

(* A request on its way to settle says one thing more.                     *)
LEMMA SettlingSays ==
    ASSUME TypeOK, NEW w \in Workers, NEW s, Settling(w, s), UNCHANGED reports,
           NEW p \in Pictures, NEW status, Says(p, status)'
    PROVE  Says(p, status) \/ (p = work[w].of /\ status = s)
  <1>1. Decided(p)' = Decided(p)
    BY DEF Decided, Reports
  <1>2. work'[w] = [pc |-> "settle", of |-> work[w].of, status |-> s]
        /\ \A v \in Workers \ {w} : work'[v] = work[v]
    BY DEF Settling, Goto, TypeOK
  <1>3. \A v \in Workers \ {w} : At(v, "settle")' => At(v, "settle")
    BY <1>2 DEF At
  <1> QED
    BY <1>1, <1>2, <1>3 DEF Says

LEMMA AgreedKept ==
    ASSUME TypeOK, Agreed, Reported
    PROVE  Agreed'
  <1>1. \A p \in Pictures : Decided(p)' \subseteq Decided(p)
    BY DEF Reported, Decided, Reports
  <1> QED
    BY <1>1 DEF Agreed

(* The statements of the owner leave true what is said.                    *)
LEMMA PictureKept ==
    ASSUME SaidIsSo, ready' \subseteq ready,
           \A p \in Pictures : p \in public' => p \in public \/ p \in reshown',
           \A p \in Pictures : p \in reshown \ reshown' => p \notin public',
           \A p \in Pictures : Says(p, "removed")' => Says(p, "removed") \/ p \notin ready',
           \A p \in Pictures : Says(p, "hidden")' => Says(p, "hidden") \/ p \notin public'
    PROVE  SaidIsSo'
  BY DEF SaidIsSo

LEMMA StepDecisions == DecisionInv /\ [Next]_vars => Agreed' /\ SaidIsSo'
  <1> SUFFICES ASSUME TypeOK, Agreed, SaidIsSo, [Next]_vars PROVE Agreed' /\ SaidIsSo'
    BY DEF DecisionInv
  <1>0. Idle \in Tasks /\ Idle.pc # "settle"
    BY DEF Tasks, Idle
  <1>a. ASSUME NEW w \in Workers, NEW t \in Tasks, Goto(w, t), t.pc # "settle", Reported,
               UNCHANGED <<ready, public, reshown>>
        PROVE  Agreed' /\ SaidIsSo'
    BY <1>a, AgreedKept, SaysNothingNew, PictureKept
  <1>b. ASSUME UNCHANGED <<work, reports>>, ready' \subseteq ready,
               \A p \in Pictures : p \in public' => p \in public \/ p \in reshown',
               reshown \subseteq reshown'
        PROVE  Agreed' /\ SaidIsSo'
    <2>1. Reported
      BY <1>b DEF Reported
    <2>2. \A p \in Pictures : \A status : Says(p, status)' => Says(p, status)
      BY <1>b DEF Says, Decided, Reports, At
    <2> QED
      BY <1>b, <2>1, <2>2, AgreedKept, PictureKept
  <1>1. ASSUME NEW p \in Pictures, SetVisibility(p) PROVE Agreed' /\ SaidIsSo'
    BY <1>1, <1>b DEF SetVisibility
  <1>2. ASSUME NEW p \in Pictures, OwnerDeletes(p) PROVE Agreed' /\ SaidIsSo'
    BY <1>2, <1>b DEF OwnerDeletes, DropPicture
  <1>3. CASE SetAccountVisibility \/ HourPasses \/ UNCHANGED vars
    BY <1>3, <1>b DEF SetAccountVisibility, HourPasses, vars, picture
  <1>4. ASSUME NEW w \in Workers, NEW p \in Pictures, NEW m \in Members,
               LikeReads(w, p, m) \/ ReportReads(w, p, m)
        PROVE  Agreed' /\ SaidIsSo'
    <2>1. \A pc \in {"unlike", "count"} :
            [pc |-> pc, of |-> p, by |-> m] \in Tasks /\ [pc |-> pc, of |-> p, by |-> m].pc # "settle"
      BY DEF Tasks
    <2> QED
      BY <1>4, <1>a, <2>1 DEF LikeReads, ReportReads, picture, Reported
  <1>5. ASSUME NEW w \in Workers, NEW p \in Pictures, NEW a \in Actions, ResolveReads(w, p, a)
        PROVE  Agreed' /\ SaidIsSo'
    <2>1. [pc |-> a, of |-> p] \in Tasks /\ [pc |-> a, of |-> p].pc # "settle"
      BY DEF Tasks, Actions
    <2> QED
      BY <1>5, <1>a, <2>1 DEF ResolveReads, picture, Reported
  <1>6. ASSUME NEW w \in Workers, LikeDeletes(w) \/ ReportCounts(w) PROVE Agreed' /\ SaidIsSo'
    <2>1. work[w] \in [pc : {"unlike", "like", "count", "insert"}, of : Pictures, by : Members]
      BY <1>6, TaskAt DEF LikeDeletes, ReportCounts
    <2>2. /\ [work[w] EXCEPT !.pc = "like"] \in Tasks
          /\ [work[w] EXCEPT !.pc = "like"].pc # "settle"
          /\ [work[w] EXCEPT !.pc = "insert"] \in Tasks
          /\ [work[w] EXCEPT !.pc = "insert"].pc # "settle"
      BY <2>1 DEF Tasks
    <2> QED
      BY <1>0, <1>6, <1>a, <2>2 DEF LikeDeletes, ReportCounts, picture, Reported
  <1>7. ASSUME NEW w \in Workers, LikeInserts(w) \/ WorkerDies(w) PROVE Agreed' /\ SaidIsSo'
    BY <1>0, <1>7, <1>a DEF LikeInserts, WorkerDies, picture, Reported
  <1>8. ASSUME NEW w \in Workers, ReportInserts(w) PROVE Agreed' /\ SaidIsSo'
    <2>1. Reported
      BY <1>8 DEF ReportInserts, Reported, TypeOK
    <2> QED
      BY <1>0, <1>8, <1>a, <2>1 DEF ReportInserts, picture
  <1>c. ASSUME NEW w \in Workers, NEW s \in Statuses, Settling(w, s), UNCHANGED reports,
               ready' \subseteq ready, public' \subseteq public,
               \A p \in Pictures : p \in reshown \ reshown' => p \notin public',
               s = "removed" => work[w].of \notin ready',
               s = "hidden" => work[w].of \notin public'
        PROVE  Agreed' /\ SaidIsSo'
    <2>1. Reported
      BY <1>c DEF Reported
    <2> QED
      BY <1>c, <2>1, AgreedKept, SettlingSays, PictureKept
  <1>9. ASSUME NEW w \in Workers, ResolveDismisses(w) PROVE Agreed' /\ SaidIsSo'
    BY <1>9, <1>c DEF ResolveDismisses, Statuses, picture
  <1>10. ASSUME NEW w \in Workers, ResolveHides(w) PROVE Agreed' /\ SaidIsSo'
    <2>1. CASE work[w].of \in ready
      BY <1>10, <1>c, <2>1 DEF ResolveHides, Statuses
    <2>2. CASE work[w].of \notin ready
      BY <1>0, <1>10, <1>a, <2>2 DEF ResolveHides, Reported
    <2> QED
      BY <2>1, <2>2
  <1>11. ASSUME NEW w \in Workers, ResolveRemoves(w) PROVE Agreed' /\ SaidIsSo'
    BY <1>11, <1>c DEF ResolveRemoves, DropPicture, Statuses
  <1>12. ASSUME NEW w \in Workers, ResolveSettles(w) PROVE Agreed' /\ SaidIsSo'
    <2>1. PICK q \in Pictures, said \in Statuses : work[w].of = q /\ work[w].status = said
      BY <1>12, TaskAt DEF ResolveSettles
    <2>a. \A p \in Pictures, m \in Members :
            reports'[p, m] = IF p = q /\ reports[p, m] # "none" THEN said ELSE reports[p, m]
      BY <1>12, <2>1 DEF ResolveSettles, SettleAll
    <2>2. Decided(q)' \subseteq {said}
      BY <2>1, <2>a DEF Decided, Reports, Statuses
    <2>3. \A p \in Pictures \ {q} : Decided(p)' = Decided(p)
      BY <2>a DEF Decided, Reports
    <2>4. Agreed'
      BY <2>2, <2>3 DEF Agreed
    <2>5. \A v \in Workers : At(v, "settle")' => At(v, "settle") /\ work'[v] = work[v]
      BY <1>12 DEF ResolveSettles, Goto, At, Idle, TypeOK
    <2>6. \A p \in Pictures : \A status : Says(p, status)' => Says(p, status)
      BY <1>12, <2>1, <2>2, <2>3, <2>5 DEF Says, ResolveSettles
    <2> QED
      BY <1>12, <2>4, <2>6, PictureKept DEF ResolveSettles, picture
  <1> QED
    BY <1>1, <1>2, <1>3, <1>4, <1>5, <1>6, <1>7, <1>8, <1>9, <1>10, <1>11, <1>12 DEF Next

(* A decision stands: the settled reports of a picture agree, one they     *)
(* call removed is gone, and one they call hidden is shown to nobody until *)
(* its owner shows it again, for any number of decisions at once.          *)
THEOREM DecisionsHold == Spec => []DecisionsStand
  <1>1. Init => DecisionInv
    <2> SUFFICES ASSUME Init PROVE Agreed /\ SaidIsSo
      BY InitTypeOK DEF DecisionInv
    <2>1. \A p \in Pictures : Decided(p) = {}
      BY DEF Init, Decided, Reports
    <2>2. \A w \in Workers : ~At(w, "settle")
      BY DEF Init, At, Idle
    <2> QED
      BY <2>1, <2>2 DEF Agreed, SaidIsSo, Says
  <1>2. DecisionInv /\ [Next]_vars => DecisionInv'
    BY StepTypeOK, StepDecisions DEF DecisionInv
  <1>3. DecisionInv => DecisionsStand
    BY DEF DecisionInv, Agreed, SaidIsSo, Says, DecisionsStand, Readable, Shown
  <1> QED
    BY <1>1, <1>2, <1>3, PTL DEF Spec

-----------------------------------------------------------------------------
(* Folds.  FoldLeft takes the last of the indices left, by a function      *)
(* defined recursively on their subsets; that it exists is proved the way  *)
(* SumProofs does it.  A fold p has a base and does something with each i: *)
(* the merge of unlocks takes an entry, the combination of copies a copy,  *)
(* and a copy a definition.                                                *)
Last(t) == Ach!Max(t)
Numbers(D) == D \subseteq Int

MergeFold(s) == [kind |-> "merge", base |-> <<>>, list |-> s]
CopiesFold(copies) ==
    [kind |-> "copies", base |-> [seen |-> <<>>, groups |-> <<>>], list |-> copies]
CopyFold(acc, game, defs) ==
    [kind |-> "copy", base |-> Lnk!StartCopy(acc), game |-> game, list |-> defs]

Does(p, acc, i) ==
    CASE p.kind = "merge" -> Ach!Absorb(acc, p.list[i])
      [] p.kind = "copies" -> Lnk!AddCopy(acc, p.list, i)
      [] p.kind = "copy" -> Lnk!AddDefinition(acc, p.game, p.list[i])

Folds(g, p, D) ==
    g = [t \in SUBSET D |->
            IF t = {} THEN p.base ELSE Does(p, g[t \ {Last(t)}], Last(t))]

Folder(p, D) == CHOOSE g : Folds(g, p, D)
Folded(p, D) == Folder(p, D)[D]

LEMMA LastIn ==
    ASSUME NEW D, IsFiniteSet(D), Numbers(D), NEW t \in SUBSET D, t # {}
    PROVE  Last(t) \in t /\ \A i \in t : i <= Last(t)
  <1> DEFINE Has(u) == \E m \in u : \A i \in u : i <= m
             F == {u \in SUBSET t : u # {} /\ ~Has(u)}
  <1>1. SUFFICES ASSUME F # {} PROVE FALSE
    <2>1. t \notin F
      BY <1>1
    <2>2. Has(t)
      BY <2>1
    <2> QED
      BY <2>2 DEF Last, Ach!Max
  <1>2. PICK u \in F : \A v \in F : v \subseteq u => v = u
    <2> HIDE DEF F
    <2>1. F \subseteq SUBSET t /\ IsFiniteSet(t)
      BY FS_Subset DEF F
    <2> QED
      BY <1>1, <2>1, SmallestMember
  <1>3. PICK x : x \in u
    BY <1>2
  <1>6. \A i \in u : i \in Int
    BY <1>2 DEF Numbers
  <1> DEFINE rest == u \ {x}
  <1>4. CASE rest = {}
    <2>1. u = {x} /\ x \in Int
      BY <1>3, <1>4, <1>6
    <2>2. \A i \in u : i <= x
      BY <2>1
    <2>3. Has(u)
      BY <1>3, <2>2
    <2> QED
      BY <1>2, <2>3
  <1>5. CASE rest # {}
    <2>1. Has(rest)
      <3>1. rest \in SUBSET t /\ rest \subseteq u /\ rest # u
        BY <1>2, <1>3
      <3>2. rest \notin F
        BY <1>2, <3>1
      <3> HIDE DEF Has, rest
      <3> QED
        BY <1>5, <3>1, <3>2
    <2>2. PICK m \in rest : \A i \in rest : i <= m
      BY <2>1
    <2>3. m \in Int /\ x \in Int /\ \A i \in u : i \in Int
      BY <1>3, <1>6, <2>2
    <2>4. CASE x <= m
      BY <1>2, <2>2, <2>4
    <2>5. CASE ~(x <= m)
      <3>1. \A i \in u : i <= x
        BY <2>2, <2>3, <2>5
      <3> QED
        BY <1>2, <1>3, <3>1
    <2> QED
      BY <2>4, <2>5
  <1> QED
    BY <1>4, <1>5

LEMMA FoldsAt ==
    ASSUME NEW g, NEW p, NEW D, Folds(g, p, D), NEW t \in SUBSET D
    PROVE  g[t] = IF t = {} THEN p.base ELSE Does(p, g[t \ {Last(t)}], Last(t))
  BY DEF Folds

(* Two functions that fold agree.                                          *)
LEMMA FoldsAgree ==
    ASSUME NEW D, IsFiniteSet(D), Numbers(D), NEW E \in SUBSET D, NEW p, NEW g, NEW h,
           Folds(g, p, D), Folds(h, p, E)
    PROVE  \A t \in SUBSET E : g[t] = h[t]
  <1> DEFINE F == {t \in SUBSET E : g[t] # h[t]}
  <1>1. SUFFICES ASSUME F # {} PROVE FALSE
    OBVIOUS
  <1>2. IsFiniteSet(E)
    BY FS_Subset
  <1>3. PICK t \in F : \A u \in F : u \subseteq t => u = t
    <2> HIDE DEF F
    <2>1. F \subseteq SUBSET E
      BY DEF F
    <2> QED
      BY <1>1, <1>2, <2>1, SmallestMember
  <1>4. t \in SUBSET E /\ t \in SUBSET D
    OBVIOUS
  <1>5. t # {}
    BY <1>3, <1>4, FoldsAt
  <1> DEFINE rest == t \ {Last(t)}
  <1>6. rest \subseteq t /\ rest # t /\ rest \in SUBSET E
    BY <1>4, <1>5, LastIn
  <1>7. g[rest] = h[rest]
    BY <1>3, <1>6
  <1> QED
    BY <1>3, <1>4, <1>5, <1>7, FoldsAt

LEMMA FolderFolds ==
    ASSUME NEW D, IsFiniteSet(D), Numbers(D), NEW p
    PROVE  Folds(Folder(p, D), p, D)
  <1> DEFINE F == {t \in SUBSET D : ~ Folds(Folder(p, t), p, t)}
  <1>1. SUFFICES ASSUME F # {} PROVE FALSE
    OBVIOUS
  <1>2. PICK t \in F : \A u \in F : u \subseteq t => u = t
    <2> HIDE DEF F
    <2>1. F \subseteq SUBSET D
      BY DEF F
    <2> QED
      BY <1>1, <2>1, SmallestMember
  <1>3. \A u \in SUBSET t : u # t => Folds(Folder(p, u), p, u)
    BY <1>2
  <1>4. IsFiniteSet(t) /\ Numbers(t) /\ \A u \in SUBSET t : IsFiniteSet(u) /\ Numbers(u)
    BY FS_Subset DEF Numbers
  <1> DEFINE g == [u \in SUBSET t |->
                      IF u = {} THEN p.base
                      ELSE Does(p, Folded(p, u \ {Last(u)}), Last(u))]
  <1> HIDE DEF F
  <1>5. ASSUME NEW w \in SUBSET t, w # {} PROVE g[w \ {Last(w)}] = Folded(p, w \ {Last(w)})
    <2> DEFINE u == w \ {Last(w)}
               v == u \ {Last(u)}
    <2>1. u \in SUBSET t /\ u # t
      BY <1>4, <1>5, LastIn
    <2>2. Folds(Folder(p, u), p, u)
      BY <1>3, <2>1
    <2>3. CASE u = {}
      <3>1. g[u] = p.base
        BY <2>1, <2>3
      <3>2. Folded(p, u) = p.base
        BY <2>2, <2>3, FoldsAt DEF Folded
      <3> QED
        BY <3>1, <3>2
    <2>4. CASE u # {}
      <3>1. v \in SUBSET u /\ v \in SUBSET t /\ v # t
        BY <2>1
      <3>2. Folds(Folder(p, v), p, v)
        BY <1>3, <3>1
      <3>3. IsFiniteSet(u) /\ Numbers(u)
        BY <1>4, <2>1
      <3>4. Folded(p, u) = Does(p, Folder(p, u)[v], Last(u))
        <4> HIDE DEF u, v
        <4>1. u \in SUBSET u
          OBVIOUS
        <4> QED
          BY <2>2, <2>4, <4>1, FoldsAt DEF v, Folded
      <3>5. Folder(p, u)[v] = Folded(p, v)
        <4> HIDE DEF u, v
        <4> QED
          BY <2>2, <3>1, <3>2, <3>3, FoldsAgree DEF Folded
      <3>6. g[u] = Does(p, Folded(p, v), Last(u))
        BY <2>1, <2>4
      <3> QED
        BY <3>4, <3>5, <3>6
    <2> QED
      BY <2>3, <2>4
  <1>6. Folds(g, p, t)
    <2>1. \A u \in SUBSET t :
            g[u] = IF u = {} THEN p.base ELSE Does(p, g[u \ {Last(u)}], Last(u))
      BY <1>5
    <2>2. g = [u \in SUBSET t |-> g[u]]
      OBVIOUS
    <2> HIDE DEF g
    <2> QED
      BY <2>1, <2>2 DEF Folds
  <1> HIDE DEF g
  <1>7. Folds(Folder(p, t), p, t)
    BY <1>6 DEF Folder
  <1> QED
    BY <1>2, <1>7 DEF F

(* The fold over the first n takes the n-th last.                          *)
LEMMA FoldedIs ==
    ASSUME NEW p, NEW n \in Nat
    PROVE  /\ Folded(p, 1..0) = p.base
           /\ n > 0 => Folded(p, 1..n) = Does(p, Folded(p, 1..(n - 1)), n)
  <1>1. ASSUME NEW m \in Nat PROVE IsFiniteSet(1..m) /\ Numbers(1..m)
    BY FS_Interval DEF Numbers
  <1>2. ASSUME NEW m \in Nat PROVE Folds(Folder(p, 1..m), p, 1..m)
    BY <1>1, FolderFolds
  <1>3. 1..0 = {}
    OBVIOUS
  <1>4. Folded(p, 1..0) = p.base
    BY <1>2, <1>3, FoldsAt DEF Folded
  <1>5. ASSUME n > 0 PROVE Folded(p, 1..n) = Does(p, Folded(p, 1..(n - 1)), n)
    <2> DEFINE D == 1..n
               E == 1..(n - 1)
    <2>1. D # {} /\ E \in SUBSET D /\ n \in D /\ (\A i \in D : i <= n) /\ D \ {n} = E
      BY <1>5
    <2>2. Last(D) = n
      <3>1. Last(D) \in D /\ n <= Last(D)
        BY <1>1, <2>1, LastIn
      <3> QED
        BY <3>1
    <2>3. Folds(Folder(p, D), p, D) /\ Folds(Folder(p, E), p, E)
      BY <1>2, <1>5
    <2>4. IsFiniteSet(D) /\ Numbers(D)
      BY <1>1, <1>5
    <2> HIDE DEF D, E
    <2>5. Folder(p, D)[E] = Folder(p, E)[E]
      BY <2>1, <2>3, <2>4, FoldsAgree
    <2>6. Folder(p, D)[D] = Does(p, Folder(p, D)[D \ {Last(D)}], Last(D))
      <3>1. D \in SUBSET D /\ D # {} /\ Folds(Folder(p, D), p, D)
        BY <2>1, <2>3
      <3> QED
        BY <3>1, FoldsAt
    <2>7. Folded(p, D) = Does(p, Folded(p, E), n)
      BY <2>1, <2>2, <2>5, <2>6 DEF Folded
    <2> QED
      BY <2>7 DEF D, E
  <1> QED
    BY <1>4, <1>5

(* Whatever folds computes the fold.                                       *)
LEMMA FoldsSame ==
    ASSUME NEW D, IsFiniteSet(D), Numbers(D), NEW p, NEW g, Folds(g, p, D)
    PROVE  g[D] = Folded(p, D)
  <1>1. D \in SUBSET D /\ Folds(Folder(p, D), p, D)
    BY FolderFolds
  <1> QED
    BY <1>1, FoldsAgree DEF Folded

LEMMA OnlyNumbers ==
    ASSUME NEW n \in Nat
    PROVE  IsFiniteSet(1..n) /\ Numbers(1..n)
  BY FS_Interval DEF Numbers

-----------------------------------------------------------------------------
(* The merge of unlocks.                                                   *)
Merged(s, D) == Folded(MergeFold(s), D)

MergesBy(g, s, D) ==
    g = [t \in SUBSET D |->
            IF t = {} THEN <<>> ELSE Ach!Absorb(g[t \ {Last(t)}], s[Last(t)])]

LEMMA MergeIs ==
    ASSUME NEW a, NEW b, NEW n \in Nat, DOMAIN (a \o b) = 1..n
    PROVE  Ach!Merge(a, b) = Merged(a \o b, 1..n)
  <1> PICK s : s = a \o b
    OBVIOUS
  <1>1. Ach!Merge(a, b) = (CHOOSE g : MergesBy(g, s, 1..n))[1..n]
    BY DEF Ach!Merge, Ach!FoldLeft, Ach!MapThenFoldSet, MergesBy, Last
  <1>2. \A g : MergesBy(g, s, 1..n) <=> Folds(g, MergeFold(s), 1..n)
    BY DEF MergesBy, Folds, MergeFold, Does
  <1>3. MergesBy(Folder(MergeFold(s), 1..n), s, 1..n)
    BY <1>2, OnlyNumbers, FolderFolds
  <1>4. Folds(CHOOSE g : MergesBy(g, s, 1..n), MergeFold(s), 1..n)
    BY <1>2, <1>3
  <1> QED
    BY <1>1, <1>4, OnlyNumbers, FoldsSame DEF Merged

(* The merge of n entries absorbs the n-th last.                           *)
LEMMA MergedIs ==
    ASSUME NEW s, NEW n \in Nat
    PROVE  /\ Merged(s, 1..0) = <<>>
           /\ n > 0 => Merged(s, 1..n) = Ach!Absorb(Merged(s, 1..(n - 1)), s[n])
  <1>1. \A was : Does(MergeFold(s), was, n) = Ach!Absorb(was, s[n])
    BY DEF Does, MergeFold
  <1> QED
    BY <1>1, FoldedIs DEF Merged, MergeFold

(* What a list has to say of what was sent: one entry for each name, named *)
(* and sent, and none sent with an earlier time.                           *)
Unlock(e) == <<Upper[e.name], e.time>>

OneEach(list) ==
    /\ list \in Seq(UnlockEntries)
    /\ \A i \in 1..Len(list) : list[i].name # Ach!Nameless
    /\ \A i, j \in 1..Len(list) : Upper[list[i].name] = Upper[list[j].name] => i = j

Tells(list, sent) ==
    /\ \A i \in 1..Len(list) : Unlock(list[i]) \in sent
    /\ \A a \in sent : a[2] \in Int
                       /\ \E i \in 1..Len(list) :
                            Upper[list[i].name] = a[1] /\ list[i].time <= a[2]

Sent(entries, D) ==
    {Unlock(entries[i]) : i \in {j \in D : entries[j].name # Ach!Nameless}}

With(sent, e) == IF e.name = Ach!Nameless THEN sent ELSE sent \cup {Unlock(e)}

LEMMA EntryTyped ==
    \A e \in UnlockEntries : e.time \in Int
  BY DEF UnlockEntries

LEMMA NamesAre ==
    ASSUME NEW list, list \in Seq(UnlockEntries)
    PROVE  /\ DOMAIN list = 1..Len(list) /\ Len(list) \in Nat
           /\ \A i \in 1..Len(list) : list[i] \in UnlockEntries
           /\ Ach!Names(list) = {Upper[list[i].name] : i \in 1..Len(list)}
  BY DEF Ach!Names

LEMMA AbsorbTells ==
    ASSUME NEW list, NEW sent, NEW e \in UnlockEntries, OneEach(list), Tells(list, sent)
    PROVE  OneEach(Ach!Absorb(list, e)) /\ Tells(Ach!Absorb(list, e), With(sent, e))
  <1> PICK new : new = Ach!Absorb(list, e)
    OBVIOUS
  <1> PICK n : n = Len(list)
    OBVIOUS
  <1>1. /\ list \in Seq(UnlockEntries) /\ DOMAIN list = 1..n /\ n \in Nat
        /\ \A i \in 1..n : list[i] \in UnlockEntries /\ list[i].time \in Int
    BY EntryTyped, NamesAre DEF OneEach
  <1>2. e.time \in Int
    BY EntryTyped
  <1>3. CASE e.name = Ach!Nameless
    BY <1>3 DEF Ach!Absorb, With
  <1>4. CASE e.name # Ach!Nameless /\ Upper[e.name] \notin Ach!Names(list)
    <2>1. new = Append(list, e)
      BY <1>4 DEF Ach!Absorb
    <2>2. /\ new \in Seq(UnlockEntries) /\ Len(new) = n + 1 /\ new[n + 1] = e
          /\ \A i \in 1..n : new[i] = list[i]
      BY <1>1, <2>1
    <2>3. \A i \in 1..n : Upper[list[i].name] # Upper[e.name]
      <3>1. Ach!Names(list) = {Upper[list[i].name] : i \in 1..n}
        BY <1>1, NamesAre
      <3> QED
        BY <1>4, <3>1
    <2>4. \A i \in 1..(n + 1) : i \in 1..n \/ i = n + 1
      BY <1>1
    <2>5. OneEach(new)
      <3>1. \A i \in 1..(n + 1) : new[i].name # Ach!Nameless
        BY <1>4, <2>2, <2>4 DEF OneEach
      <3>2. ASSUME NEW i \in 1..(n + 1), NEW j \in 1..(n + 1),
                   Upper[new[i].name] = Upper[new[j].name]
            PROVE  i = j
        BY <2>2, <2>3, <2>4, <3>2 DEF OneEach
      <3> QED
        BY <2>2, <3>1, <3>2 DEF OneEach
    <2>6. Tells(new, With(sent, e))
      <3>1. With(sent, e) = sent \cup {Unlock(e)}
        BY <1>4 DEF With
      <3>2. \A i \in 1..(n + 1) : Unlock(new[i]) \in With(sent, e)
        BY <2>2, <2>4, <3>1 DEF Tells
      <3>3. ASSUME NEW a \in sent
            PROVE  a[2] \in Int /\ \E i \in 1..(n + 1) : Upper[new[i].name] = a[1] /\ new[i].time <= a[2]
        <4>1. PICK i \in 1..n : Upper[list[i].name] = a[1] /\ list[i].time <= a[2]
          BY DEF Tells
        <4>2. i \in 1..(n + 1) /\ new[i] = list[i]
          BY <1>1, <2>2
        <4> QED
          BY <4>1, <4>2 DEF Tells
      <3>4. ASSUME NEW a, a = Unlock(e)
            PROVE  a[2] \in Int /\ \E i \in 1..(n + 1) : Upper[new[i].name] = a[1] /\ new[i].time <= a[2]
        <4>1. a[1] = Upper[e.name] /\ a[2] = e.time
          BY <3>4 DEF Unlock
        <4>2. n + 1 \in 1..(n + 1)
          BY <1>1
        <4> QED
          BY <1>2, <2>2, <4>1, <4>2
      <3> QED
        BY <2>2, <3>1, <3>2, <3>3, <3>4 DEF Tells
    <2> QED
      BY <2>5, <2>6
  <1>5. CASE e.name # Ach!Nameless /\ Upper[e.name] \in Ach!Names(list)
    <2> DEFINE Better(i) == Upper[list[i].name] = Upper[e.name] /\ e.time < list[i].time
    <2>1. new = [i \in 1..n |-> IF Better(i) THEN e ELSE list[i]]
      BY <1>1, <1>5 DEF Ach!Absorb
    <2>2. \A i \in 1..n : new[i] = IF Better(i) THEN e ELSE list[i]
      BY <2>1
    <2>3. new \in Seq(UnlockEntries) /\ Len(new) = n
      BY <1>1, <2>1
    <2>4. ASSUME NEW i \in 1..n
          PROVE  /\ Upper[new[i].name] = Upper[list[i].name] /\ new[i].time \in Int
                 /\ new[i].time <= list[i].time /\ new[i].name # Ach!Nameless
      BY <1>1, <1>2, <1>5, <2>2 DEF OneEach
    <2>5. OneEach(new)
      BY <2>3, <2>4 DEF OneEach
    <2>6. Tells(new, With(sent, e))
      <3>1. With(sent, e) = sent \cup {Unlock(e)}
        BY <1>5 DEF With
      <3>2. \A i \in 1..n : Unlock(new[i]) \in With(sent, e)
        BY <2>2, <3>1 DEF Tells
      <3>3. ASSUME NEW a \in sent
            PROVE  a[2] \in Int /\ \E i \in 1..n : Upper[new[i].name] = a[1] /\ new[i].time <= a[2]
        <4>1. PICK i \in 1..n : Upper[list[i].name] = a[1] /\ list[i].time <= a[2]
          BY DEF Tells
        <4>2. a[2] \in Int
          BY DEF Tells
        <4> QED
          BY <1>1, <2>4, <4>1, <4>2
      <3>4. ASSUME NEW a, a = Unlock(e)
            PROVE  a[2] \in Int /\ \E i \in 1..n : Upper[new[i].name] = a[1] /\ new[i].time <= a[2]
        <4>1. a[1] = Upper[e.name] /\ a[2] = e.time
          BY <3>4 DEF Unlock
        <4>2. PICK i \in 1..n : Upper[list[i].name] = Upper[e.name]
          <5>1. Ach!Names(list) = {Upper[list[i].name] : i \in 1..n}
            BY <1>1, NamesAre
          <5> QED
            BY <1>5, <5>1
        <4>3. new[i].time <= e.time
          <5>1. CASE Better(i)
            BY <1>2, <2>2, <5>1
          <5>2. CASE ~Better(i)
            BY <1>1, <1>2, <2>2, <4>2, <5>2
          <5> QED
            BY <5>1, <5>2
        <4> QED
          BY <1>2, <2>4, <4>1, <4>2, <4>3
      <3> QED
        BY <2>3, <3>1, <3>2, <3>3, <3>4 DEF Tells
    <2> QED
      BY <2>5, <2>6
  <1> QED
    BY <1>3, <1>4, <1>5

LEMMA SentAt ==
    ASSUME NEW s, NEW n \in Nat \ {0}
    PROVE  Sent(s, 1..0) = {} /\ Sent(s, 1..n) = With(Sent(s, 1..(n - 1)), s[n])
  <1>1. 1..n = 1..(n - 1) \cup {n} /\ 1..0 = {}
    OBVIOUS
  <1> QED
    BY <1>1 DEF Sent, With

(* The merge of a list has one entry for each name, with its earliest time. *)
LEMMA MergedTells ==
    ASSUME NEW s \in Seq(UnlockEntries)
    PROVE  OneEach(Merged(s, 1..Len(s))) /\ Tells(Merged(s, 1..Len(s)), Sent(s, 1..Len(s)))
  <1> DEFINE Good(n) == OneEach(Merged(s, 1..n)) /\ Tells(Merged(s, 1..n), Sent(s, 1..n))
             S == {n \in Nat : Good(n)}
  <1>1. Len(s) \in Nat /\ \A n \in 1..Len(s) : s[n] \in UnlockEntries
    OBVIOUS
  <1> HIDE DEF Good
  <1>2. 0 \in S
    <2>1. Merged(s, 1..0) = <<>> /\ Sent(s, 1..0) = {}
      BY MergedIs, SentAt
    <2>2. <<>> \in Seq(UnlockEntries) /\ 1..Len(<<>>) = {}
      OBVIOUS
    <2>3. OneEach(<<>>) /\ Tells(<<>>, {})
      BY <2>2 DEF OneEach, Tells
    <2> QED
      BY <2>1, <2>3 DEF Good
  <1>3. ASSUME NEW m \in 0..(Len(s) - 1), m \in S PROVE m + 1 \in S
    <2> PICK n : n = m + 1
      OBVIOUS
    <2>1. n \in Nat \ {0} /\ n \in 1..Len(s) /\ n - 1 = m
      BY <1>1
    <2>2. Merged(s, 1..n) = Ach!Absorb(Merged(s, 1..m), s[n])
      BY <2>1, MergedIs
    <2>3. Sent(s, 1..n) = With(Sent(s, 1..m), s[n])
      BY <2>1, SentAt
    <2>4. s[n] \in UnlockEntries /\ Good(m)
      BY <1>1, <1>3, <2>1
    <2>5. Good(n)
      BY <2>2, <2>3, <2>4, AbsorbTells DEF Good
    <2> QED
      BY <2>1, <2>5
  <1> HIDE DEF S
  <1>4. 0 \in Int /\ Len(s) \in Int
    BY <1>1
  <1>5. 0..Len(s) \subseteq S
    BY <1>2, <1>3, <1>4, Upwards
  <1> QED
    BY <1>1, <1>5 DEF S, Good

LEMMA SentOfBoth ==
    ASSUME NEW a \in Seq(UnlockEntries), NEW b \in Seq(UnlockEntries)
    PROVE  Sent(a \o b, DOMAIN (a \o b)) = Sent(a, DOMAIN a) \cup Sent(b, DOMAIN b)
  <1> PICK s : s = a \o b
    OBVIOUS
  <1> PICK m : m = Len(a)
    OBVIOUS
  <1> PICK n : n = Len(b)
    OBVIOUS
  <1>1. /\ m \in Nat /\ n \in Nat /\ DOMAIN a = 1..m /\ DOMAIN b = 1..n
        /\ DOMAIN s = 1..(m + n)
        /\ \A i \in 1..m : s[i] = a[i]
        /\ \A i \in 1..n : s[m + i] = b[i]
    OBVIOUS
  <1>2. \A i \in 1..(m + n) : i \in 1..m \/ \E j \in 1..n : i = m + j
    <2> SUFFICES ASSUME NEW i \in 1..(m + n), i \notin 1..m PROVE \E j \in 1..n : i = m + j
      OBVIOUS
    <2>1. i - m \in 1..n /\ i = m + (i - m)
      BY <1>1
    <2> QED
      BY <2>1
  <1>3. (\A i \in 1..m : i \in 1..(m + n)) /\ \A j \in 1..n : m + j \in 1..(m + n)
    BY <1>1
  <1>4. ASSUME NEW x \in Sent(s, DOMAIN s) PROVE x \in Sent(a, DOMAIN a) \cup Sent(b, DOMAIN b)
    <2>1. PICK i \in DOMAIN s : s[i].name # Ach!Nameless /\ x = Unlock(s[i])
      BY DEF Sent
    <2>2. CASE i \in 1..m
      BY <1>1, <2>1, <2>2 DEF Sent
    <2>3. CASE \E j \in 1..n : i = m + j
      BY <1>1, <2>1, <2>3 DEF Sent
    <2> QED
      BY <1>1, <1>2, <2>1, <2>2, <2>3
  <1>5. ASSUME NEW x \in Sent(a, DOMAIN a) PROVE x \in Sent(s, DOMAIN s)
    <2>1. PICK i \in DOMAIN a : a[i].name # Ach!Nameless /\ x = Unlock(a[i])
      BY DEF Sent
    <2> QED
      BY <1>1, <1>3, <2>1 DEF Sent
  <1>6. ASSUME NEW x \in Sent(b, DOMAIN b) PROVE x \in Sent(s, DOMAIN s)
    <2>1. PICK i \in DOMAIN b : b[i].name # Ach!Nameless /\ x = Unlock(b[i])
      BY DEF Sent
    <2>2. i \in 1..n
      BY <1>1, <2>1
    <2>3. m + i \in DOMAIN s /\ s[m + i] = b[i]
      BY <1>1, <1>3, <2>2
    <2>4. PICK j \in DOMAIN s : s[j] = b[i]
      BY <2>3
    <2> QED
      BY <2>1, <2>4 DEF Sent
  <1> QED
    BY <1>4, <1>5, <1>6

(* What a list says goes on being said once it is merged.                  *)
LEMMA MergeTells ==
    ASSUME NEW base, OneEach(base), NEW entries \in Seq(UnlockEntries)
    PROVE  /\ OneEach(Ach!Merge(base, entries))
           /\ \A sent : Tells(base, sent) =>
                Tells(Ach!Merge(base, entries), sent \cup Sent(entries, DOMAIN entries))
  <1> PICK s : s = base \o entries
    OBVIOUS
  <1> PICK list : list = Ach!Merge(base, entries)
    OBVIOUS
  <1>1. base \in Seq(UnlockEntries) /\ s \in Seq(UnlockEntries)
    BY DEF OneEach
  <1>2. DOMAIN s = 1..Len(s) /\ Len(s) \in Nat
    BY <1>1
  <1>3. OneEach(list) /\ Tells(list, Sent(s, DOMAIN s))
    BY <1>1, <1>2, MergedTells, MergeIs
  <1>4. Sent(s, DOMAIN s) = Sent(base, DOMAIN base) \cup Sent(entries, DOMAIN entries)
    BY <1>1, SentOfBoth
  <1>5. ASSUME NEW sent, Tells(base, sent)
        PROVE  Tells(list, sent \cup Sent(entries, DOMAIN entries))
    <2>1. DOMAIN base = 1..Len(base)
      BY <1>1
    <2>2. Sent(base, DOMAIN base) \subseteq sent
      BY <1>5, <2>1 DEF Sent, Tells
    <2>3. \A i \in 1..Len(list) : Unlock(list[i]) \in sent \cup Sent(entries, DOMAIN entries)
      BY <1>3, <1>4, <2>2 DEF Tells
    <2>4. ASSUME NEW a \in sent
          PROVE  a[2] \in Int /\ \E i \in 1..Len(list) :
                                    Upper[list[i].name] = a[1] /\ list[i].time <= a[2]
      <3>1. PICK j \in 1..Len(base) : Upper[base[j].name] = a[1] /\ base[j].time <= a[2]
        BY <1>5 DEF Tells
      <3>2. base[j] \in UnlockEntries /\ base[j].name # Ach!Nameless /\ base[j].time \in Int
        BY <1>1, EntryTyped DEF OneEach
      <3>3. PICK b : b = Unlock(base[j])
        OBVIOUS
      <3>4. b \in Sent(s, DOMAIN s) /\ b[1] = a[1] /\ b[2] = base[j].time
        BY <1>4, <2>1, <3>1, <3>2, <3>3 DEF Sent, Unlock
      <3>5. PICK i \in 1..Len(list) : Upper[list[i].name] = b[1] /\ list[i].time <= b[2]
        BY <1>3, <3>4 DEF Tells
      <3>6. list[i].time \in Int
        BY <1>3, EntryTyped DEF OneEach
      <3>7. a[2] \in Int
        BY <1>5 DEF Tells
      <3> QED
        BY <3>1, <3>2, <3>4, <3>5, <3>6, <3>7
    <2>5. ASSUME NEW a \in Sent(entries, DOMAIN entries)
          PROVE  a[2] \in Int /\ \E i \in 1..Len(list) :
                                    Upper[list[i].name] = a[1] /\ list[i].time <= a[2]
      BY <1>3, <1>4 DEF Tells
    <2> QED
      BY <2>3, <2>4, <2>5 DEF Tells
  <1> QED
    BY <1>3, <1>5

LEMMA MinIs ==
    ASSUME NEW S, S \subseteq Int, NEW m \in S, \A y \in S : m <= y
    PROVE  Ach!Min(S) = m
  <1> PICK x : x = Ach!Min(S)
    OBVIOUS
  <1>1. x \in S /\ \A y \in S : x <= y
    BY DEF Ach!Min
  <1>2. x \in Int /\ m \in Int /\ x <= m /\ m <= x
    BY <1>1
  <1>3. x = m
    BY <1>2
  <1> QED
    BY <1>3

(* Every achievement that was sent, with the earliest of its times.        *)
Earliest(list, sent) ==
    {<<Upper[list[i].name], list[i].time>> : i \in DOMAIN list}
      = {<<n, Ach!Min({a[2] : a \in {b \in sent : b[1] = n}})>> : n \in {a[1] : a \in sent}}

(* A merge of what was sent is every unlock at its earliest time.         *)
LEMMA TellsAll ==
    ASSUME NEW list, NEW sent, OneEach(list), Tells(list, sent)
    PROVE  Earliest(list, sent)
  <1> DEFINE times(n) == {a[2] : a \in {b \in sent : b[1] = n}}
             first(n) == Ach!Min(times(n))
  <1>1. DOMAIN list = 1..Len(list) /\ \A i \in 1..Len(list) : list[i].time \in Int
    BY EntryTyped DEF OneEach
  <1>2. ASSUME NEW i \in 1..Len(list)
        PROVE  first(Upper[list[i].name]) = list[i].time
    <2> PICK n : n = Upper[list[i].name]
      OBVIOUS
    <2>1. times(n) \subseteq Int
      BY DEF Tells
    <2>2. list[i].time \in times(n)
      <3>1. PICK a : a = Unlock(list[i])
        OBVIOUS
      <3>2. a \in sent /\ a[1] = n /\ a[2] = list[i].time
        BY <3>1 DEF Tells, Unlock
      <3> QED
        BY <3>2
    <2>3. ASSUME NEW y \in times(n) PROVE list[i].time <= y
      <3>1. PICK a \in sent : a[1] = n /\ y = a[2]
        OBVIOUS
      <3>2. PICK j \in 1..Len(list) : Upper[list[j].name] = n /\ list[j].time <= y
        BY <3>1 DEF Tells
      <3>3. j = i
        BY <3>2 DEF OneEach
      <3> QED
        BY <3>2, <3>3
    <2> HIDE DEF times
    <2> QED
      BY <2>1, <2>2, <2>3, MinIs
  <1>3. ASSUME NEW i \in 1..Len(list)
        PROVE  Upper[list[i].name] \in {a[1] : a \in sent}
    BY DEF Tells, Unlock
  <1>4. ASSUME NEW n \in {a[1] : a \in sent}
        PROVE  \E i \in 1..Len(list) : Upper[list[i].name] = n
    BY DEF Tells
  <1> HIDE DEF first
  <1>6. ASSUME NEW i \in 1..Len(list)
        PROVE  <<Upper[list[i].name], list[i].time>>
                 \in {<<n, first(n)>> : n \in {a[1] : a \in sent}}
    BY <1>2, <1>3
  <1>7. ASSUME NEW n \in {a[1] : a \in sent}
        PROVE  <<n, first(n)>>
                 \in {<<Upper[list[i].name], list[i].time>> : i \in 1..Len(list)}
    <2>1. PICK i \in 1..Len(list) : Upper[list[i].name] = n
      BY <1>4
    <2>2. first(n) = list[i].time
      BY <1>2, <2>1
    <2> QED
      BY <2>1, <2>2
  <1>5. {<<Upper[list[i].name], list[i].time>> : i \in 1..Len(list)}
          = {<<n, first(n)>> : n \in {a[1] : a \in sent}}
    BY <1>6, <1>7
  <1> QED
    BY <1>1, <1>5 DEF first, Earliest

LEMMA NamesCount ==
    ASSUME NEW list, OneEach(list)
    PROVE  Cardinality(Ach!Names(list)) = Len(list)
  <1> PICK n : n = Len(list)
    OBVIOUS
  <1> PICK f : f = [i \in 1..n |-> Upper[list[i].name]]
    OBVIOUS
  <1>1. n \in Nat /\ Ach!Names(list) = {Upper[list[i].name] : i \in 1..n}
    BY NamesAre DEF OneEach
  <1>2. f \in Bijection(1..n, Ach!Names(list))
    <2>1. \A i \in 1..n : f[i] \in Ach!Names(list)
      BY <1>1
    <2>2. \A i, j \in 1..n : f[i] = f[j] => i = j
      BY DEF OneEach
    <2>3. \A x \in Ach!Names(list) : \E i \in 1..n : f[i] = x
      BY <1>1
    <2>4. f \in [1..n -> Ach!Names(list)] /\ DOMAIN f = 1..n
      BY <2>1
    <2>5. f \in Injection(1..n, Ach!Names(list))
      BY <2>2, <2>4 DEF Injection, IsInjective
    <2>6. f \in Surjection(1..n, Ach!Names(list))
      BY <2>3, <2>4 DEF Surjection
    <2> QED
      BY <2>5, <2>6 DEF Bijection
  <1>3. IsFiniteSet(1..n) /\ Cardinality(1..n) = n
    <2>0. 1 \in Int /\ n \in Int
      BY <1>1
    <2>1. IsFiniteSet(1..n) /\ Cardinality(1..n) = IF 1 > n THEN 0 ELSE n - 1 + 1
      BY <2>0, FS_Interval, Zenon
    <2>2. (IF 1 > n THEN 0 ELSE n - 1 + 1) = n
      BY <1>1
    <2> QED
      BY <2>1, <2>2
  <1> QED
    BY <1>2, <1>3, FS_Bijection DEF ExistsBijection

(* What is stored of a game, and what a sync holds of it, is a merge; while *)
(* the syncs of a game do not overlap, it is the merge of all that was sent *)
(* and nobody stores between a read and its upsert.                         *)
Upserts(h) == sync[h].pc = "upsert"

Merging(h) ==
    Upserts(h) =>
        LET p == sync[h].of IN
        /\ p \in Payloads /\ OneEach(sync[h].base)
        /\ p.game \notin raced =>
            /\ sync[h].base = unlocks[p.game]
            /\ \A o \in Workers \ {h} : Upserts(o) => sync[o].of.game # p.game

UnlockInv ==
    /\ unlocks = [g \in Games |-> unlocks[g]] /\ accepted = [g \in Games |-> accepted[g]]
    /\ sync = [h \in Workers |-> sync[h]]
    /\ \A g \in Games :
        /\ OneEach(unlocks[g])
        /\ g \notin raced => Tells(unlocks[g], accepted[g])
    /\ \A h \in Workers : Merging(h)

LEMMA InitUnlocks == Ach!Init => UnlockInv
  <1> SUFFICES ASSUME Ach!Init PROVE UnlockInv
    OBVIOUS
  <1>1. OneEach(<<>>) /\ Tells(<<>>, {})
    <2>1. <<>> \in Seq(UnlockEntries) /\ 1..Len(<<>>) = {}
      OBVIOUS
    <2> QED
      BY <2>1 DEF OneEach, Tells
  <1>2. \A h \in Workers : ~Upserts(h)
    BY DEF Ach!Init, Ach!Idle, Upserts
  <1> QED
    BY <1>1, <1>2 DEF Ach!Init, UnlockInv, Merging

LEMMA SyncAt ==
    ASSUME UnlockInv, NEW h \in Workers, NEW state, Ach!Goto(h, state)
    PROVE  /\ sync' = [o \in Workers |-> sync'[o]] /\ sync'[h] = state
           /\ \A o \in Workers \ {h} : sync'[o] = sync[o]
  BY DEF UnlockInv, Ach!Goto

(* A step that stores nothing and starts no upsert.                        *)
LEMMA UnlocksStay ==
    ASSUME UnlockInv, UNCHANGED <<unlocks, accepted, raced>>,
           sync' = [h \in Workers |-> sync'[h]],
           \A h \in Workers : Upserts(h)' => sync'[h] = sync[h]
    PROVE  UnlockInv'
  <1>1. \A h \in Workers : Upserts(h)' => Upserts(h) /\ sync'[h] = sync[h]
    BY DEF Upserts
  <1>2. \A g \in Games : OneEach(unlocks'[g]) /\ (g \notin raced' => Tells(unlocks'[g], accepted'[g]))
    BY DEF UnlockInv
  <1>3. ASSUME NEW h \in Workers PROVE Merging(h)'
    BY <1>1 DEF UnlockInv, Merging, OneEach
  <1> QED
    BY <1>2, <1>3 DEF UnlockInv, OneEach, Tells, Unlock

LEMMA ReadsUnlocks ==
    ASSUME UnlockInv, NEW h \in Workers, NEW p \in Payloads, Ach!SyncReads(h, p)
    PROVE  UnlockInv'
  <1> PICK state : state = [pc |-> "upsert", of |-> p, base |-> unlocks[p.game]]
    OBVIOUS
  <1>1. /\ Ach!Goto(h, state) /\ UNCHANGED <<unlocks, accepted>>
        /\ raced' = IF \E o \in Workers : Upserts(o) /\ sync[o].of.game = p.game
                    THEN raced \cup {p.game} ELSE raced
        /\ ~Upserts(h)
    BY DEF Ach!SyncReads, Ach!At, Upserts
  <1>2. p.game \in Games
    BY PayloadsAssumption
  <1>3. /\ sync' = [o \in Workers |-> sync'[o]] /\ sync'[h] = state
        /\ \A o \in Workers \ {h} : sync'[o] = sync[o]
    BY <1>1, SyncAt
  <1>4. \A g \in Games : /\ OneEach(unlocks[g])
                         /\ g \notin raced' => Tells(unlocks[g], accepted[g])
    BY <1>1 DEF UnlockInv
  <1>5. raced \subseteq raced'
    BY <1>1
  <1>6. Merging(h)'
    <2>1. p.game \notin raced' => \A o \in Workers \ {h} : Upserts(o) => sync[o].of.game # p.game
      BY <1>1
    <2> QED
      BY <1>1, <1>2, <1>3, <1>4, <2>1 DEF Merging, Upserts, OneEach
  <1>7. ASSUME NEW o \in Workers \ {h} PROVE Merging(o)'
    <2>1. CASE ~Upserts(o)
      BY <1>3, <2>1 DEF Merging, Upserts
    <2>2. CASE Upserts(o)
      <3>1. sync[o].of.game = p.game => p.game \in raced'
        BY <1>1, <2>2
      <3>2. Merging(o)
        BY DEF UnlockInv
      <3> QED
        BY <1>1, <1>3, <1>5, <2>2, <3>1, <3>2 DEF Merging, Upserts, OneEach
    <2> QED
      BY <2>1, <2>2
  <1> QED
    BY <1>1, <1>3, <1>4, <1>6, <1>7 DEF UnlockInv, OneEach, Tells, Unlock

LEMMA UpsertsUnlocks ==
    ASSUME UnlockInv, NEW h \in Workers, Ach!SyncUpserts(h)
    PROVE  UnlockInv'
  <1> PICK p : p = sync[h].of
    OBVIOUS
  <1> PICK g : g = p.game
    OBVIOUS
  <1> PICK base : base = sync[h].base
    OBVIOUS
  <1> PICK merged : merged = Ach!Merge(base, p.entries)
    OBVIOUS
  <1> PICK new : new = Sent(p.entries, DOMAIN p.entries)
    OBVIOUS
  <1>1. Upserts(h) /\ Merging(h)
    BY DEF Ach!SyncUpserts, Ach!At, Upserts, UnlockInv
  <1>2. /\ p \in Payloads /\ g \in Games /\ p.entries \in Seq(UnlockEntries) /\ OneEach(base)
        /\ g \notin raced => base = unlocks[g]
    BY <1>1, PayloadsAssumption DEF Merging
  <1>3. /\ unlocks' = [unlocks EXCEPT ![g] = merged]
        /\ accepted' = [accepted EXCEPT ![g] = @ \cup new]
        /\ UNCHANGED raced
    BY DEF Ach!SyncUpserts, Sent, Unlock
  <1>4. PICK state : state.pc # "upsert" /\ Ach!Goto(h, state)
    BY DEF Ach!SyncUpserts, Ach!Idle
  <1>5. /\ sync' = [o \in Workers |-> sync'[o]] /\ sync'[h] = state
        /\ \A o \in Workers \ {h} : sync'[o] = sync[o]
    BY <1>4, SyncAt
  <1>6. /\ OneEach(merged)
        /\ g \notin raced => Tells(merged, accepted[g] \cup new)
    <2>1. g \notin raced => Tells(base, accepted[g])
      BY <1>2 DEF UnlockInv
    <2> QED
      BY <1>2, <2>1, MergeTells
  <1>7. /\ unlocks' = [f \in Games |-> unlocks'[f]] /\ accepted' = [f \in Games |-> accepted'[f]]
        /\ unlocks'[g] = merged /\ accepted'[g] = accepted[g] \cup new
        /\ \A f \in Games \ {g} : unlocks'[f] = unlocks[f] /\ accepted'[f] = accepted[f]
    BY <1>2, <1>3 DEF UnlockInv
  <1>8. ASSUME NEW f \in Games
        PROVE  OneEach(unlocks'[f]) /\ (f \notin raced' => Tells(unlocks'[f], accepted'[f]))
    <2>1. CASE f = g
      BY <1>3, <1>6, <1>7, <2>1
    <2>2. CASE f # g
      BY <1>3, <1>7, <2>2 DEF UnlockInv
    <2> QED
      BY <2>1, <2>2
  <1>9. ASSUME NEW o \in Workers PROVE Merging(o)'
    <2>1. CASE o = h \/ ~Upserts(o)
      BY <1>4, <1>5, <2>1 DEF Merging, Upserts
    <2>2. CASE o # h /\ Upserts(o)
      <3>1. Merging(o) /\ sync'[o] = sync[o]
        BY <1>5, <2>2 DEF UnlockInv
      <3> PICK f : f = sync[o].of.game
        OBVIOUS
      <3>2. f \in Games
        BY <2>2, <3>1, PayloadsAssumption DEF Merging
      <3>3. f \notin raced => f # g
        BY <1>1, <2>2, <3>1 DEF Merging
      <3>4. f \notin raced => unlocks'[f] = unlocks[f]
        BY <1>7, <3>2, <3>3
      <3>5. \A x \in Workers \ {o} : Upserts(x)' => Upserts(x) /\ sync'[x] = sync[x]
        BY <1>4, <1>5 DEF Upserts
      <3> QED
        BY <1>3, <2>2, <3>1, <3>4, <3>5 DEF Merging, Upserts, OneEach
    <2> QED
      BY <2>1, <2>2
  <1> QED
    BY <1>5, <1>7, <1>8, <1>9 DEF UnlockInv, OneEach, Tells, Unlock

LEMMA ResetUnlocks ==
    ASSUME UnlockInv, NEW g \in Games, Ach!Reset(g)
    PROVE  UnlockInv'
  <1>1. /\ unlocks' = [unlocks EXCEPT ![g] = <<>>] /\ accepted' = [accepted EXCEPT ![g] = {}]
        /\ UNCHANGED sync
        /\ raced' = IF \E h \in Workers : Upserts(h) /\ sync[h].of.game = g
                    THEN raced \cup {g} ELSE raced \ {g}
    BY DEF Ach!Reset, Ach!At, Upserts
  <1>2. OneEach(<<>>) /\ Tells(<<>>, {})
    <2>1. <<>> \in Seq(UnlockEntries) /\ 1..Len(<<>>) = {}
      OBVIOUS
    <2> QED
      BY <2>1 DEF OneEach, Tells
  <1>3. /\ unlocks' = [f \in Games |-> unlocks'[f]] /\ accepted' = [f \in Games |-> accepted'[f]]
        /\ unlocks'[g] = <<>> /\ accepted'[g] = {}
        /\ \A f \in Games \ {g} : /\ unlocks'[f] = unlocks[f] /\ accepted'[f] = accepted[f]
                                  /\ f \in raced' <=> f \in raced
    BY <1>1 DEF UnlockInv
  <1>4. ASSUME NEW f \in Games
        PROVE  OneEach(unlocks'[f]) /\ (f \notin raced' => Tells(unlocks'[f], accepted'[f]))
    <2>1. CASE f = g
      BY <1>2, <1>3, <2>1
    <2>2. CASE f # g
      BY <1>3, <2>2 DEF UnlockInv
    <2> QED
      BY <2>1, <2>2
  <1>5. ASSUME NEW h \in Workers PROVE Merging(h)'
    <2>1. CASE ~Upserts(h)
      BY <1>1, <2>1 DEF Merging, Upserts
    <2>2. CASE Upserts(h)
      <3> PICK f : f = sync[h].of.game
        OBVIOUS
      <3>1. Merging(h) /\ f \in Games
        BY <2>2, PayloadsAssumption DEF UnlockInv, Merging
      <3>2. f = g => f \in raced'
        BY <1>1, <2>2
      <3>3. f # g => unlocks'[f] = unlocks[f] /\ (f \in raced' <=> f \in raced)
        BY <1>3, <3>1
      <3> QED
        BY <1>1, <2>2, <3>1, <3>2, <3>3 DEF Merging, Upserts, OneEach
    <2> QED
      BY <2>1, <2>2
  <1> QED
    BY <1>1, <1>3, <1>4, <1>5 DEF UnlockInv, OneEach, Tells, Unlock

LEMMA StepUnlocks == ShotInv /\ UnlockInv /\ [Ach!Next]_achVars => UnlockInv'
  <1> SUFFICES ASSUME ShotInv, UnlockInv, [Ach!Next]_achVars PROVE UnlockInv'
    OBVIOUS
  <1>1. ASSUME UNCHANGED <<unlocks, accepted, raced, sync>> PROVE UnlockInv'
    BY <1>1, UnlocksStay DEF UnlockInv
  <1>2. ASSUME NEW h \in Workers, NEW state, Ach!Goto(h, state), state.pc # "upsert",
               UNCHANGED <<unlocks, accepted, raced>>
        PROVE  UnlockInv'
    <2>1. /\ sync' = [o \in Workers |-> sync'[o]] /\ sync'[h] = state
          /\ \A o \in Workers \ {h} : sync'[o] = sync[o]
      BY <1>2, SyncAt
    <2> QED
      BY <1>2, <2>1, UnlocksStay DEF Upserts
  <1>3. CASE UNCHANGED achVars
    BY <1>1, <1>3 DEF achVars
  <1>4. ASSUME NEW s \in Shots,
               \/ Ach!Authorize(s) \/ Ach!Put(s) \/ Ach!RemoveShot(s) \/ Ach!Unlink(s)
               \/ Ach!SweepDrops(s)
        PROVE  UnlockInv'
    BY <1>1, <1>4 DEF Ach!Authorize, Ach!Put, Ach!RemoveShot, Ach!Unlink, Ach!SweepDrops,
                      Ach!history
  <1>5. CASE Ach!SweepLists
    BY <1>1, <1>5 DEF Ach!SweepLists, Ach!history
  <1>6. ASSUME NEW h \in Workers, Ach!ClaimReads(h) \/ Ach!ClaimChecks(h) \/ Ach!ClaimFiles(h)
        PROVE  UnlockInv'
    <2> PICK t : t = sync[h]
      OBVIOUS
    <2>1. UNCHANGED <<unlocks, accepted, raced>>
      BY <1>6 DEF Ach!ClaimReads, Ach!ClaimChecks, Ach!ClaimFiles, Ach!history
    <2>2. ShapeOf(t)
      BY <1>6 DEF ShotInv, InClaim, Claims, Ach!ClaimReads, Ach!ClaimChecks, Ach!ClaimFiles, Ach!At
    <2>3. ASSUME Ach!Goto(h, Ach!Idle) PROVE UnlockInv'
      BY <1>2, <2>1, <2>3 DEF Ach!Idle
    <2>4. ASSUME NEW pc, pc # "upsert", Ach!Goto(h, [t EXCEPT !.pc = pc]) PROVE UnlockInv'
      <3>1. [t EXCEPT !.pc = pc].pc # "upsert"
        BY <2>2, <2>4 DEF ShapeOf
      <3> QED
        BY <1>2, <2>1, <2>4, <3>1
    <2>5. ASSUME NEW rest, NEW done,
                 Ach!Goto(h, [t EXCEPT !.pc = "claim", !.todo = rest, !.done = done])
          PROVE  UnlockInv'
      <3>1. [t EXCEPT !.pc = "claim", !.todo = rest, !.done = done].pc # "upsert"
        BY <2>2, NextClaim
      <3> QED
        BY <1>2, <2>1, <2>5, <3>1
    <2>6. CASE Ach!ClaimReads(h)
      BY <2>3, <2>4, <2>6 DEF Ach!ClaimReads
    <2>7. CASE Ach!ClaimChecks(h)
      BY <2>3, <2>4, <2>7 DEF Ach!ClaimChecks
    <2>8. CASE Ach!ClaimFiles(h)
      BY <2>3, <2>5, <2>8 DEF Ach!ClaimFiles
    <2> QED
      BY <1>6, <2>6, <2>7, <2>8
  <1>7. ASSUME NEW h \in Workers, Ach!SyncDies(h) PROVE UnlockInv'
    BY <1>2, <1>7 DEF Ach!SyncDies, Ach!history, Ach!Idle
  <1> QED
    BY <1>3, <1>4, <1>5, <1>6, <1>7, ReadsUnlocks, UpsertsUnlocks, ResetUnlocks DEF Ach!Next

(* The list stored for a game has one entry for each achievement, however  *)
(* it is spelt, and unless syncs or resets of the game overlapped it is    *)
(* every unlock sent since the last reset at its earliest time (the merge  *)
(* of src/achievements.rs), for lists of any length.                       *)
THEOREM UnlocksMerge == ProfilesSpec => []UnlocksKept
  <1>1. ProfilesInit => ShotInv /\ UnlockInv
    BY InitShots, InitUnlocks DEF ProfilesInit
  <1>2. ShotInv /\ UnlockInv /\ [ProfilesNext]_allVars => ShotInv' /\ UnlockInv'
    BY PartsStep, StepShots, StepUnlocks
  <1>3. UnlockInv => UnlocksKept
    <2> SUFFICES ASSUME UnlockInv, NEW g \in Games
                 PROVE  /\ Ach!Cardinality(Ach!Names(unlocks[g])) = Len(unlocks[g])
                        /\ g \notin raced =>
                            {<<Upper[unlocks[g][i].name], unlocks[g][i].time>> :
                                 i \in DOMAIN unlocks[g]}
                              = {<<n, Ach!Min({a[2] : a \in {b \in accepted[g] : b[1] = n}})>> :
                                    n \in {a[1] : a \in accepted[g]}}
      BY DEF UnlocksKept, Ach!UnlocksKept
    <2>1. OneEach(unlocks[g]) /\ (g \notin raced => Tells(unlocks[g], accepted[g]))
      BY DEF UnlockInv
    <2>2. \A S : Ach!Cardinality(S) = Cardinality(S)
      BY DEF Ach!Cardinality, Cardinality
    <2>3. Ach!Cardinality(Ach!Names(unlocks[g])) = Len(unlocks[g])
      BY <2>1, <2>2, NamesCount
    <2>4. ASSUME g \notin raced
          PROVE  {<<Upper[unlocks[g][i].name], unlocks[g][i].time>> : i \in DOMAIN unlocks[g]}
                   = {<<n, Ach!Min({a[2] : a \in {b \in accepted[g] : b[1] = n}})>> :
                         n \in {a[1] : a \in accepted[g]}}
      <3>1. Earliest(unlocks[g], accepted[g])
        <4>1. OneEach(unlocks[g]) /\ Tells(unlocks[g], accepted[g])
          BY <2>1, <2>4
        <4> QED
          BY <4>1, TellsAll
      <3> QED
        BY <3>1 DEF Earliest
    <2> QED
      BY <2>3, <2>4
  <1> QED
    BY <1>1, <1>2, <1>3, PTL DEF ProfilesSpec

-----------------------------------------------------------------------------
(* Combined achievements.  The fold over the copies and, inside it, over   *)
(* the definitions of each.                                                *)
CombinesBy(g, copies, D) ==
    g = [t \in SUBSET D |->
            IF t = {} THEN [seen |-> <<>>, groups |-> <<>>]
            ELSE Lnk!AddCopy(g[t \ {Last(t)}], copies, [i \in 1..Len(copies) |-> i][Last(t)])]
CopiesBy(g, acc, game, defs, D) ==
    g = [t \in SUBSET D |->
            IF t = {} THEN Lnk!StartCopy(acc)
            ELSE Lnk!AddDefinition(g[t \ {Last(t)}], game, defs[Last(t)])]

LEMMA CombineIs ==
    ASSUME NEW copies, Len(copies) \in Nat
    PROVE  Lnk!Combine(copies) = Folded(CopiesFold(copies), 1..Len(copies)).groups
  <1> PICK n \in Nat : n = Len(copies)
    OBVIOUS
  <1> PICK F : F = CHOOSE g : CombinesBy(g, copies, 1..n)
    OBVIOUS
  <1>0. DOMAIN [i \in 1..Len(copies) |-> i] = 1..n
    OBVIOUS
  <1>1. Lnk!Combine(copies) = F[1..n].groups
    BY <1>0 DEF Lnk!Combine, Lnk!FoldLeft, Lnk!MapThenFoldSet, CombinesBy, Last, Lnk!Max, Ach!Max
  <1>2. \A g : CombinesBy(g, copies, 1..n) <=> Folds(g, CopiesFold(copies), 1..n)
    <2>1. \A t \in SUBSET (1..n) : t # {} => [i \in 1..Len(copies) |-> i][Last(t)] = Last(t)
      BY OnlyNumbers, LastIn
    <2> QED
      BY <2>1 DEF CombinesBy, Folds, CopiesFold, Does
  <1>3. CombinesBy(Folder(CopiesFold(copies), 1..n), copies, 1..n)
    BY <1>2, OnlyNumbers, FolderFolds
  <1>4. Folds(F, CopiesFold(copies), 1..n)
    BY <1>2, <1>3
  <1> QED
    BY <1>1, <1>4, OnlyNumbers, FoldsSame

LEMMA AddCopyIs ==
    ASSUME NEW acc, NEW copies, NEW i, NEW n \in Nat, DOMAIN Lnk!DefinitionsOf(copies, i) = 1..n
    PROVE  Lnk!AddCopy(acc, copies, i)
             = Folded(CopyFold(acc, copies[i].game, Lnk!DefinitionsOf(copies, i)), 1..n)
  <1> PICK defs : defs = Lnk!DefinitionsOf(copies, i)
    OBVIOUS
  <1> PICK game : game = copies[i].game
    OBVIOUS
  <1> PICK F : F = CHOOSE g : CopiesBy(g, acc, game, defs, 1..n)
    OBVIOUS
  <1>1. Lnk!AddCopy(acc, copies, i) = F[1..n]
    BY DEF Lnk!AddCopy, Lnk!FoldLeft, Lnk!MapThenFoldSet, CopiesBy, Last, Lnk!Max, Ach!Max
  <1>2. \A g : CopiesBy(g, acc, game, defs, 1..n) <=> Folds(g, CopyFold(acc, game, defs), 1..n)
    BY DEF CopiesBy, Folds, CopyFold, Does
  <1>3. CopiesBy(Folder(CopyFold(acc, game, defs), 1..n), acc, game, defs, 1..n)
    BY <1>2, OnlyNumbers, FolderFolds
  <1>4. Folds(F, CopyFold(acc, game, defs), 1..n)
    BY <1>2, <1>3
  <1> QED
    BY <1>1, <1>4, OnlyNumbers, FoldsSame

(* What the view has listed of the places P, when key and what give the    *)
(* key and the variant of each.                                            *)
IsList(s) == Len(s) \in Nat /\ s = [i \in 1..Len(s) |-> s[i]]

LEMMA AppendIs ==
    ASSUME NEW s, IsList(s), NEW e
    PROVE  /\ IsList(Append(s, e)) /\ Len(Append(s, e)) = Len(s) + 1
           /\ Append(s, e)[Len(s) + 1] = e
           /\ \A i \in 1..Len(s) : Append(s, e)[i] = s[i]
  <1> DEFINE S == {s[i] : i \in 1..Len(s)} \cup {e}
  <1>1. s \in Seq(S) /\ e \in S
    <2>1. \A i \in 1..Len(s) : s[i] \in S
      OBVIOUS
    <2> HIDE DEF S
    <2> QED
      BY <2>1 DEF IsList, S
  <1> HIDE DEF S
  <1>2. /\ Append(s, e) \in Seq(S) /\ Len(Append(s, e)) = Len(s) + 1
        /\ Append(s, e)[Len(s) + 1] = e
        /\ \A i \in 1..Len(s) : Append(s, e)[i] = s[i]
    BY <1>1
  <1>3. \A t \in Seq(S) : IsList(t)
    BY DEF IsList
  <1> QED
    BY <1>2, <1>3

Place(at) == at = <<at[1], at[2]>> /\ at[1] \in Nat /\ at[2] \in Nat
SameKey(P, key, at) == {b \in P : key[b] = key[at]}
FirstOf(P, key) == {at \in P : \A b \in SameKey(P, key, at) : ~Lnk!Before(b, at)}
Rank(S, at) == Cardinality(Lnk!Ahead(S, at)) + 1

IsGroup(group, S, name, what) ==
    /\ group = [key |-> name, variants |-> group.variants]
    /\ IsList(group.variants) /\ Len(group.variants) = Cardinality(S)
    /\ \A b \in S : group.variants[Rank(S, b)] = what[b]

Listed(groups, P, key, what) ==
    /\ IsFiniteSet(P) /\ \A at \in P : Place(at)
    /\ IsList(groups) /\ Len(groups) = Cardinality(FirstOf(P, key))
    /\ \A at \in FirstOf(P, key) :
        IsGroup(groups[Rank(FirstOf(P, key), at)], SameKey(P, key, at), key[at], what)
    /\ \A n \in 1..Len(groups) : \E at \in FirstOf(P, key) : n = Rank(FirstOf(P, key), at)
    /\ \A b \in P : \E at \in FirstOf(P, key) : key[at] = key[b]

LEMMA RankIs ==
    ASSUME NEW S, IsFiniteSet(S), \A at \in S : Place(at), NEW at \in S
    PROVE  Rank(S, at) \in 1..Cardinality(S)
  <1>1. Lnk!Ahead(S, at) \subseteq S \ {at}
    BY DEF Lnk!Ahead, Lnk!Before, Place
  <1>2. IsFiniteSet(S \ {at}) /\ Cardinality(S \ {at}) = Cardinality(S) - 1
    BY FS_RemoveElement
  <1>3. /\ IsFiniteSet(Lnk!Ahead(S, at))
        /\ Cardinality(Lnk!Ahead(S, at)) <= Cardinality(S \ {at})
    BY <1>1, <1>2, FS_Subset
  <1>4. Cardinality(S) \in Nat /\ Cardinality(Lnk!Ahead(S, at)) \in Nat
    BY <1>3, FS_CardinalityType
  <1> QED
    BY <1>2, <1>3, <1>4 DEF Rank

(* A place after all others leaves their ranks.                            *)
OneMore(S, x) ==
    /\ IsFiniteSet(S \cup {x}) /\ Cardinality(S \cup {x}) = Cardinality(S) + 1
    /\ Cardinality(S) \in Nat
    /\ Rank(S \cup {x}, x) = Cardinality(S) + 1
    /\ \A at \in S : Rank(S \cup {x}, at) = Rank(S, at)

LEMMA RanksStay ==
    ASSUME NEW S, IsFiniteSet(S), \A at \in S : Place(at), NEW x, Place(x), x \notin S,
           \A at \in S : Lnk!Before(at, x)
    PROVE  OneMore(S, x)
  <1>1. IsFiniteSet(S \cup {x}) /\ Cardinality(S \cup {x}) = Cardinality(S) + 1
        /\ Cardinality(S) \in Nat
    BY FS_AddElement, FS_CardinalityType
  <1>2. Lnk!Ahead(S \cup {x}, x) = S
    BY DEF Lnk!Ahead, Lnk!Before, Place
  <1>3. ASSUME NEW at \in S PROVE Lnk!Ahead(S \cup {x}, at) = Lnk!Ahead(S, at)
    <2>1. ~Lnk!Before(x, at)
      <3>1. Lnk!Before(at, x) /\ Place(at)
        OBVIOUS
      <3> QED
        BY <3>1 DEF Lnk!Before, Place
    <2> QED
      BY <2>1 DEF Lnk!Ahead
  <1> QED
    BY <1>1, <1>2, <1>3 DEF Rank, OneMore

(* A group takes the variant of one place more.                            *)
LEMMA GroupGrows ==
    ASSUME NEW group, NEW S, NEW name, NEW what, IsGroup(group, S, name, what),
           IsFiniteSet(S), \A at \in S : Place(at), NEW x, Place(x), x \notin S,
           \A at \in S : Lnk!Before(at, x)
    PROVE  IsGroup([group EXCEPT !.variants = Append(@, what[x])], S \cup {x}, name, what)
  <1>0. OneMore(S, x)
    BY RanksStay
  <1> PICK list : list = group.variants
    OBVIOUS
  <1> PICK grown : grown = Append(list, what[x])
    OBVIOUS
  <1>1. [group EXCEPT !.variants = Append(@, what[x])] = [key |-> name, variants |-> grown]
    <2>1. group = [key |-> name, variants |-> list]
      BY DEF IsGroup
    <2>2. Append(group.variants, what[x]) = grown
      OBVIOUS
    <2>3. \A was : [[key |-> name, variants |-> was] EXCEPT !.variants = grown]
                     = [key |-> name, variants |-> grown]
      OBVIOUS
    <2>4. [group EXCEPT !.variants = grown] = [key |-> name, variants |-> grown]
      BY <2>1, <2>3, Zenon
    <2> QED
      BY <2>2, <2>4, Zenon
  <1>2. IsList(list) /\ Len(list) = Cardinality(S) /\ \A b \in S : list[Rank(S, b)] = what[b]
    BY DEF IsGroup
  <1>3. /\ IsList(grown) /\ Len(grown) = Len(list) + 1 /\ grown[Len(list) + 1] = what[x]
        /\ \A i \in 1..Len(list) : grown[i] = list[i]
    BY <1>2, AppendIs
  <1>4. ASSUME NEW b \in S \cup {x} PROVE grown[Rank(S \cup {x}, b)] = what[b]
    <2>1. CASE b = x
      BY <1>0, <1>2, <1>3, <2>1 DEF OneMore
    <2>2. CASE b \in S
      <3>1. Rank(S \cup {x}, b) = Rank(S, b) /\ Rank(S, b) \in 1..Len(list)
        BY <1>0, <1>2, <2>2, RankIs DEF OneMore
      <3> QED
        BY <1>2, <1>3, <2>2, <3>1
    <2> QED
      BY <2>1, <2>2
  <1>5. Len(grown) = Cardinality(S \cup {x})
    BY <1>0, <1>2, <1>3 DEF OneMore
  <1> QED
    BY <1>1, <1>3, <1>4, <1>5 DEF IsGroup

LEMMA GroupStarts ==
    ASSUME NEW x, Place(x), NEW name, NEW what
    PROVE  IsGroup([key |-> name, variants |-> <<what[x]>>], {x}, name, what)
  <1>1. Lnk!Ahead({x}, x) = {}
    BY DEF Lnk!Ahead, Lnk!Before, Place
  <1>2. Rank({x}, x) = 1 /\ Cardinality({x}) = 1
    BY <1>1, FS_EmptySet, FS_Singleton DEF Rank
  <1>3. IsList(<<what[x]>>) /\ Len(<<what[x]>>) = 1 /\ <<what[x]>>[1] = what[x]
    BY DEF IsList
  <1> QED
    BY <1>2, <1>3 DEF IsGroup

(* A group of the list, and where it is.                                   *)
LEMMA GroupAt ==
    ASSUME NEW groups, NEW P, NEW key, NEW what, Listed(groups, P, key, what),
           NEW at \in FirstOf(P, key)
    PROVE  /\ IsFiniteSet(FirstOf(P, key)) /\ \A b \in FirstOf(P, key) : Place(b)
           /\ Rank(FirstOf(P, key), at) \in 1..Len(groups)
           /\ IsGroup(groups[Rank(FirstOf(P, key), at)], SameKey(P, key, at), key[at], what)
           /\ groups[Rank(FirstOf(P, key), at)].key = key[at]
  <1>1. FirstOf(P, key) \subseteq P
    BY DEF FirstOf
  <1>2. IsFiniteSet(FirstOf(P, key)) /\ \A b \in FirstOf(P, key) : Place(b)
    BY <1>1, FS_Subset DEF Listed
  <1>3. Rank(FirstOf(P, key), at) \in 1..Len(groups)
    BY <1>2, RankIs DEF Listed
  <1>4. IsGroup(groups[Rank(FirstOf(P, key), at)], SameKey(P, key, at), key[at], what)
    BY DEF Listed
  <1>5. groups[Rank(FirstOf(P, key), at)].key = key[at]
    <2>1. \A group : IsGroup(group, SameKey(P, key, at), key[at], what) => group.key = key[at]
      BY DEF IsGroup
    <2> QED
      BY <1>4, <2>1
  <1> QED
    BY <1>2, <1>3, <1>4, <1>5

LEMMA NewKeyListed ==
    ASSUME NEW groups, NEW P, NEW key, NEW what, Listed(groups, P, key, what),
           NEW x, Place(x), x \notin P, \A at \in P : Lnk!Before(at, x),
           \A i \in DOMAIN groups : groups[i].key # key[x]
    PROVE  Listed(Lnk!AddVariant(groups, key[x], what[x]), P \cup {x}, key, what)
  <1> PICK F : F = FirstOf(P, key)
    OBVIOUS
  <1> PICK new : new = Lnk!AddVariant(groups, key[x], what[x])
    OBVIOUS
  <1>1. IsFiniteSet(P) /\ (\A at \in P : Place(at)) /\ IsList(groups) /\ Len(groups) = Cardinality(F)
    BY DEF Listed
  <1>2. DOMAIN groups = 1..Len(groups) /\ Len(groups) \in Nat
    BY <1>1 DEF IsList
  <1>3. F \subseteq P /\ IsFiniteSet(F) /\ x \notin F /\ (\A at \in F : Place(at))
        /\ \A at \in F : Lnk!Before(at, x)
    BY <1>1, FS_Subset DEF FirstOf
  <1>4. ASSUME NEW b \in P PROVE key[b] # key[x]
    <2>1. PICK at \in F : key[at] = key[b]
      BY DEF Listed
    <2>2. Rank(F, at) \in DOMAIN groups /\ groups[Rank(F, at)].key = key[at]
      BY <1>2, GroupAt
    <2> QED
      BY <2>1, <2>2
  <1>5. SameKey(P \cup {x}, key, x) = {x}
    BY <1>4 DEF SameKey
  <1>6. \A at \in P : SameKey(P \cup {x}, key, at) = SameKey(P, key, at)
    BY <1>4 DEF SameKey
  <1>7. FirstOf(P \cup {x}, key) = F \cup {x}
    <2>1. ~Lnk!Before(x, x)
      BY DEF Lnk!Before, Place
    <2> QED
      BY <1>5, <1>6, <2>1 DEF FirstOf
  <1> PICK one : one = [key |-> key[x], variants |-> <<what[x]>>]
    OBVIOUS
  <1>8. new = Append(groups, one)
    BY DEF Lnk!AddVariant
  <1>9. /\ IsList(new) /\ Len(new) = Len(groups) + 1 /\ new[Len(groups) + 1] = one
        /\ \A i \in 1..Len(groups) : new[i] = groups[i]
    BY <1>1, <1>8, AppendIs
  <1>10. /\ Cardinality(F \cup {x}) = Cardinality(F) + 1
         /\ Rank(F \cup {x}, x) = Cardinality(F) + 1
         /\ \A at \in F : Rank(F \cup {x}, at) = Rank(F, at)
    <2>1. OneMore(F, x)
      BY <1>3, RanksStay
    <2> QED
      BY <2>1 DEF OneMore
  <1>11. IsFiniteSet(P \cup {x}) /\ \A at \in P \cup {x} : Place(at)
    BY <1>1, FS_AddElement
  <1>12. ASSUME NEW at \in F \cup {x}
         PROVE  IsGroup(new[Rank(F \cup {x}, at)], SameKey(P \cup {x}, key, at), key[at], what)
    <2>1. CASE at = x
      <3>1. new[Rank(F \cup {x}, at)] = one
        BY <1>1, <1>9, <1>10, <2>1
      <3>2. IsGroup(one, {x}, key[x], what)
        BY GroupStarts
      <3> QED
        BY <1>5, <2>1, <3>1, <3>2
    <2>2. CASE at \in F
      <3>1. Rank(F, at) \in 1..Len(groups) /\ IsGroup(groups[Rank(F, at)], SameKey(P, key, at), key[at], what)
        BY <2>2, GroupAt
      <3>2. new[Rank(F \cup {x}, at)] = groups[Rank(F, at)]
        BY <1>9, <1>10, <2>2, <3>1
      <3> QED
        BY <1>3, <1>6, <2>2, <3>1, <3>2
    <2> QED
      BY <2>1, <2>2
  <1>13. ASSUME NEW n \in 1..Len(new) PROVE \E at \in F \cup {x} : n = Rank(F \cup {x}, at)
    <2>1. CASE n = Len(groups) + 1
      BY <1>1, <1>10, <2>1
    <2>2. CASE n # Len(groups) + 1
      <3>1. n \in 1..Len(groups)
        BY <1>2, <1>9, <2>2
      <3>2. PICK at \in F : n = Rank(F, at)
        BY <3>1 DEF Listed
      <3> QED
        BY <1>10, <3>2
    <2> QED
      BY <2>1, <2>2
  <1>14. ASSUME NEW b \in P \cup {x} PROVE \E at \in F \cup {x} : key[at] = key[b]
    <2>1. \A c \in P : \E at \in F : key[at] = key[c]
      BY DEF Listed
    <2> QED
      BY <2>1
  <1> PICK G : G = F \cup {x}
    OBVIOUS
  <1>15. Len(new) = Cardinality(G) /\ IsList(new) /\ G = FirstOf(P \cup {x}, key)
    BY <1>1, <1>7, <1>9, <1>10
  <1>16. /\ \A at \in G : IsGroup(new[Rank(G, at)], SameKey(P \cup {x}, key, at), key[at], what)
         /\ \A n \in 1..Len(new) : \E at \in G : n = Rank(G, at)
         /\ \A b \in P \cup {x} : \E at \in G : key[at] = key[b]
    BY <1>12, <1>13, <1>14
  <1> QED
    BY <1>11, <1>15, <1>16 DEF Listed

LEMMA KnownKeyListed ==
    ASSUME NEW groups, NEW P, NEW key, NEW what, Listed(groups, P, key, what),
           NEW x, Place(x), x \notin P, \A at \in P : Lnk!Before(at, x),
           NEW i \in DOMAIN groups, groups[i].key = key[x]
    PROVE  Listed(Lnk!AddVariant(groups, key[x], what[x]), P \cup {x}, key, what)
  <1> PICK F : F = FirstOf(P, key)
    OBVIOUS
  <1> PICK new : new = Lnk!AddVariant(groups, key[x], what[x])
    OBVIOUS
  <1>1. IsFiniteSet(P) /\ (\A at \in P : Place(at)) /\ IsList(groups) /\ Len(groups) = Cardinality(F)
    BY DEF Listed
  <1>2. DOMAIN groups = 1..Len(groups) /\ Len(groups) \in Nat
    BY <1>1 DEF IsList
  <1>3. F \subseteq P /\ \A at \in P : ~Lnk!Before(x, at)
    <2>1. ASSUME NEW at \in P PROVE ~Lnk!Before(x, at)
      <3>1. Lnk!Before(at, x) /\ Place(at)
        BY <1>1
      <3> QED
        BY <3>1 DEF Lnk!Before, Place
    <2> QED
      BY <2>1 DEF FirstOf
  <1>4. PICK first \in F : key[first] = key[x]
    <2>1. PICK at \in F : i = Rank(F, at)
      BY <1>2 DEF Listed
    <2>2. groups[Rank(F, at)].key = key[at]
      BY GroupAt
    <2> QED
      BY <2>1, <2>2
  <1>5. FirstOf(P \cup {x}, key) = F
    <2>1. x \notin FirstOf(P \cup {x}, key)
      BY <1>3, <1>4 DEF FirstOf, SameKey
    <2>2. \A at \in P : at \in FirstOf(P \cup {x}, key) <=> at \in F
      BY <1>3 DEF FirstOf, SameKey
    <2>3. FirstOf(P \cup {x}, key) \subseteq P \cup {x}
      BY DEF FirstOf
    <2> QED
      BY <1>3, <2>1, <2>2, <2>3
  <1>6. new = [n \in DOMAIN groups |->
                 IF groups[n].key = key[x] THEN [groups[n] EXCEPT !.variants = Append(@, what[x])]
                 ELSE groups[n]]
    BY DEF Lnk!AddVariant
  <1>7. IsList(new) /\ Len(new) = Len(groups)
    BY <1>2, <1>6 DEF IsList
  <1>8. ASSUME NEW at \in F
        PROVE  IsGroup(new[Rank(F, at)], SameKey(P \cup {x}, key, at), key[at], what)
    <2> PICK group : group = groups[Rank(F, at)]
      OBVIOUS
    <2>1. /\ Rank(F, at) \in DOMAIN groups /\ group.key = key[at]
          /\ IsGroup(group, SameKey(P, key, at), key[at], what)
      BY <1>2, GroupAt
    <2>2. CASE key[at] = key[x]
      <3> PICK S : S = SameKey(P, key, at)
        OBVIOUS
      <3>1. SameKey(P \cup {x}, key, at) = S \cup {x}
        BY <2>2 DEF SameKey
      <3>2. new[Rank(F, at)] = [group EXCEPT !.variants = Append(@, what[x])]
        BY <1>6, <2>1, <2>2
      <3>3. S \subseteq P /\ IsFiniteSet(S) /\ x \notin S /\ (\A b \in S : Place(b))
            /\ \A b \in S : Lnk!Before(b, x)
        BY <1>1, FS_Subset DEF SameKey
      <3>4. IsGroup([group EXCEPT !.variants = Append(@, what[x])], S \cup {x}, key[at], what)
        BY <2>1, <3>3, GroupGrows
      <3> QED
        BY <3>1, <3>2, <3>4
    <2>3. CASE key[at] # key[x]
      <3>1. SameKey(P \cup {x}, key, at) = SameKey(P, key, at)
        BY <2>3 DEF SameKey
      <3>2. new[Rank(F, at)] = group
        BY <1>6, <2>1, <2>3
      <3> QED
        BY <2>1, <3>1, <3>2
    <2> QED
      BY <2>2, <2>3
  <1>9. \A n \in 1..Len(new) : \E at \in F : n = Rank(F, at)
    BY <1>7 DEF Listed
  <1>10. \A b \in P \cup {x} : \E at \in F : key[at] = key[b]
    BY <1>4 DEF Listed
  <1>11. IsFiniteSet(P \cup {x}) /\ \A at \in P \cup {x} : Place(at)
    BY <1>1, FS_AddElement
  <1> QED
    BY <1>1, <1>5, <1>7, <1>8, <1>9, <1>10, <1>11 DEF Listed

LEMMA PlaceListed ==
    ASSUME NEW groups, NEW P, NEW key, NEW what, Listed(groups, P, key, what),
           NEW x, Place(x), x \notin P, \A at \in P : Lnk!Before(at, x)
    PROVE  Listed(Lnk!AddVariant(groups, key[x], what[x]), P \cup {x}, key, what)
  <1>1. CASE \A i \in DOMAIN groups : groups[i].key # key[x]
    BY <1>1, NewKeyListed
  <1>2. CASE \E i \in DOMAIN groups : groups[i].key = key[x]
    BY <1>2, KnownKeyListed
  <1> QED
    BY <1>1, <1>2

LEMMA FiniteImage ==
    ASSUME NEW f, IsFiniteSet(DOMAIN f)
    PROVE  IsFiniteSet({f[i] : i \in DOMAIN f})
  <1> DEFINE S == DOMAIN f
             T == {f[i] : i \in S}
             h == [i \in S |-> f[i]]
  <1>1. h \in Surjection(S, T)
    BY DEF Surjection
  <1>2. IsFiniteSet(S)
    OBVIOUS
  <1> HIDE DEF S, T, h
  <1>3. IsFiniteSet(T)
    BY <1>1, <1>2, FS_Surjection
  <1> QED
    BY <1>3 DEF T, S

LEMMA ToSetFinite ==
    ASSUME NEW S, NEW s \in Seq(S)
    PROVE  IsFiniteSet(Lnk!ToSet(s)) /\ Lnk!ToSet(s) \subseteq S
  <1>1. Len(s) \in Nat /\ DOMAIN s = 1..Len(s)
    OBVIOUS
  <1>2. IsFiniteSet(DOMAIN s)
    BY <1>1, OnlyNumbers
  <1> QED
    BY <1>2, FiniteImage DEF Lnk!ToSet

(* The earliest of some times is one of them.                              *)
LEMMA MinIn ==
    ASSUME NEW S, S \subseteq Int, IsFiniteSet(S), S # {}
    PROVE  Lnk!Min(S) \in S /\ \A i \in S : Lnk!Min(S) <= i
  <1> DEFINE minus == [i \in S |-> -i]
             T == {minus[i] : i \in DOMAIN minus}
  <1>1. IsFiniteSet(T)
    <2>1. IsFiniteSet(DOMAIN minus)
      OBVIOUS
    <2> QED
      BY <2>1, FiniteImage
  <1>2. T # {} /\ Numbers(T) /\ T \in SUBSET T
    <2>1. \A i \in S : i \in Int
      OBVIOUS
    <2>2. \A i \in S : -i \in Int
      BY <2>1
    <2>3. \A i \in S : minus[i] = -i /\ minus[i] \in T
      OBVIOUS
    <2>4. \A t \in T : t \in Int
      BY <2>2
    <2> QED
      BY <2>3, <2>4 DEF Numbers
  <1> HIDE DEF T
  <1>3. Last(T) \in T /\ \A i \in T : i <= Last(T)
    BY <1>1, <1>2, LastIn
  <1>4. PICK m \in S : Last(T) = -m
    BY <1>3 DEF T
  <1>5. \A i \in S : -i \in T
    BY DEF T
  <1>6. \A i \in S : m <= i
    <2>1. \A i \in S : -i <= -m
      BY <1>3, <1>4, <1>5
    <2> QED
      BY <2>1
  <1> QED
    BY <1>6 DEF Lnk!Min

LEMMA TimesTyped ==
    ASSUME NEW n \in DOMAIN Copies, NEW name
    PROVE  /\ Lnk!Times(Copies[n], name) \subseteq Int
           /\ Lnk!Untimed \notin Lnk!Times(Copies[n], name)
           /\ IsFiniteSet(Lnk!Times(Copies[n], name))
  <1> DEFINE rows == UnlockRows[Copies[n]]
             Lists == [i \in DOMAIN rows |-> Lnk!ToSet(rows[i])]
             All == {Lists[i] : i \in DOMAIN Lists}
  <1>1. rows \in Seq(Seq(UnlockEntries))
    BY CatalogueAssumption
  <1>2. Lnk!Entries(Copies[n]) = UNION All
    BY DEF Lnk!Entries
  <1>3. DOMAIN Lists = 1..Len(rows) /\ Len(rows) \in Nat
        /\ \A i \in DOMAIN rows : rows[i] \in Seq(UnlockEntries)
    BY <1>1
  <1>4. IsFiniteSet(All)
    <2>1. IsFiniteSet(DOMAIN Lists)
      BY <1>3, OnlyNumbers
    <2> HIDE DEF Lists
    <2>2. IsFiniteSet({Lists[i] : i \in DOMAIN Lists})
      BY <2>1, FiniteImage, Zenon
    <2> QED
      BY <2>2
  <1>5. ASSUME NEW T \in All PROVE IsFiniteSet(T) /\ T \subseteq UnlockEntries
    <2>1. PICK i \in DOMAIN rows : T = Lnk!ToSet(rows[i])
      OBVIOUS
    <2>2. rows[i] \in Seq(UnlockEntries)
      BY <1>3
    <2> HIDE DEF All, Lists, rows
    <2> QED
      BY <2>1, <2>2, ToSetFinite
  <1> HIDE DEF All, Lists, rows
  <1>6. IsFiniteSet(Lnk!Entries(Copies[n])) /\ Lnk!Entries(Copies[n]) \subseteq UnlockEntries
    BY <1>2, <1>4, <1>5, FS_UNION
  <1> DEFINE timed == {x \in Lnk!Entries(Copies[n]) :
                          x.name # Lnk!Nameless /\ x.time # Lnk!Untimed /\ Upper[x.name] = Upper[name]}
             f == [e \in timed |-> e.time]
  <1>7. IsFiniteSet(timed)
    BY <1>6, FS_Subset
  <1>8. Lnk!Times(Copies[n], name) = {f[e] : e \in DOMAIN f}
    BY DEF Lnk!Times
  <1>9. IsFiniteSet({f[e] : e \in DOMAIN f})
    <2>1. DOMAIN f = timed
      OBVIOUS
    <2> HIDE DEF f
    <2> QED
      BY <1>7, <2>1, FiniteImage
  <1>10. \A e \in timed : e.time \in Int /\ e.time # Lnk!Untimed
    BY <1>6 DEF UnlockEntries
  <1> QED
    BY <1>8, <1>9, <1>10

(* What the fold looks up is what the copy says.                           *)
TimeOf(g, d) ==
    LET own == Lnk!Times(g, d.name)
        ext == IF d.ext = Lnk!Nameless THEN {} ELSE Lnk!Times(g, d.ext)
    IN  IF own # {} THEN Lnk!Min(own) ELSE IF ext # {} THEN Lnk!Min(ext) ELSE Lnk!Untimed

LEMMA TimeIs ==
    ASSUME NEW n \in DOMAIN Copies, NEW d
    PROVE  Lnk!UnlockTime(Copies[n], d) = TimeOf(Copies[n], d)
  <1>1. \A name : Lnk!Times(Copies[n], name) # {} =>
            Lnk!Min(Lnk!Times(Copies[n], name)) # Lnk!Untimed
    <2> SUFFICES ASSUME NEW name, Lnk!Times(Copies[n], name) # {}
                 PROVE  Lnk!Min(Lnk!Times(Copies[n], name)) # Lnk!Untimed
      OBVIOUS
    <2>1. Lnk!Min(Lnk!Times(Copies[n], name)) \in Lnk!Times(Copies[n], name)
      BY TimesTyped, MinIn
    <2> QED
      BY <2>1, TimesTyped
  <1>2. CASE Lnk!Times(Copies[n], d.name) # {}
    BY <1>1, <1>2 DEF TimeOf, Lnk!UnlockTime, Lnk!Unlocked
  <1>3. CASE Lnk!Times(Copies[n], d.name) = {}
    BY <1>1, <1>3 DEF TimeOf, Lnk!UnlockTime, Lnk!Unlocked
  <1> QED
    BY <1>2, <1>3

(* The copies a view has fetched, and their definitions.                   *)
Fetched(copies) ==
    copies \in Seq([game : {Copies[n] : n \in DOMAIN Copies}, defs : Seq(CatalogueEntries)])

LEMMA FetchedEach ==
    ASSUME NEW copies, Fetched(copies), NEW i \in DOMAIN copies
    PROVE  /\ copies[i].defs \in Seq(CatalogueEntries)
           /\ \E n \in DOMAIN Copies : copies[i].game = Copies[n]
  <1> DEFINE S == [game : {Copies[n] : n \in DOMAIN Copies}, defs : Seq(CatalogueEntries)]
  <1>1. copies[i] \in S
    <2>1. copies \in Seq(S)
      BY DEF Fetched
    <2> HIDE DEF S
    <2> QED
      BY <2>1
  <1> QED
    BY <1>1

LEMMA DefinitionsTyped ==
    ASSUME NEW copies, Fetched(copies), NEW i \in DOMAIN copies
    PROVE  Lnk!DefinitionsOf(copies, i) \in Seq(CatalogueEntries)
  <1>1. Len(copies) \in Nat /\ DOMAIN copies = 1..Len(copies)
    BY DEF Fetched
  <1>2. \A j \in DOMAIN copies : copies[j].defs \in Seq(CatalogueEntries)
    BY FetchedEach
  <1>3. Lnk!Borrowed(copies) \in Seq(CatalogueEntries)
    <2> DEFINE own == {j \in DOMAIN copies : copies[j].defs # <<>>}
    <2>1. IsFiniteSet(own) /\ own \subseteq Int
      <3>1. IsFiniteSet(DOMAIN copies)
        BY <1>1, OnlyNumbers
      <3> QED
        BY <1>1, <3>1, FS_Subset
    <2>2. CASE own = {}
      BY <2>2 DEF Lnk!Borrowed
    <2>3. CASE own # {}
      <3>1. Lnk!Min(own) \in own
        BY <2>1, <2>3, MinIn
      <3>2. Lnk!Borrowed(copies) = copies[Lnk!Min(own)].defs
        BY <2>3 DEF Lnk!Borrowed
      <3> HIDE DEF own
      <3>3. Lnk!Min(own) \in DOMAIN copies
        BY <3>1 DEF own
      <3> QED
        BY <1>2, <3>2, <3>3
    <2> QED
      BY <2>2, <2>3
  <1> QED
    BY <1>2, <1>3 DEF Lnk!DefinitionsOf

LEMMA PlacesTyped ==
    ASSUME NEW copies, Fetched(copies)
    PROVE  /\ Len(copies) \in Nat /\ DOMAIN copies = 1..Len(copies)
           /\ \A at \in Lnk!Places(copies) :
                /\ Place(at) /\ at[1] \in 1..Len(copies)
                /\ at[2] \in 1..Len(Lnk!DefinitionsOf(copies, at[1]))
                /\ Lnk!DefinitionAt(copies, at).name # Lnk!Nameless
           /\ \A c \in 1..Len(copies) : \A j \in 1..Len(Lnk!DefinitionsOf(copies, c)) :
                Lnk!DefinitionsOf(copies, c)[j].name # Lnk!Nameless => <<c, j>> \in Lnk!Places(copies)
  <1>1. Len(copies) \in Nat /\ DOMAIN copies = 1..Len(copies)
    BY DEF Fetched
  <1>2. \A c \in 1..Len(copies) :
            /\ Len(Lnk!DefinitionsOf(copies, c)) \in Nat
            /\ DOMAIN Lnk!DefinitionsOf(copies, c) = 1..Len(Lnk!DefinitionsOf(copies, c))
    BY <1>1, DefinitionsTyped
  <1>3. ASSUME NEW at \in Lnk!Places(copies)
        PROVE  /\ Place(at) /\ at[1] \in 1..Len(copies)
               /\ at[2] \in 1..Len(Lnk!DefinitionsOf(copies, at[1]))
               /\ Lnk!DefinitionAt(copies, at).name # Lnk!Nameless
    <2>1. PICK c \in 1..Len(copies) : at \in {c} \X DOMAIN Lnk!DefinitionsOf(copies, c)
      BY <1>1 DEF Lnk!Places
    <2>2. at = <<at[1], at[2]>> /\ at[1] = c /\ at[2] \in DOMAIN Lnk!DefinitionsOf(copies, c)
      BY <2>1
    <2>3. Lnk!DefinitionAt(copies, at).name # Lnk!Nameless
      BY DEF Lnk!Places
    <2> QED
      BY <1>2, <2>1, <2>2, <2>3 DEF Place
  <1>4. ASSUME NEW c \in 1..Len(copies), NEW j \in 1..Len(Lnk!DefinitionsOf(copies, c)),
               Lnk!DefinitionsOf(copies, c)[j].name # Lnk!Nameless
        PROVE  <<c, j>> \in Lnk!Places(copies)
    <2>1. <<c, j>> \in {c} \X DOMAIN Lnk!DefinitionsOf(copies, c)
      BY <1>2
    <2> QED
      BY <1>1, <1>4, <2>1 DEF Lnk!Places, Lnk!DefinitionAt
  <1> QED
    BY <1>1, <1>3, <1>4

-----------------------------------------------------------------------------
(* What the fold has after n definitions of the i-th copy.                 *)
Upto(copies, i, n) ==
    {at \in Lnk!Places(copies) : at[1] < i \/ (at[1] = i /\ at[2] <= n)}
Done(copies, i) == {at \in Lnk!Places(copies) : at[1] <= i}
Keys(copies) == [at \in Lnk!Places(copies) |-> Lnk!KeyAt(copies, at)]
Variants(copies) == [at \in Lnk!Places(copies) |-> Lnk!VariantAt(copies, at)]

Counts(seen, copies, i, n) ==
    \A key : Lnk!Count(seen, key) = Cardinality(Lnk!Earlier(copies, <<i, n + 1>>, key))

AccIs(acc, copies, i, n) ==
    /\ acc = [seen |-> acc.seen, groups |-> acc.groups]
    /\ Counts(acc.seen, copies, i, n)
    /\ Listed(acc.groups, Upto(copies, i, n), Keys(copies), Variants(copies))

LEMMA NamelessListed ==
    ASSUME NEW copies, Fetched(copies), NEW i \in 1..Len(copies),
           NEW n \in 0..(Len(Lnk!DefinitionsOf(copies, i)) - 1),
           NEW acc, AccIs(acc, copies, i, n),
           Lnk!DefinitionsOf(copies, i)[n + 1].name = Lnk!Nameless
    PROVE  AccIs(acc, copies, i, n + 1)
  <1>0. n \in Nat
    BY DefinitionsTyped, PlacesTyped
  <1>1. ASSUME NEW at \in Lnk!Places(copies), at[1] = i PROVE at[2] \in Nat /\ at[2] # n + 1
    BY <1>1, PlacesTyped DEF Lnk!DefinitionAt
  <1>2. Upto(copies, i, n + 1) = Upto(copies, i, n)
    <2>1. \A at \in Lnk!Places(copies) : at[1] = i => (at[2] <= n + 1 <=> at[2] <= n)
      BY <1>0, <1>1
    <2> QED
      BY <2>1 DEF Upto
  <1>3. \A key : Lnk!Earlier(copies, <<i, (n + 1) + 1>>, key) = Lnk!Earlier(copies, <<i, n + 1>>, key)
    <2>1. \A at \in Lnk!Places(copies) : at[1] = i => (at[2] < (n + 1) + 1 <=> at[2] < n + 1)
      BY <1>0, <1>1
    <2> QED
      BY <2>1 DEF Lnk!Earlier
  <1> QED
    BY <1>2, <1>3 DEF AccIs, Counts

LEMMA CountOneIs ==
    ASSUME NEW seen, NEW name, NEW key
    PROVE  Lnk!Count(Lnk!CountOne(seen, name), key)
             = IF key = name THEN Lnk!Count(seen, name) + 1 ELSE Lnk!Count(seen, key)
  <1>1. CASE key = name
    BY <1>1 DEF Lnk!CountOne, Lnk!Count
  <1>2. CASE key # name
    BY <1>2 DEF Lnk!CountOne, Lnk!Count
  <1> QED
    BY <1>1, <1>2

LEMMA NamedListed ==
    ASSUME NEW copies, Fetched(copies), NEW i \in 1..Len(copies),
           NEW n \in 0..(Len(Lnk!DefinitionsOf(copies, i)) - 1),
           NEW acc, AccIs(acc, copies, i, n),
           Lnk!DefinitionsOf(copies, i)[n + 1].name # Lnk!Nameless
    PROVE  AccIs(Lnk!AddDefinition(acc, copies[i].game, Lnk!DefinitionsOf(copies, i)[n + 1]),
                 copies, i, n + 1)
  <1> PICK d : d = Lnk!DefinitionsOf(copies, i)[n + 1]
    OBVIOUS
  <1> PICK name : name = Lnk!PairingKey(d)
    OBVIOUS
  <1> PICK x : x = <<i, n + 1>>
    OBVIOUS
  <1> PICK P : P = Upto(copies, i, n)
    OBVIOUS
  <1>0. Len(Lnk!DefinitionsOf(copies, i)) \in Nat /\ i \in Nat /\ i \in DOMAIN copies
    BY DefinitionsTyped, PlacesTyped
  <1>1. n \in Nat /\ n + 1 \in 1..Len(Lnk!DefinitionsOf(copies, i))
    BY <1>0
  <1>2. x[1] = i /\ x[2] = n + 1 /\ Place(x) /\ x \in Lnk!Places(copies)
    BY <1>0, <1>1, PlacesTyped DEF Place
  <1>3. Lnk!DefinitionAt(copies, x) = d
    BY <1>2 DEF Lnk!DefinitionAt
  <1>4. ASSUME NEW at \in Lnk!Places(copies) PROVE Place(at) /\ (at = x <=> at[1] = i /\ at[2] = n + 1)
    BY <1>2, PlacesTyped DEF Place
  <1>5. Upto(copies, i, n + 1) = P \cup {x} /\ x \notin P
    <2>1. \A at \in Lnk!Places(copies) :
            at[1] < i \/ (at[1] = i /\ at[2] <= n + 1) <=> (at[1] < i \/ (at[1] = i /\ at[2] <= n)) \/ at = x
      BY <1>0, <1>1, <1>4 DEF Place
    <2>2. ~(x[1] < i \/ (x[1] = i /\ x[2] <= n))
      BY <1>0, <1>1, <1>2
    <2> QED
      BY <1>2, <2>1, <2>2 DEF Upto
  <1>6. \A at \in P : Lnk!Before(at, x)
    BY <1>0, <1>1, <1>2, <1>4 DEF Upto, Lnk!Before, Place
  <1>7. /\ IsFiniteSet(Upto(copies, i, n))
        /\ acc = [seen |-> acc.seen, groups |-> acc.groups]
        /\ Listed(acc.groups, P, Keys(copies), Variants(copies))
        /\ \A key : Lnk!Count(acc.seen, key) = Cardinality(Lnk!Earlier(copies, <<i, n + 1>>, key))
    BY DEF AccIs, Counts, Listed
  <1>8. Keys(copies)[x] = <<name, Lnk!Count(acc.seen, name)>>
    <2>1. Lnk!KeyAt(copies, x) = <<name, Cardinality(Lnk!Earlier(copies, x, name))>>
      BY <1>3 DEF Lnk!KeyAt, Lnk!Cardinality, Cardinality
    <2> QED
      BY <1>2, <1>7, <2>1 DEF Keys
  <1>9. Variants(copies)[x]
          = [game |-> copies[i].game, name |-> d.name, time |-> Lnk!UnlockTime(copies[i].game, d)]
    <2>1. PICK m \in DOMAIN Copies : copies[i].game = Copies[m]
      BY <1>0, FetchedEach
    <2>2. Lnk!UnlockTime(copies[i].game, d) = TimeOf(copies[i].game, d)
      BY <2>1, TimeIs
    <2>3. Lnk!VariantAt(copies, x)
            = [game |-> copies[i].game, name |-> d.name, time |-> TimeOf(copies[i].game, d)]
      BY <1>2, <1>3 DEF Lnk!VariantAt, TimeOf
    <2> QED
      BY <1>2, <2>2, <2>3 DEF Variants
  <1> PICK new : new = Lnk!AddDefinition(acc, copies[i].game, d)
    OBVIOUS
  <1>10. new = [seen |-> Lnk!CountOne(acc.seen, name),
                groups |-> Lnk!AddVariant(acc.groups, Keys(copies)[x], Variants(copies)[x])]
    BY <1>8, <1>9 DEF Lnk!AddDefinition
  <1>11. Listed(new.groups, P \cup {x}, Keys(copies), Variants(copies))
    <2>1. Listed(Lnk!AddVariant(acc.groups, Keys(copies)[x], Variants(copies)[x]), P \cup {x},
                 Keys(copies), Variants(copies))
      BY <1>2, <1>5, <1>6, <1>7, PlaceListed
    <2> QED
      BY <1>10, <2>1
  <1>12. ASSUME NEW key
         PROVE  Lnk!Count(new.seen, key) = Cardinality(Lnk!Earlier(copies, <<i, (n + 1) + 1>>, key))
    <2> PICK S : S = Lnk!Earlier(copies, <<i, n + 1>>, key)
      OBVIOUS
    <2>1. S \subseteq P /\ x \notin S
      <3>1. \A at \in Lnk!Places(copies) : at[2] < n + 1 => at[2] <= n /\ at # x
        BY <1>1, <1>4 DEF Place
      <3> QED
        BY <3>1 DEF Lnk!Earlier, Upto
    <2>2. IsFiniteSet(S) /\ Cardinality(S) \in Nat
      BY <1>7, <2>1, FS_Subset, FS_CardinalityType
    <2>3. \A at \in Lnk!Places(copies) :
            at[1] = i => (at[2] < (n + 1) + 1 <=> at[2] < n + 1 \/ at = x)
      BY <1>1, <1>4 DEF Place
    <2>4. CASE key = name
      <3>1. Lnk!Earlier(copies, <<i, (n + 1) + 1>>, key) = S \cup {x}
        BY <1>1, <1>2, <1>3, <2>3, <2>4 DEF Lnk!Earlier
      <3>2. Cardinality(S \cup {x}) = Cardinality(S) + 1
        BY <2>1, <2>2, FS_AddElement
      <3>3. Lnk!Count(new.seen, key) = Cardinality(S) + 1
        BY <1>7, <1>10, <2>4, CountOneIs
      <3> QED
        BY <3>1, <3>2, <3>3
    <2>5. CASE key # name
      <3>1. Lnk!Earlier(copies, <<i, (n + 1) + 1>>, key) = S
        BY <1>1, <1>2, <1>3, <2>3, <2>5 DEF Lnk!Earlier
      <3>2. Lnk!Count(new.seen, key) = Cardinality(S)
        BY <1>7, <1>10, <2>5, CountOneIs
      <3> QED
        BY <3>1, <3>2
    <2> QED
      BY <2>4, <2>5
  <1> QED
    BY <1>5, <1>10, <1>11, <1>12 DEF AccIs, Counts

LEMMA DefinitionListed ==
    ASSUME NEW copies, Fetched(copies), NEW i \in 1..Len(copies),
           NEW n \in 0..(Len(Lnk!DefinitionsOf(copies, i)) - 1),
           NEW acc, AccIs(acc, copies, i, n)
    PROVE  AccIs(Lnk!AddDefinition(acc, copies[i].game, Lnk!DefinitionsOf(copies, i)[n + 1]),
                 copies, i, n + 1)
  <1>1. CASE Lnk!DefinitionsOf(copies, i)[n + 1].name = Lnk!Nameless
    <2>1. Lnk!AddDefinition(acc, copies[i].game, Lnk!DefinitionsOf(copies, i)[n + 1]) = acc
      BY <1>1 DEF Lnk!AddDefinition
    <2> QED
      BY <1>1, <2>1, NamelessListed
  <1> QED
    BY <1>1, NamedListed

(* What the fold has after i copies.                                       *)
CopiesAre(acc, copies, i) ==
    /\ acc = [seen |-> acc.seen, groups |-> acc.groups]
    /\ Listed(acc.groups, Done(copies, i), Keys(copies), Variants(copies))

LEMMA CopyStarts ==
    ASSUME NEW copies, Fetched(copies), NEW i \in 1..Len(copies),
           NEW acc, CopiesAre(acc, copies, i - 1)
    PROVE  AccIs(Lnk!StartCopy(acc), copies, i, 0)
  <1> PICK new : new = Lnk!StartCopy(acc)
    OBVIOUS
  <1>0. /\ i \in Nat
        /\ \A at \in Lnk!Places(copies) :
            at[1] \in Nat /\ at[2] \in Nat /\ (at[1] = i => at[2] >= 1)
    BY PlacesTyped, DefinitionsTyped DEF Place
  <1>1. new = [seen |-> <<>>, groups |-> acc.groups]
    BY DEF CopiesAre, Lnk!StartCopy
  <1>2. Upto(copies, i, 0) = Done(copies, i - 1)
    <2>1. \A at \in Lnk!Places(copies) :
            (at[1] < i \/ (at[1] = i /\ at[2] <= 0)) <=> at[1] <= i - 1
      BY <1>0
    <2> QED
      BY <2>1 DEF Upto, Done
  <1>3. ASSUME NEW key PROVE Lnk!Earlier(copies, <<i, 0 + 1>>, key) = {}
    BY <1>0 DEF Lnk!Earlier
  <1>4. \A key : Lnk!Count(<<>>, key) = 0
    BY DEF Lnk!Count
  <1>5. Cardinality({}) = 0
    BY FS_EmptySet
  <1>6. Counts(new.seen, copies, i, 0)
    BY <1>1, <1>3, <1>4, <1>5 DEF Counts
  <1> QED
    BY <1>1, <1>2, <1>6 DEF AccIs, CopiesAre

LEMMA CopyListed ==
    ASSUME NEW copies, Fetched(copies), NEW i \in 1..Len(copies),
           NEW acc, CopiesAre(acc, copies, i - 1)
    PROVE  CopiesAre(Lnk!AddCopy(acc, copies, i), copies, i)
  <1> PICK defs : defs = Lnk!DefinitionsOf(copies, i)
    OBVIOUS
  <1> PICK game : game = copies[i].game
    OBVIOUS
  <1> PICK p : p = CopyFold(acc, game, defs)
    OBVIOUS
  <1>1. i \in DOMAIN copies /\ Len(defs) \in Nat /\ DOMAIN defs = 1..Len(defs)
    BY PlacesTyped, DefinitionsTyped
  <1> DEFINE S == {n \in Nat : AccIs(Folded(p, 1..n), copies, i, n)}
  <1>2. 0 \in S
    <2>1. p.base = Lnk!StartCopy(acc)
      BY DEF CopyFold
    <2>2. Folded(p, 1..0) = p.base
      BY FoldedIs
    <2> QED
      BY <2>1, <2>2, CopyStarts
  <1>3. ASSUME NEW m \in 0..(Len(defs) - 1), m \in S PROVE m + 1 \in S
    <2>1. m \in Nat /\ AccIs(Folded(p, 1..m), copies, i, m)
      BY <1>3
    <2>2. Folded(p, 1..(m + 1)) = Does(p, Folded(p, 1..m), m + 1)
      BY <2>1, FoldedIs
    <2>3. \A was : Does(p, was, m + 1) = Lnk!AddDefinition(was, game, defs[m + 1])
      BY DEF Does, CopyFold
    <2>4. AccIs(Lnk!AddDefinition(Folded(p, 1..m), game, defs[m + 1]), copies, i, m + 1)
      BY <2>1, DefinitionListed
    <2>5. Folded(p, 1..(m + 1)) = Lnk!AddDefinition(Folded(p, 1..m), game, defs[m + 1])
      BY <2>2, <2>3, Zenon
    <2>6. AccIs(Folded(p, 1..(m + 1)), copies, i, m + 1)
      BY <2>4, <2>5, Zenon
    <2> QED
      BY <2>1, <2>6
  <1>4. Len(defs) \in S
    <2> HIDE DEF S
    <2>1. 0 \in Int /\ Len(defs) \in Int
      BY <1>1
    <2>2. 0..Len(defs) \subseteq S
      BY <1>2, <1>3, <2>1, Upwards
    <2> QED
      BY <1>1, <2>2
  <1>5. Upto(copies, i, Len(defs)) = Done(copies, i)
    <2>1. \A at \in Lnk!Places(copies) :
            /\ at[1] \in Nat /\ at[2] \in Nat
            /\ at[1] = i => at[2] <= Len(defs)
      BY <1>1, PlacesTyped DEF Place
    <2>2. \A at \in Lnk!Places(copies) :
            at[1] < i \/ (at[1] = i /\ at[2] <= Len(defs)) <=> at[1] <= i
      BY <2>1
    <2> QED
      BY <2>2 DEF Upto, Done
  <1>6. Lnk!AddCopy(acc, copies, i) = Folded(p, 1..Len(defs))
    BY <1>1, AddCopyIs
  <1> QED
    BY <1>4, <1>5, <1>6 DEF AccIs, CopiesAre

LEMMA NoneListed ==
    ASSUME NEW key, NEW what
    PROVE  Listed(<<>>, {}, key, what)
  <1>1. IsFiniteSet({}) /\ Cardinality({}) = 0
    BY FS_EmptySet
  <1>2. FirstOf({}, key) = {}
    BY DEF FirstOf
  <1>3. IsList(<<>>) /\ Len(<<>>) = 0
    BY DEF IsList
  <1>4. \A n \in 1..Len(<<>>) : FALSE
    BY <1>3
  <1> QED
    BY <1>1, <1>2, <1>3, <1>4 DEF Listed

(* Combine lists every place of the copies.                                *)
LEMMA CombineListed ==
    ASSUME NEW copies, Fetched(copies)
    PROVE  Listed(Lnk!Combine(copies), Lnk!Places(copies), Keys(copies), Variants(copies))
  <1> PICK p : p = CopiesFold(copies)
    OBVIOUS
  <1>1. Len(copies) \in Nat /\ \A at \in Lnk!Places(copies) : at[1] \in Nat /\ at[1] \in 1..Len(copies)
    BY PlacesTyped
  <1> DEFINE S == {i \in Nat : CopiesAre(Folded(p, 1..i), copies, i)}
  <1>2. 0 \in S
    <2>1. p.base = [seen |-> <<>>, groups |-> <<>>]
      BY DEF CopiesFold
    <2>2. Folded(p, 1..0) = p.base
      BY FoldedIs
    <2>3. Done(copies, 0) = {}
      BY <1>1 DEF Done
    <2>4. CopiesAre(p.base, copies, 0)
      <3>1. p.base = [seen |-> p.base.seen, groups |-> p.base.groups] /\ p.base.groups = <<>>
        BY <2>1
      <3>2. Listed(<<>>, {}, Keys(copies), Variants(copies))
        BY NoneListed
      <3> QED
        BY <2>3, <3>1, <3>2 DEF CopiesAre
    <2> QED
      BY <2>2, <2>4
  <1>3. ASSUME NEW m \in 0..(Len(copies) - 1), m \in S PROVE m + 1 \in S
    <2>1. m \in Nat /\ CopiesAre(Folded(p, 1..m), copies, m) /\ m + 1 \in 1..Len(copies)
      BY <1>1, <1>3
    <2>2. Folded(p, 1..(m + 1)) = Does(p, Folded(p, 1..m), m + 1)
      BY <2>1, FoldedIs
    <2>3. \A was : Does(p, was, m + 1) = Lnk!AddCopy(was, copies, m + 1)
      BY DEF Does, CopiesFold
    <2>4. (m + 1) - 1 = m
      BY <2>1
    <2>5. CopiesAre(Lnk!AddCopy(Folded(p, 1..m), copies, m + 1), copies, m + 1)
      BY <2>1, <2>4, CopyListed
    <2>6. Folded(p, 1..(m + 1)) = Lnk!AddCopy(Folded(p, 1..m), copies, m + 1)
      BY <2>2, <2>3, Zenon
    <2>7. CopiesAre(Folded(p, 1..(m + 1)), copies, m + 1)
      BY <2>5, <2>6, Zenon
    <2> QED
      BY <2>1, <2>7
  <1>4. Len(copies) \in S
    <2> HIDE DEF S
    <2>1. 0 \in Int /\ Len(copies) \in Int
      BY <1>1
    <2>2. 0..Len(copies) \subseteq S
      BY <1>2, <1>3, <2>1, Upwards
    <2> QED
      BY <1>1, <2>2
  <1>5. Done(copies, Len(copies)) = Lnk!Places(copies)
    BY <1>1 DEF Done
  <1>6. Lnk!Combine(copies) = Folded(p, 1..Len(copies)).groups
    BY <1>1, CombineIs
  <1> QED
    BY <1>4, <1>5, <1>6 DEF CopiesAre

(* What CombinedIsWhole asks of a list of groups.                          *)
Whole(groups, copies) ==
    LET firsts == Lnk!Firsts(copies)
    IN  /\ Len(groups) = Cardinality(firsts)
        /\ \A at \in firsts :
            LET same == Lnk!Same(copies, at)
                variants == groups[Rank(firsts, at)].variants
            IN  /\ Len(variants) = Cardinality(same)
                /\ \A b \in same : variants[Rank(same, b)] = Lnk!VariantAt(copies, b)

LEMMA CombineIsWhole ==
    ASSUME NEW copies, Fetched(copies)
    PROVE  Whole(Lnk!Combine(copies), copies)
  <1> PICK P : P = Lnk!Places(copies)
    OBVIOUS
  <1> PICK key : key = Keys(copies)
    OBVIOUS
  <1> PICK groups : groups = Lnk!Combine(copies)
    OBVIOUS
  <1>1. Listed(groups, P, key, Variants(copies))
    BY CombineListed
  <1>2. ASSUME NEW at \in P PROVE SameKey(P, key, at) = Lnk!Same(copies, at)
    BY DEF SameKey, Keys, Lnk!Same
  <1>3. FirstOf(P, key) = Lnk!Firsts(copies)
    BY <1>2 DEF FirstOf, Lnk!Firsts
  <1> PICK F : F = FirstOf(P, key)
    OBVIOUS
  <1>4. Len(groups) = Cardinality(F) /\ F \subseteq P
    BY <1>1 DEF Listed, FirstOf
  <1>5. ASSUME NEW at \in F
        PROVE  LET same == Lnk!Same(copies, at)
                   variants == groups[Rank(F, at)].variants
               IN  /\ Len(variants) = Cardinality(same)
                   /\ \A b \in same : variants[Rank(same, b)] = Lnk!VariantAt(copies, b)
    <2> PICK same : same = Lnk!Same(copies, at)
      OBVIOUS
    <2>1. same = SameKey(P, key, at) /\ same \subseteq P
      BY <1>2, <1>4 DEF Lnk!Same
    <2>2. IsGroup(groups[Rank(F, at)], same, key[at], Variants(copies))
      BY <1>1, <2>1 DEF Listed
    <2>3. \A b \in same : Variants(copies)[b] = Lnk!VariantAt(copies, b)
      BY <2>1 DEF Variants
    <2> QED
      BY <2>2, <2>3 DEF IsGroup
  <1> QED
    BY <1>3, <1>4, <1>5 DEF Whole

LEMMA WholeIs ==
    CombinedIsWhole <=> (view.pc = "done" => Whole(view.groups, view.copies))
  <1>1. \A S : Lnk!Cardinality(S) = Cardinality(S)
    BY DEF Lnk!Cardinality, Cardinality
  <1> QED
    BY <1>1 DEF CombinedIsWhole, Lnk!CombinedIsWhole, Whole, Rank

IsFetch(v) == v = [pc |-> "fetch", todo |-> v.todo, copies |-> v.copies]
Fetches(w, v, n, e) == w = [v EXCEPT !.todo = @ \ {n}, !.copies = Append(@, e)]

(* The view fetches copies of the catalogue, and what it shows is whole.   *)
ViewInv ==
    /\ view.pc = "fetch" =>
        /\ IsFetch(view)
        /\ view.todo \subseteq DOMAIN Copies /\ Fetched(view.copies)
    /\ view.pc = "done" => Whole(view.groups, view.copies)

LEMMA FetchedNone == Fetched(<<>>)
  BY DEF Fetched

LEMMA FetchedMore ==
    ASSUME NEW copies, Fetched(copies), NEW n \in DOMAIN Copies, NEW defs \in Seq(CatalogueEntries)
    PROVE  Fetched(Append(copies, [game |-> Copies[n], defs |-> defs]))
  <1> DEFINE S == [game : {Copies[m] : m \in DOMAIN Copies}, defs : Seq(CatalogueEntries)]
  <1>1. [game |-> Copies[n], defs |-> defs] \in S /\ copies \in Seq(S)
    BY DEF Fetched
  <1>2. \A e : e \in S => Append(copies, e) \in Seq(S)
    <2> HIDE DEF S
    <2> QED
      BY <1>1
  <1> QED
    BY <1>1, <1>2 DEF Fetched

LEMMA FetchGoes ==
    ASSUME NEW v, IsFetch(v), NEW n, NEW e, NEW w, Fetches(w, v, n, e)
    PROVE  /\ IsFetch(w) /\ w.pc = "fetch"
           /\ w.todo = v.todo \ {n} /\ w.copies = Append(v.copies, e)
  <1>1. DOMAIN v = {"pc", "todo", "copies"} /\ v.pc = "fetch"
    BY DEF IsFetch
  <1>2. DOMAIN w = {"pc", "todo", "copies"}
    BY <1>1 DEF Fetches
  <1>3. w.pc = "fetch" /\ w.todo = v.todo \ {n} /\ w.copies = Append(v.copies, e)
    BY <1>1 DEF Fetches
  <1>4. w = [x \in {"pc", "todo", "copies"} |-> w[x]]
    BY <1>2 DEF Fetches
  <1> QED
    BY <1>3, <1>4 DEF IsFetch

LEMMA StepView == ViewInv /\ [Lnk!Next]_lnkVars => ViewInv'
  <1> SUFFICES ASSUME ViewInv, [Lnk!Next]_lnkVars PROVE ViewInv'
    OBVIOUS
  <1>0. DOMAIN Copies = 1..Len(Copies) /\ Len(Copies) \in Nat
        /\ \A n \in DOMAIN Copies : Catalogue[Copies[n]] \subseteq Seq(CatalogueEntries)
    BY CatalogueAssumption
  <1>1. CASE UNCHANGED view
    BY <1>1 DEF ViewInv
  <1>2. ASSUME NEW g, Lnk!ViewFinds(g) PROVE ViewInv'
    BY <1>2 DEF Lnk!ViewFinds, ViewInv
  <1>3. CASE Lnk!ViewLists
    <2> DEFINE linked == {n \in DOMAIN Copies : links[Copies[n]] = view.id}
    <2>1. \/ view' = Lnk!Idle
          \/ view' = [pc |-> "fetch", todo |-> linked, copies |-> <<>>]
      BY <1>3 DEF Lnk!ViewLists
    <2> HIDE DEF linked
    <2>2. linked \subseteq DOMAIN Copies
      BY DEF linked
    <2> QED
      BY <2>1, <2>2, FetchedNone DEF ViewInv, IsFetch, Lnk!Idle
  <1>4. CASE Lnk!ViewFetches
    <2> PICK n : n = Lnk!Min(view.todo)
      OBVIOUS
    <2>1. /\ IsFetch(view)
          /\ view.todo \subseteq DOMAIN Copies /\ view.todo # {} /\ Fetched(view.copies)
      BY <1>4 DEF Lnk!ViewFetches, ViewInv
    <2>2. n \in view.todo /\ n \in DOMAIN Copies
      <3>1. IsFiniteSet(view.todo) /\ view.todo \subseteq Int
        BY <1>0, <2>1, OnlyNumbers, FS_Subset
      <3> QED
        BY <2>1, <3>1, MinIn
    <2>3. PICK defs \in Catalogue[Copies[n]] \cup {<<>>} :
            view' = [view EXCEPT !.todo = @ \ {n},
                                 !.copies = Append(@, [game |-> Copies[n], defs |-> defs])]
      BY <1>4 DEF Lnk!ViewFetches
    <2>4. defs \in Seq(CatalogueEntries)
      <3>1. <<>> \in Seq(CatalogueEntries)
        OBVIOUS
      <3> QED
        BY <1>0, <2>2, <2>3, <3>1
    <2> PICK e : e = [game |-> Copies[n], defs |-> defs]
      OBVIOUS
    <2>5. Fetched(Append(view.copies, e))
      BY <2>1, <2>2, <2>4, FetchedMore
    <2>6. Fetches(view', view, n, e)
      BY <2>3 DEF Fetches
    <2>7. /\ IsFetch(view') /\ view'.pc = "fetch" /\ view'.todo = view.todo \ {n}
          /\ view'.copies = Append(view.copies, e)
      BY <2>1, <2>6, FetchGoes
    <2> QED
      BY <2>1, <2>5, <2>7 DEF ViewInv
  <1>5. CASE Lnk!ViewCombines
    <2>1. \/ view' = Lnk!Idle
          \/ view' = [pc |-> "done", copies |-> view.copies, groups |-> Lnk!Combine(view.copies)]
      BY <1>5 DEF Lnk!ViewCombines
    <2>2. Fetched(view.copies)
      BY <1>5 DEF Lnk!ViewCombines, ViewInv
    <2>3. Whole(Lnk!Combine(view.copies), view.copies)
      BY <2>2, CombineIsWhole
    <2> QED
      BY <2>1, <2>3 DEF ViewInv, Lnk!Idle
  <1>6. CASE Lnk!ReplaceLinks \/ Lnk!CacheForgets
    BY <1>1, <1>6 DEF Lnk!ReplaceLinks, Lnk!CacheForgets
  <1>7. CASE UNCHANGED lnkVars
    BY <1>1, <1>7 DEF lnkVars
  <1> QED
    BY <1>2, <1>3, <1>4, <1>5, <1>6, <1>7 DEF Lnk!Next

(* Whatever the copies of a game are, whatever the catalogue or the cache  *)
(* answered for them and whenever the launcher replaces the links, the     *)
(* combined list has one group for each key and occurrence, in the order   *)
(* the copies first bring them, with the one definition and the earliest   *)
(* time of each copy that has it (combine of                               *)
(* src/combined_achievements.rs), for lists of any length.                 *)
THEOREM CombinedWhole == ProfilesSpec => []CombinedIsWhole
  <1>1. ProfilesInit => ViewInv
    BY DEF ProfilesInit, Lnk!Init, Lnk!Idle, ViewInv
  <1>2. ViewInv /\ [ProfilesNext]_allVars => ViewInv'
    BY PartsStep, StepView
  <1>3. ViewInv => CombinedIsWhole
    BY WholeIs DEF ViewInv
  <1> QED
    BY <1>1, <1>2, <1>3, PTL DEF ProfilesSpec
=============================================================================
