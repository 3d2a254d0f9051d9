--------------------------- MODULE SouvenirReports ---------------------------
(***************************************************************************)
(* Likes, reports and visibility of the souvenirs of one owner             *)
(* (src/souvenirs.rs), and the decisions an operator takes on the reports  *)
(* (src/admin/reports.rs).  A report outlives its souvenir; a decision     *)
(* reads the owner, acts on the picture and then settles every report of   *)
(* it, in separate statements.                                             *)
(***************************************************************************)
EXTENDS FiniteSets, Naturals

CONSTANTS
    Pictures,     \* ready souvenirs of the owner
    Members,      \* other users, who like and report
    Workers,      \* requests in flight
    HourlyLimit   \* REPORT_RATE_LIMIT_PER_HOUR

VARIABLES
    ready,      \* pictures with a ready, uploaded row
    public,     \* those with visibility PUBLIC
    account,    \* users.souvenirs_visibility of the owner
    likes,      \* rows of souvenir_likes: <<picture, member>>
    reports,    \* status of the report of each picture by each member
    recent,     \* reports created within the last hour
    work,       \* what each request is doing
    reshown     \* pictures the owner made public after they were hidden (history)

picture == <<ready, public, account, likes>>
vars == <<ready, public, account, likes, reports, recent, work, reshown>>

Idle == [pc |-> "idle"]
At(w, pc) == work[w].pc = pc
Goto(w, state) == work' = [work EXCEPT ![w] = state]

Reports(p) == {m \in Members : reports[p, m] # "none"}
Decided(p) == {reports[p, m] : m \in Reports(p)} \ {"open"}

(* What a member may like and report, and what a profile lists for them;   *)
(* the account's visibility counts for the listing only.                   *)
Readable == ready \cap public
Shown == IF account = "PRIVATE" THEN {} ELSE Readable

Init ==
    /\ ready = Pictures
    /\ public \in SUBSET Pictures
    /\ account \in {"PUBLIC", "FRIENDS", "PRIVATE"}
    /\ likes = {} /\ recent = {} /\ reshown = {}
    /\ reports = [r \in Pictures \X Members |-> "none"]
    /\ work = [w \in Workers |-> Idle]

-----------------------------------------------------------------------------
(* POST like, a toggle: readable, DELETE, and an INSERT when nothing was   *)
(* deleted; the keys refuse a second like and one of a picture that went.  *)
LikeReads(w, p, m) ==
    /\ At(w, "idle") /\ p \in Readable
    /\ Goto(w, [pc |-> "unlike", of |-> p, by |-> m])
    /\ UNCHANGED <<picture, reports, recent, reshown>>

LikeDeletes(w) ==
    /\ At(w, "unlike")
    /\ LET like == <<work[w].of, work[w].by>> IN
        /\ likes' = likes \ {like}
        /\ Goto(w, IF like \in likes THEN Idle ELSE [work[w] EXCEPT !.pc = "like"])
    /\ UNCHANGED <<ready, public, account, reports, recent, reshown>>

LikeInserts(w) ==
    /\ At(w, "like")
    /\ likes' = IF work[w].of \in ready THEN likes \cup {<<work[w].of, work[w].by>>} ELSE likes
    /\ Goto(w, Idle)
    /\ UNCHANGED <<ready, public, account, reports, recent, reshown>>

-----------------------------------------------------------------------------
(* POST report: readable, the reporter's last hour counted, INSERT OR      *)
(* IGNORE under the unique index, with no key to the picture.              *)
ReportReads(w, p, m) ==
    /\ At(w, "idle") /\ p \in Readable
    /\ Goto(w, [pc |-> "count", of |-> p, by |-> m])
    /\ UNCHANGED <<picture, reports, recent, reshown>>

ReportCounts(w) ==
    /\ At(w, "count")
    /\ Goto(w, IF Cardinality({r \in recent : r[2] = work[w].by}) >= HourlyLimit THEN Idle
               ELSE [work[w] EXCEPT !.pc = "insert"])
    /\ UNCHANGED <<picture, reports, recent, reshown>>

ReportInserts(w) ==
    /\ At(w, "insert")
    /\ LET report == <<work[w].of, work[w].by>> IN
        IF reports[report] = "none"
        THEN /\ reports' = [reports EXCEPT ![report] = "open"]
             /\ recent' = recent \cup {report}
        ELSE UNCHANGED <<reports, recent>>
    /\ Goto(w, Idle)
    /\ UNCHANGED <<picture, reshown>>

HourPasses ==
    /\ recent # {}
    /\ recent' = {}
    /\ UNCHANGED <<picture, reports, work, reshown>>

-----------------------------------------------------------------------------
(* The owner: PATCH visibility, PATCH souvenirs-visibility, DELETE.        *)
SetVisibility(p) ==
    /\ p \in ready  \* else 404
    /\ \/ public' = public \cup {p} /\ reshown' = reshown \cup {p}
       \/ public' = public \ {p} /\ UNCHANGED reshown
    /\ UNCHANGED <<ready, account, likes, reports, recent, work>>

SetAccountVisibility ==
    /\ account' \in {"PUBLIC", "FRIENDS", "PRIVATE"}
    /\ UNCHANGED <<ready, public, likes, reports, recent, work, reshown>>

(* DELETE FROM souvenirs: the likes cascade, the reports do not.           *)
DropPicture(p) ==
    /\ ready' = ready \ {p}
    /\ public' = public \ {p}
    /\ likes' = {l \in likes : l[1] # p}

OwnerDeletes(p) ==
    /\ p \in ready  \* else 404
    /\ DropPicture(p)
    /\ UNCHANGED <<account, reports, recent, work, reshown>>

-----------------------------------------------------------------------------
(* POST resolve: the owner is read off any report, the picture is acted    *)
(* on, then one UPDATE settles every report of it.                         *)
ResolveReads(w, p, action) ==
    /\ At(w, "idle") /\ Reports(p) # {}  \* else 404
    /\ Goto(w, [pc |-> action, of |-> p])
    /\ UNCHANGED <<picture, reports, recent, reshown>>

Settling(w, status) == Goto(w, [pc |-> "settle", of |-> work[w].of, status |-> status])

ResolveDismisses(w) ==
    /\ \/ At(w, "dismiss") /\ Settling(w, "dismissed")
       \/ At(w, "reopen") /\ Settling(w, "open")
    /\ UNCHANGED <<picture, reports, recent, reshown>>

HideIfThere(w) ==  \* mutant: a picture that is gone is no error, nor is one that stays
    /\ At(w, "hide")
    /\ Settling(w, "hidden")
    /\ UNCHANGED <<picture, reshown, reports, recent>>
ResolveHides(w) ==
    /\ At(w, "hide")
    /\ LET p == work[w].of IN
        IF p \in ready
        THEN /\ public' = public \ {p}
             /\ reshown' = reshown \ {p}
             /\ Settling(w, "hidden")
        ELSE Goto(w, Idle) /\ UNCHANGED <<public, reshown>>  \* 404
    /\ UNCHANGED <<ready, account, likes, reports, recent>>

(* remove; a picture that is already gone counts as removed.               *)
ResolveRemoves(w) ==
    /\ At(w, "delete")
    /\ DropPicture(work[w].of)
    /\ Settling(w, "removed")
    /\ UNCHANGED <<account, reports, recent, reshown>>

SettleAll(w) ==
    [r \in Pictures \X Members |->
        IF r[1] = work[w].of /\ reports[r] # "none" THEN work[w].status ELSE reports[r]]

ResolveSettles(w) ==
    /\ At(w, "settle")
    /\ reports' = SettleAll(w)
    /\ Goto(w, Idle)
    /\ UNCHANGED <<picture, recent, reshown>>

(* A client that hangs up, a database error, the server killed.            *)
WorkerDies(w) ==
    /\ ~At(w, "idle")
    /\ Goto(w, Idle)
    /\ UNCHANGED <<picture, reports, recent, reshown>>

Actions == {"dismiss", "hide", "delete", "reopen"}

Next ==
    \/ \E p \in Pictures : SetVisibility(p) \/ OwnerDeletes(p)
    \/ SetAccountVisibility \/ HourPasses
    \/ \E w \in Workers :
        \/ \E p \in Pictures, m \in Members : LikeReads(w, p, m) \/ ReportReads(w, p, m)
        \/ \E p \in Pictures, a \in Actions : ResolveReads(w, p, a)
        \/ LikeDeletes(w) \/ LikeInserts(w) \/ ReportCounts(w) \/ ReportInserts(w)
        \/ ResolveDismisses(w) \/ ResolveHides(w) \/ ResolveRemoves(w) \/ ResolveSettles(w)
        \/ WorkerDies(w)

Spec == Init /\ [][Next]_vars

-----------------------------------------------------------------------------
Statuses == {"open", "dismissed", "hidden", "removed"}
Tasks ==
    {Idle} \cup [pc : {"unlike", "like", "count", "insert"}, of : Pictures, by : Members]
    \cup [pc : Actions, of : Pictures]
    \cup [pc : {"settle"}, of : Pictures, status : Statuses]

(* Everything has its type, and likes are of pictures that are there (the  *)
(* tables souvenirs, souvenir_likes and souvenir_reports).                 *)
TypeOK ==
    /\ public \subseteq ready /\ ready \subseteq Pictures
    /\ account \in {"PUBLIC", "FRIENDS", "PRIVATE"}
    /\ likes \subseteq ready \X Members
    /\ reports \in [Pictures \X Members -> Statuses \cup {"none"}]
    /\ recent \subseteq {r \in Pictures \X Members : reports[r] # "none"}
    /\ work \in [Workers -> Tasks]
    /\ reshown \subseteq Pictures

(* One decision settles all reports of a picture, as reports.rs has it, so *)
(* whatever decisions, late reports and deletions interleave: the settled  *)
(* reports of a picture never disagree; a picture they call removed is     *)
(* gone; one they call hidden is shown to nobody else, unless its owner    *)
(* made it public afterwards.                                              *)
DecisionsStand ==
    \A p \in Pictures :
        /\ \A s, t \in Decided(p) : s = t
        /\ "removed" \in Decided(p) => p \notin ready
        /\ "hidden" \in Decided(p) /\ p \notin reshown => p \notin Readable \cup Shown
=============================================================================
