------------------------------- MODULE Profile -------------------------------
(***************************************************************************)
(* What a profile shows to others (src/playtime.rs, src/hidden_games.rs,   *)
(* the statistics and unlocks of src/achievements.rs, the two listings of  *)
(* src/souvenirs.rs): the owner's launcher records playtime, unlocks and   *)
(* captures and hides games; a viewer's request reads the rows and, in a   *)
(* second statement of the pages that have one, the games that are hidden. *)
(* One owner, whose souvenirs anyone may see.                              *)
(***************************************************************************)
EXTENDS FiniteSets, FiniteSetsExt, Integers

CONSTANTS
    Games,
    ShopOf,       \* shop of each game's game_achievements row, NoShop for one
                  \* synced without a shop
    Imported,     \* games with has_active_steam_import set
    MaxDelta,     \* MAX_DELTA_SECONDS
    MaxRecorded,  \* bound on the playtime recorded
    RecentGames   \* RECENT_GAMES_LIMIT

VARIABLES
    seconds,   \* playtime_daily of one day
    unlocked,  \* the time of the latest unlock of each game, 0 for none
    captured,  \* the time of its latest ready souvenir, 0 for none
    clock,     \* times unlocks are given
    hidden,    \* hidden_games
    viewing,   \* what the viewer's request is doing, or was answered
    open       \* the rows of each game when it was last in sight (history)

vars == <<seconds, unlocked, captured, clock, hidden, viewing, open>>

NoShop == "none"
Placed == {g \in Games : ShopOf[g] # NoShop}
Idle == [pc |-> "idle"]

Facts == {"seconds", "unlocked", "captured"}
Rows == [f \in Facts |-> CASE f = "seconds" -> seconds
                           [] f = "unlocked" -> unlocked
                           [] f = "captured" -> captured]

Init ==
    /\ seconds = [g \in Games |-> 0]
    /\ unlocked = [g \in Games |-> 0]
    /\ captured = [g \in Games |-> 0]
    /\ clock = 0
    /\ hidden = {}
    /\ viewing = Idle
    /\ open = Rows

InSight(hiding) ==
    open' = [f \in Facts |-> [g \in Games |-> IF g \in hiding THEN open[f][g] ELSE Rows'[f][g]]]

-----------------------------------------------------------------------------
(* POST /profile/playtime: nothing below one second, at most MaxDelta.     *)
Report(g, delta) ==
    /\ delta > 0
    /\ seconds[g] + MaxDelta <= MaxRecorded
    /\ seconds' = [seconds EXCEPT ![g] = @ + Min({delta, MaxDelta})]
    /\ UNCHANGED <<unlocked, captured, clock, hidden, viewing>>
    /\ InSight(hidden)

(* An achievement sync, for the time of its latest unlock, which a capture *)
(* it files may show.                                                      *)
Unlock(g, shot) ==
    /\ clock < Cardinality(Games)
    /\ clock' = clock + 1
    /\ unlocked' = [unlocked EXCEPT ![g] = clock']
    /\ captured' = IF shot THEN [captured EXCEPT ![g] = clock'] ELSE captured
    /\ UNCHANGED <<seconds, hidden, viewing>>
    /\ InSight(hidden)

(* Any game of the library, also one whose achievements were synced        *)
(* without a shop.                                                         *)
Hide(g) ==
    /\ hidden' = hidden \cup {g}
    /\ UNCHANGED <<seconds, unlocked, captured, clock, viewing>>
    /\ InSight(hidden)

Unhide(g) ==
    /\ hidden' = hidden \ {g}
    /\ UNCHANGED <<seconds, unlocked, captured, clock, viewing>>
    /\ InSight(hidden')

-----------------------------------------------------------------------------
(* GET playtime/{user}, achievements/{user} and stats/{user}: the rows,    *)
(* then the hidden set.                                                    *)
Heatmap(rows, hiding) == {g \in Games \ hiding : rows[g] > 0}

(* The games with the latest unlocks, at most RecentGames of them; rows    *)
(* without a shop are not asked for.                                       *)
Recent(rows, hiding) ==
    LET has == {g \in Placed \ hiding : rows[g] > 0} IN
    {g \in has : Cardinality({o \in has : rows[o] > rows[g]}) < RecentGames}

(* Rows that carry no shop count in every tab but the Steam library.       *)
CountsTowardStats(g, shops, steamLibrary) ==
    /\ steamLibrary => g \in Imported
    /\ shops = {} \/ ShopOf[g] = NoShop \/ ShopOf[g] \in shops
(* A row without a shop matches no hidden game: it counts all the same.    *)
Stats(rows, hiding, shops, steamLibrary) ==
    {g \in Games \ (hiding \cap Placed) : rows[g] > 0 /\ CountsTowardStats(g, shops, steamLibrary)}

(* GET users/{user}/souvenirs and users/{user}/games/achievements, which   *)
(* do not ask what is hidden.  A tab lists the captures filed with its     *)
(* shop; the unlocks are those of one game that was synced with its shop.  *)
Captures(rows, shops) ==
    {g \in Games : rows[g] > 0 /\ (shops = {} \/ ShopOf[g] \in shops)}
UnlocksOf(rows, g) == {g} \cap {o \in Placed : rows[o] > 0}

Tabs == SUBSET ({ShopOf[g] : g \in Games} \ {NoShop})
Pages ==
    [kind : {"heatmap", "recent"}]
    \cup [kind : {"stats"}, shops : Tabs, steam : BOOLEAN]
    \cup [kind : {"souvenirs"}, shops : Tabs]
    \cup [kind : {"unlocks"}, of : Games]

(* What a page reads and tells of the games it shows.                      *)
Told(kind) ==
    CASE kind = "heatmap" -> "seconds"
      [] kind = "souvenirs" -> "captured"
      [] OTHER -> "unlocked"

Shown(page, rows, hiding) ==
    CASE page.kind = "heatmap" -> Heatmap(rows, hiding)
      [] page.kind = "recent" -> Recent(rows, hiding)
      [] page.kind = "stats" -> Stats(rows, hiding, page.shops, page.steam)
      [] page.kind = "souvenirs" -> Captures(rows, page.shops)
      [] page.kind = "unlocks" -> UnlocksOf(rows, page.of)

ViewReads(page) ==
    /\ viewing.pc \in {"idle", "answered"}
    /\ viewing' = [pc |-> "rows", page |-> page, rows |-> Rows[Told(page.kind)]]
    /\ UNCHANGED <<seconds, unlocked, captured, clock, hidden, open>>

NobodyHides == {}  \* mutant: a page that does not ask for the hidden games
Hiding == hidden

ViewFilters ==
    /\ viewing.pc = "rows"
    /\ viewing' = [pc |-> "answered", page |-> viewing.page, rows |-> viewing.rows,
                   shown |-> Shown(viewing.page, viewing.rows, Hiding)]
    /\ UNCHANGED <<seconds, unlocked, captured, clock, hidden, open>>

Next ==
    \/ \E g \in Games : Hide(g) \/ Unhide(g) \/ \E shot \in BOOLEAN : Unlock(g, shot)
    \/ \E g \in Games, delta \in 0..(MaxDelta + 1) : Report(g, delta)
    \/ \E page \in Pages : ViewReads(page)
    \/ ViewFilters

Spec == Init /\ [][Next]_vars

-----------------------------------------------------------------------------
(* Everything has its type (the tables playtime_daily, game_achievements,  *)
(* souvenirs and hidden_games).                                            *)
TypeOK ==
    /\ seconds \in [Games -> 0..MaxRecorded]
    /\ unlocked \in [Games -> 0..clock]
    /\ captured \in [Games -> 0..clock]
    /\ hidden \subseteq Games
    /\ viewing.pc \in {"idle", "rows", "answered"}

(* What the page told a viewer of g was recorded while g was in sight, or  *)
(* g has been in sight since.                                              *)
ToldInSight(g) == viewing.rows[g] <= open[Told(viewing.page.kind)][g]

(* The pages, and of the statistics the rows, that the code matches        *)
(* against the hidden games.                                               *)
MatchesHidden(page, g) ==
    \/ page.kind = "heatmap"
    \/ page.kind \in {"recent", "stats"} /\ g \in Placed

(* Playing a hidden game shows on no heat map, among no recent unlocks,    *)
(* and in the totals of no tab unless its achievements were synced without *)
(* a shop, also when the game is hidden and played between the two reads   *)
(* of a request.  The souvenirs and the unlocks of one game are not meant: *)
(* their handlers do not ask for the hidden games.                         *)
PlayedInHidingStaysHidden ==
    viewing.pc = "answered" =>
        \A g \in viewing.shown : MatchesHidden(viewing.page, g) => ToldInSight(g)
=============================================================================
