-------------------------- MODULE LinkedAchievements --------------------------
(***************************************************************************)
(* One achievement list for a game that two stores sell                    *)
(* (src/combined_achievements.rs).  The launcher replaces the links of its *)
(* games; the view finds the copies, takes the definitions of each from a  *)
(* cache or from the official catalogue, which may be out of reach, and    *)
(* pairs what the copies share.  One user.                                 *)
(***************************************************************************)
EXTENDS FiniteSets, FiniteSetsExt, Integers, SequencesExt

CONSTANTS
    Copies,     \* the games of both stores in listing order: steam first
    LinkSets,   \* the sets of links a launcher may send: game -> canonical id
    Catalogue,  \* per game, the definition lists the catalogue may answer
    Rows,       \* per game, the stored achievement lists, of [name, time]
    Upper       \* to_uppercase, on the names that occur

VARIABLES
    links,      \* game_links: game -> canonical id, or Unlinked
    cached,     \* per game the cached definitions, or Nothing; shared by all
    view        \* what GET achievements/combined is doing

vars == <<links, cached, view>>

Unlinked == "unlinked"
Nothing == <<[name |-> "no entry"]>>
Nameless == "none"    \* a definition or row entry without a name
Untimed == -1         \* no unlock time
Idle == [pc |-> "idle"]

Init ==
    /\ links \in LinkSets
    /\ cached = [g \in ToSet(Copies) |-> Nothing]
    /\ view = Idle

-----------------------------------------------------------------------------
(* PUT /profile/game-links: the whole set, in one transaction.             *)
ReplaceLinks ==
    /\ links' \in LinkSets
    /\ UNCHANGED <<cached, view>>

(* The earliest unlock by upper-cased name over every row of the game;     *)
(* entries without a name or a time are passed over.                       *)
Entries(g) == UNION {ToSet(Rows[g][i]) : i \in DOMAIN Rows[g]}
Times(g, name) ==
    {e.time : e \in {x \in Entries(g) :
                        x.name # Nameless /\ x.time # Untimed /\ Upper[x.name] = Upper[name]}}
Unlocked(g, name) == IF Times(g, name) = {} THEN Untimed ELSE Min(Times(g, name))

-----------------------------------------------------------------------------
(* combine.  A definition is [name, display, ext].                         *)
PairingKey(d) ==
    IF d.display # "" THEN <<"display", d.display>> ELSE <<"name", Upper[d.name]>>

(* The n-th of a key in one copy pairs with the n-th in the others.        *)
KeepCounting(acc) == acc  \* mutant: one counter for all copies
StartCopy(acc) == [acc EXCEPT !.seen = <<>>]

Count(seen, key) == IF key \in DOMAIN seen THEN seen[key] ELSE 0
CountOne(seen, key) ==
    [k \in DOMAIN seen \cup {key} |-> IF k = key THEN Count(seen, key) + 1 ELSE seen[k]]

UnlockTime(g, d) ==
    IF Unlocked(g, d.name) # Untimed \/ d.ext = Nameless THEN Unlocked(g, d.name)
    ELSE Unlocked(g, d.ext)

AddVariant(groups, key, variant) ==
    IF \A i \in DOMAIN groups : groups[i].key # key
    THEN Append(groups, [key |-> key, variants |-> <<variant>>])
    ELSE [i \in DOMAIN groups |->
            IF groups[i].key = key THEN [groups[i] EXCEPT !.variants = Append(@, variant)]
            ELSE groups[i]]

AddDefinition(acc, g, d) ==
    LET key == PairingKey(d)
        variant == [game |-> g, name |-> d.name, time |-> UnlockTime(g, d)]
    IN  IF d.name = Nameless THEN acc
        ELSE [seen |-> CountOne(acc.seen, key),
              groups |-> AddVariant(acc.groups, <<key, Count(acc.seen, key)>>, variant)]

(* A copy without definitions borrows those of the first that has any.     *)
Borrowed(copies) ==
    LET own == {i \in DOMAIN copies : copies[i].defs # <<>>}
    IN  IF own = {} THEN <<>> ELSE copies[Min(own)].defs
DefinitionsOf(copies, i) == IF copies[i].defs = <<>> THEN Borrowed(copies) ELSE copies[i].defs

AddCopy(acc, copies, i) ==
    FoldLeft(LAMBDA a, d : AddDefinition(a, copies[i].game, d),
             StartCopy(acc), DefinitionsOf(copies, i))

Combine(copies) ==
    FoldLeft(LAMBDA acc, i : AddCopy(acc, copies, i),
             [seen |-> <<>>, groups |-> <<>>], [i \in 1..Len(copies) |-> i]).groups

-----------------------------------------------------------------------------
(* GET /profile/achievements/combined: the canonical id of the game, then  *)
(* the copies under it, in a second statement; fewer than two are a 404.   *)
ViewFinds(g) ==
    /\ view.pc \in {"idle", "done"} /\ links[g] # Unlinked
    /\ view' = [pc |-> "list", id |-> links[g]]
    /\ UNCHANGED <<links, cached>>

ViewLists ==
    /\ view.pc = "list"
    /\ LET linked == {n \in DOMAIN Copies : links[Copies[n]] = view.id} IN
        view' = IF Cardinality(linked) < 2 THEN Idle
                ELSE [pc |-> "fetch", todo |-> linked, copies |-> <<>>]
    /\ UNCHANGED <<links, cached>>

(* definitions: an entry younger than the TTL, or an answer, which is then *)
(* cached; a lookup that fails, or has no token, is empty and is not.      *)
Definitions(g, defs) ==
    \/ cached[g] # Nothing /\ defs = cached[g] /\ UNCHANGED cached
    \/ cached[g] = Nothing /\ defs \in Catalogue[g] /\ cached' = [cached EXCEPT ![g] = defs]
    \/ cached[g] = Nothing /\ defs = <<>> /\ UNCHANGED cached

ViewFetches ==
    /\ view.pc = "fetch" /\ view.todo # {}
    /\ LET next == Min(view.todo)
           g == Copies[next]
       IN  \E defs \in Catalogue[g] \cup {<<>>} :
            /\ Definitions(g, defs)
            /\ view' = [view EXCEPT !.todo = @ \ {next},
                                    !.copies = Append(@, [game |-> g, defs |-> defs])]
    /\ UNCHANGED links

(* Nothing to combine is a 502.                                            *)
ViewCombines ==
    /\ view.pc = "fetch" /\ view.todo = {}
    /\ LET groups == Combine(view.copies) IN
        view' = IF groups = <<>> THEN Idle
                ELSE [pc |-> "done", copies |-> view.copies, groups |-> groups]
    /\ UNCHANGED <<links, cached>>

(* An entry grows older than the TTL, or a full cache is cleared.          *)
CacheForgets ==
    /\ \/ \E g \in DOMAIN cached : cached[g] # Nothing /\ cached' = [cached EXCEPT ![g] = Nothing]
       \/ cached' = [g \in DOMAIN cached |-> Nothing]
    /\ UNCHANGED <<links, view>>

Next ==
    \/ ReplaceLinks \/ CacheForgets
    \/ \E g \in ToSet(Copies) : ViewFinds(g)
    \/ ViewLists \/ ViewFetches \/ ViewCombines

Spec == Init /\ [][Next]_vars

-----------------------------------------------------------------------------
(* Everything has its type (the table game_links and the cache).           *)
TypeOK ==
    /\ links \in LinkSets
    /\ \A g \in ToSet(Copies) : cached[g] \in Catalogue[g] \cup {Nothing}
    /\ view.pc \in {"idle", "list", "fetch", "done"}

(* What the copies say, without Combine: the places of their definitions,  *)
(* in the order of the copies and of each list, and which of its key in    *)
(* its copy each one is.                                                   *)
DefinitionAt(copies, at) == DefinitionsOf(copies, at[1])[at[2]]
Places(copies) ==
    {at \in UNION {{c} \X DOMAIN DefinitionsOf(copies, c) : c \in DOMAIN copies} :
        DefinitionAt(copies, at).name # Nameless}
Before(a, b) == a[1] < b[1] \/ (a[1] = b[1] /\ a[2] < b[2])
Ahead(S, at) == {b \in S : Before(b, at)}

Earlier(copies, at, key) ==
    {b \in Places(copies) : /\ b[1] = at[1] /\ b[2] < at[2]
                            /\ PairingKey(DefinitionAt(copies, b)) = key}
KeyAt(copies, at) ==
    LET key == PairingKey(DefinitionAt(copies, at))
    IN  <<key, Cardinality(Earlier(copies, at, key))>>
Same(copies, at) == {b \in Places(copies) : KeyAt(copies, b) = KeyAt(copies, at)}
Firsts(copies) == {at \in Places(copies) : \A b \in Same(copies, at) : ~Before(b, at)}

VariantAt(copies, at) ==
    LET d == DefinitionAt(copies, at)
        g == copies[at[1]].game
        own == Times(g, d.name)
        ext == IF d.ext = Nameless THEN {} ELSE Times(g, d.ext)
    IN  [game |-> g, name |-> d.name,
         time |-> IF own # {} THEN Min(own) ELSE IF ext # {} THEN Min(ext) ELSE Untimed]

(* The combined list says of every copy what the copy says, whatever the   *)
(* catalogue and the cache gave: there is one group for each key and       *)
(* occurrence, in the order the copies first bring them, and it holds for  *)
(* each copy that has that occurrence its one definition, with the         *)
(* earliest time stored for its name or, failing that, its external id.    *)
CombinedIsWhole ==
    view.pc = "done" =>
        /\ Len(view.groups) = Cardinality(Firsts(view.copies))
        /\ \A at \in Firsts(view.copies) :
            LET same == Same(view.copies, at)
                variants == view.groups[Cardinality(Ahead(Firsts(view.copies), at)) + 1].variants
            IN  /\ Len(variants) = Cardinality(same)
                /\ \A b \in same :
                    variants[Cardinality(Ahead(same, b)) + 1] = VariantAt(view.copies, b)
=============================================================================
