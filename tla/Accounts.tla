------------------------------- MODULE Accounts -------------------------------
(***************************************************************************)
(* Who gets in (src/auth.rs, src/portal/session.rs, the account routes of  *)
(* src/admin/users.rs): the launcher's token is looked up in a cache or    *)
(* verified by the official API; the portal signs in with credentials, an  *)
(* operator's link or its cookie; an operator blocks, unblocks and deletes *)
(* the account.  One user and one token.                                   *)
(***************************************************************************)
EXTENDS Naturals

CONSTANT Callers  \* requests in flight

VARIABLES
    row,      \* the row in users: "none", "open", or "blocked"
    listed,   \* whether settings.user_allowed lets the user in
    cached,   \* whether token_cache holds the token
    cookie,   \* whether the portal's cookie is out and good
    link,     \* whether a portal link is out and good
    caller,   \* what each request is doing
    operator  \* "idle", or "clear" before the token cache is cleared

tickets == <<cookie, link>>
vars == <<row, listed, cached, cookie, link, caller, operator>>

Idle == [pc |-> "idle"]
At(c, pc) == caller[c].pc = pc
Goto(c, pc) == caller' = [caller EXCEPT ![c].pc = pc]
Leaves(c) == caller' = [caller EXCEPT ![c] = Idle]

Init ==
    /\ row = "none" /\ listed = TRUE
    /\ cached = FALSE /\ cookie = FALSE /\ link = FALSE
    /\ caller = [c \in Callers |-> Idle]
    /\ operator = "idle"

(* barred: the account was blocked when the request arrived, and neither   *)
(* unblocked nor deleted since.                                            *)
Arrives(c, pc) ==
    /\ At(c, "idle")
    /\ caller' = [caller EXCEPT ![c] = [pc |-> pc, barred |-> row = "blocked"]]
Forgiven == [c \in Callers |-> IF At(c, "idle") THEN Idle ELSE [caller[c] EXCEPT !.barred = FALSE]]

-----------------------------------------------------------------------------
(* The launcher: CurrentUser::from_request_parts.                          *)
LauncherCalls(c) ==
    /\ Arrives(c, IF cached THEN "allow" ELSE "verify")
    /\ UNCHANGED <<row, listed, cached, tickets, operator>>

(* verify_token: the user, or a 401, or a 503.                             *)
Verify(c) ==
    /\ \/ At(c, "verify") /\ Goto(c, "upsert")
       \/ At(c, "portal verify") /\ Goto(c, "portal allow")
       \/ (At(c, "verify") \/ At(c, "portal verify")) /\ Leaves(c)
    /\ UNCHANGED <<row, listed, cached, tickets, operator>>

(* upsert_user: a new row is open; an old one keeps its is_blocked.        *)
UpsertRow == row' = IF row = "none" THEN "open" ELSE row

Upsert(c) ==
    /\ \/ At(c, "upsert") /\ Goto(c, "remember")
       \/ At(c, "portal upsert") /\ Goto(c, "portal touch")
    /\ UpsertRow
    /\ UNCHANGED <<listed, cached, tickets, operator>>

Remember(c) ==
    /\ At(c, "remember")
    /\ cached' = TRUE
    /\ Goto(c, "allow")
    /\ UNCHANGED <<row, listed, tickets, operator>>

CheckAllowed(c) ==
    /\ At(c, "allow") \/ At(c, "portal allow")
    /\ IF listed THEN Goto(c, IF At(c, "allow") THEN "touch" ELSE "portal upsert") ELSE Leaves(c)
    /\ UNCHANGED <<row, listed, cached, tickets, operator>>

(* touch: one UPDATE returning is_blocked; no row is not a block.          *)
Blocked == row = "blocked"

Touch(c) ==
    /\ At(c, "touch")
    /\ IF Blocked THEN Leaves(c) ELSE Goto(c, "admitted")
    /\ UNCHANGED <<row, listed, cached, tickets, operator>>

Serve(c) ==
    /\ At(c, "admitted")
    /\ Leaves(c)
    /\ UNCHANGED <<row, listed, cached, tickets, operator>>

-----------------------------------------------------------------------------
(* The portal: sign in with credentials, with a link, and come back with   *)
(* the cookie.  The rate limit is in LoginGuard.                           *)
PortalLogin(c) ==
    /\ Arrives(c, "portal verify")
    /\ UNCHANGED <<row, listed, cached, tickets, operator>>

PortalTouch(c) ==
    /\ At(c, "portal touch")
    /\ IF Blocked THEN Leaves(c) /\ UNCHANGED cookie ELSE Goto(c, "admitted") /\ cookie' = TRUE
    /\ UNCHANGED <<row, listed, cached, link, operator>>

LinkSignIn(c) ==
    /\ link /\ row = "open"  \* else 401
    /\ Arrives(c, "admitted")
    /\ cookie' = TRUE
    /\ UNCHANGED <<row, listed, cached, link, operator>>

SomeRow == row # "none"  \* mutant: an account that exists is good enough
SessionStands == row = "open"

PortalCalls(c) ==
    /\ cookie /\ SessionStands  \* else 403 or 401
    /\ Arrives(c, "admitted")
    /\ UNCHANGED <<row, listed, cached, tickets, operator>>

(* POST logout, or the cookie's week is over.                              *)
SignOut ==
    /\ cookie
    /\ cookie' = FALSE
    /\ UNCHANGED <<row, listed, cached, link, caller, operator>>

LinkExpires ==
    /\ link
    /\ link' = FALSE
    /\ UNCHANGED <<row, listed, cached, cookie, caller, operator>>

(* The scheduled job, the operator's button, or the entry's age.           *)
TokenForgotten ==
    /\ cached
    /\ cached' = FALSE
    /\ UNCHANGED <<row, listed, tickets, caller, operator>>

-----------------------------------------------------------------------------
(* The operator.                                                           *)
MintLink ==
    /\ row # "none"  \* else 404
    /\ link' = TRUE
    /\ UNCHANGED <<row, listed, cached, cookie, caller, operator>>

SetListed ==
    /\ listed' = ~listed
    /\ UNCHANGED <<row, cached, tickets, caller, operator>>

SetBlocked(status) ==
    /\ operator = "idle" /\ row # "none"  \* else 404
    /\ row' = status
    /\ operator' = "clear"
    /\ IF status = "open" THEN caller' = Forgiven ELSE UNCHANGED caller
    /\ UNCHANGED <<listed, cached, tickets>>

(* delete_user, whose rows and files are in the modules that own them.     *)
DeleteUser ==
    /\ operator = "idle" /\ row # "none"  \* else 404
    /\ row' = "none"
    /\ operator' = "clear"
    /\ caller' = Forgiven
    /\ UNCHANGED <<listed, cached, tickets>>

ClearCache ==
    /\ operator = "clear"
    /\ cached' = FALSE
    /\ operator' = "idle"
    /\ UNCHANGED <<row, listed, tickets, caller>>

Restart ==
    /\ cached' = FALSE
    /\ operator' = "idle"
    /\ caller' = [c \in Callers |-> Idle]
    /\ UNCHANGED <<row, listed, tickets>>

Next ==
    \/ \E c \in Callers :
        \/ LauncherCalls(c) \/ Verify(c) \/ Upsert(c) \/ Remember(c) \/ CheckAllowed(c)
        \/ Touch(c) \/ Serve(c)
        \/ PortalLogin(c) \/ PortalTouch(c) \/ LinkSignIn(c) \/ PortalCalls(c)
    \/ SignOut \/ LinkExpires \/ TokenForgotten \/ MintLink \/ SetListed
    \/ \E status \in {"open", "blocked"} : SetBlocked(status)
    \/ DeleteUser \/ ClearCache \/ Restart

Spec == Init /\ [][Next]_vars

-----------------------------------------------------------------------------
Steps ==
    {"verify", "upsert", "remember", "allow", "touch", "admitted",
     "portal verify", "portal allow", "portal upsert", "portal touch"}

(* Everything has its type (the table users, the token cache, the claims). *)
TypeOK ==
    /\ row \in {"none", "open", "blocked"}
    /\ listed \in BOOLEAN /\ cached \in BOOLEAN /\ cookie \in BOOLEAN /\ link \in BOOLEAN
    /\ caller \in [Callers -> {Idle} \cup [pc : Steps, barred : BOOLEAN]]
    /\ operator \in {"idle", "clear"}

(* A block holds from the next request on, as session.rs and users.rs say: *)
(* no request that arrives while the account is blocked is let in before   *)
(* it is unblocked or deleted - with a cached token, a fresh one, a link,  *)
(* a cookie, or a sign-in under way, whatever else is in flight.           *)
BlockedIsOut ==
    \A c \in Callers : At(c, "admitted") => ~caller[c].barred
=============================================================================
