--------------------------- MODULE TokenFamilies ---------------------------
(***************************************************************************)
(* Browser and MCP token families: the Redis records a login or an OAuth   *)
(* code exchange creates, the rotation of refresh tokens, and the          *)
(* revocations that an administrator, a password change or a replayed      *)
(* token set off (infra/src/authentication/mod.rs, api-oauth/src/token.rs, *)
(* api-auth/src/browser_token.rs).                                         *)
(*                                                                         *)
(* Redis runs one command or one FCALL at a time, PostgreSQL one statement:*)
(* each is a step here.  A request keeps what it read in its own record,   *)
(* and other requests run between its steps.  One user owns every family;  *)
(* sets of families of other users never meet.                             *)
(***************************************************************************)
EXTENDS Integers, FiniteSets

CONSTANTS
    Clients,        \* client applications
    McpClient,      \* the built-in MCP client among them
    Managed,        \* the clients an administrator disables and enables
    Codes,          \* authorization codes issued to the user
    CodeClient,     \* the client each code was issued for
    Families,       \* family identifiers that can be drawn
    Procs,          \* requests running at once
    MaxTokens,      \* refresh tokens one family may issue
    MaxSweeps,      \* bulk revocations started
    MaxFaults       \* Redis calls of a revocation that fail

ASSUME ClientsAssumption == McpClient \in Clients /\ Managed \subseteq Clients
ASSUME CodesAssumption == CodeClient \in [Codes -> Clients]
ASSUME BoundsAssumption ==
    /\ MaxTokens \in Nat \ {0}
    /\ MaxSweeps \in Nat
    /\ MaxFaults \in Nat
    /\ IsFiniteSet(Families)

VARIABLES
    enabled,        \* client_app.enabled
    generation,     \* client_app.mcp_token_generation
    forbidden,      \* the user's status is Forbidden
    codes,          \* oauth:code:* keys still in Redis
    fam,            \* bt:fam:*, with its bt:rt:* and bt:at:* records
    stored,         \* families whose keys have not expired
    byClient,       \* bt:client families sets
    byUser,         \* bt:user families set
    req,            \* what each running request has read so far
    sweeps,         \* bulk revocations started so far
    faults,         \* failed Redis calls of revocations so far
    ended,          \* history: families some finished operation ended
    cut             \* history: MCP families older than a disable

db == <<enabled, generation, forbidden>>
index == <<byClient, byUser>>
tally == <<sweeps, faults>>
vars == <<db, codes, fam, stored, index, req, tally, ended, cut>>

NoFamily == "no family"
NoCode == "no code"

ASSUME NamesAssumption == NoFamily \notin Families /\ NoCode \notin Codes

(***************************************************************************)
(* A family before it is created.  `issued' numbers its refresh tokens; a  *)
(* token in `spent' has a successor, one in `dead' is flagged revoked.     *)
(* The access token minted with refresh token i has number i.              *)
(***************************************************************************)
Blank == [client |-> McpClient, code |-> NoCode, gen |-> 0, revoked |-> FALSE,
          issued |-> 0, spent |-> {}, dead |-> {}, access |-> {}]

Idle == [at |-> "idle", client |-> McpClient, code |-> NoCode, gen |-> 0,
         family |-> NoFamily, token |-> 0, todo |-> {}, cover |-> {},
         late |-> FALSE]

Init ==
    /\ enabled = [c \in Clients |-> TRUE]
    /\ generation = 0
    /\ forbidden = FALSE
    /\ codes = Codes
    /\ fam = [f \in Families |-> Blank]
    /\ stored = {}
    /\ byClient = [c \in Clients |-> {}]
    /\ byUser = {}
    /\ req = [p \in Procs |-> Idle]
    /\ sweeps = 0
    /\ faults = 0
    /\ ended = {}
    /\ cut = {}

Unused == {f \in Families : fam[f].issued = 0}
LiveRefresh(f) == (1..fam[f].issued) \ fam[f].dead

Step(p, change) == req' = [req EXCEPT ![p] = change]
Finish(p) == Step(p, Idle)

(***************************************************************************)
(* What the bearer middleware accepts: an access token still in Redis, its *)
(* client enabled, for MCP the generation of the live row, the user not    *)
(* disabled.                                                               *)
(***************************************************************************)
Accepts(f) ==
    /\ f \in stored
    /\ fam[f].access # {}
    /\ enabled[fam[f].client]
    /\ fam[f].client = McpClient => fam[f].gen = generation
    /\ ~forbidden

-----------------------------------------------------------------------------
(***************************************************************************)
(* The Redis functions.                                                    *)
(***************************************************************************)

\* revoke_family_data: every access token deleted, every refresh token
\* flagged, the family flagged and taken out of both sets.
RevokeFamily(f) ==
    IF f \in stored
    THEN /\ fam' = [fam EXCEPT ![f].revoked = TRUE, ![f].access = {},
                               ![f].dead = 1..fam[f].issued]
         /\ byClient' = [byClient EXCEPT ![fam[f].client] = @ \ {f}]
         /\ byUser' = byUser \ {f}
    ELSE UNCHANGED <<fam, index>>

\* browser_token_create_family for a client row of generation g.
CreateFamily(f, c, code, g) ==
    /\ fam' = [fam EXCEPT ![f] =
                  [Blank EXCEPT !.client = c, !.code = code, !.gen = g,
                                !.issued = 1, !.access = {1}]]
    /\ stored' = stored \cup {f}
    /\ byClient' = [byClient EXCEPT ![c] = @ \cup {f}]
    /\ byUser' = byUser \cup {f}

\* Slip: only the family's flag stops a rotation, not the token's own.
VerdictByFamily(f, i) ==
    CASE f \notin stored -> "invalid"
      [] f \in stored /\ fam[f].revoked -> "invalid"
      [] OTHER -> "ok"

\* The checks of browser_token_refresh and browser_token_refresh_mcp.
Verdict(f, i) ==
    CASE f \notin stored -> "invalid"
      [] f \in stored /\ i \in fam[f].spent -> "reuse"
      [] f \in stored /\ i \notin fam[f].spent
            /\ (i \in fam[f].dead \/ fam[f].revoked) -> "invalid"
      [] OTHER -> "ok"

\* Slip: the rotation binds the family to the client's current generation.
RotatedRebound(f, i) ==
    [fam EXCEPT ![f].spent = @ \cup {i},
                ![f].dead = @ \cup {i},
                ![f].issued = @ + 1,
                ![f].gen = generation,
                ![f].access = @ \cup {fam[f].issued + 1}]

\* Slip: the old token gets its successor but is not flagged.
RotatedUnflagged(f, i) ==
    [fam EXCEPT ![f].spent = @ \cup {i},
                ![f].issued = @ + 1,
                ![f].access = @ \cup {fam[f].issued + 1}]

\* The old token gets its successor, the family two more digests.
Rotated(f, i) ==
    [fam EXCEPT ![f].spent = @ \cup {i},
                ![f].dead = @ \cup {i},
                ![f].issued = @ + 1,
                ![f].access = @ \cup {fam[f].issued + 1}]

\* The FCALL that ends both refresh paths.
Rotate(p) ==
    LET f == req[p].family
        i == req[p].token
    IN  /\ req[p].at = "rotate"
        /\ \/ /\ Verdict(f, i) = "reuse"
              /\ RevokeFamily(f)
              /\ ended' = ended \cup {f}
           \/ /\ Verdict(f, i) = "ok"
              /\ fam[f].issued < MaxTokens
              /\ fam' = Rotated(f, i)
              /\ UNCHANGED <<index, ended>>
           \/ /\ Verdict(f, i) = "invalid"
              /\ UNCHANGED <<fam, index, ended>>
        /\ Finish(p)
        /\ UNCHANGED <<db, codes, stored, tally, cut>>

-----------------------------------------------------------------------------
(***************************************************************************)
(* token_authorization_code: the code is taken with GETDEL, then the       *)
(* bindings, the client row and the user row are checked, then the family  *)
(* is created from the client row read before.                             *)
(***************************************************************************)

\* Slip: the code is read with GET.
TakeCodeByGet(code) == code \in codes /\ UNCHANGED codes

TakeCode(code) == code \in codes /\ codes' = codes \ {code}

ExchangeCode(p, code) ==
    /\ req[p].at = "idle"
    /\ TakeCode(code)
    /\ \/ Step(p, [Idle EXCEPT !.at = "read_client", !.code = code,
                               !.client = CodeClient[code]])
       \/ Finish(p)                           \* validate_code_bindings fails
    /\ UNCHANGED <<db, fam, stored, index, tally, ended, cut>>

ExchangeClient(p) ==
    /\ req[p].at = "read_client"
    /\ IF enabled[req[p].client]
       THEN Step(p, [req[p] EXCEPT !.at = "read_user", !.gen = generation])
       ELSE Finish(p)
    /\ UNCHANGED <<db, codes, fam, stored, index, tally, ended, cut>>

\* Only the MCP and openid branches look at the user's status.
ExchangeUser(p) ==
    /\ req[p].at = "read_user"
    /\ IF req[p].client = McpClient /\ forbidden
       THEN Finish(p)
       ELSE Step(p, [req[p] EXCEPT !.at = "create"])
    /\ UNCHANGED <<db, codes, fam, stored, index, tally, ended, cut>>

ExchangeCreate(p) ==
    /\ req[p].at = "create"
    /\ \/ \E f \in Unused :
             /\ CreateFamily(f, req[p].client, req[p].code, req[p].gen)
             /\ cut' = IF req[p].late THEN cut \cup {f} ELSE cut
       \/ UNCHANGED <<fam, stored, index, cut>>          \* the FCALL fails
    /\ Finish(p)
    /\ UNCHANGED <<db, codes, tally, ended>>

-----------------------------------------------------------------------------
(***************************************************************************)
(* Refreshes.  Any token ever issued may be presented: a client that lost  *)
(* the answer of a rotation presents the old one again.                    *)
(***************************************************************************)

\* refresh_inner: the reads before the FCALL; an MCP family is refused.
BrowserRefresh(p, f, i) ==
    /\ req[p].at = "idle"
    /\ f \in stored
    /\ i \in 1..fam[f].issued
    /\ fam[f].client # McpClient
    /\ Step(p, [Idle EXCEPT !.at = "rotate", !.family = f, !.token = i])
    /\ UNCHANGED <<db, codes, fam, stored, index, tally, ended, cut>>

\* token_refresh: the token and family records, then the client row, then
\* the user row, then refresh_mcp.
McpRefresh(p, f, i) ==
    /\ req[p].at = "idle"
    /\ f \in stored
    /\ i \in 1..fam[f].issued
    /\ fam[f].client = McpClient
    /\ Step(p, [Idle EXCEPT !.at = "mcp_client", !.family = f, !.token = i,
                            !.gen = fam[f].gen])
    /\ UNCHANGED <<db, codes, fam, stored, index, tally, ended, cut>>

McpRefreshClient(p) ==
    /\ req[p].at = "mcp_client"
    /\ IF enabled[McpClient] /\ generation = req[p].gen
       THEN Step(p, [req[p] EXCEPT !.at = "mcp_user", !.gen = 0])
       ELSE Finish(p)
    /\ UNCHANGED <<db, codes, fam, stored, index, tally, ended, cut>>

McpRefreshUser(p) ==
    /\ req[p].at = "mcp_user"
    /\ IF forbidden THEN Finish(p)
       ELSE Step(p, [req[p] EXCEPT !.at = "rotate"])
    /\ UNCHANGED <<db, codes, fam, stored, index, tally, ended, cut>>

-----------------------------------------------------------------------------
(***************************************************************************)
(* Revoking all families of a client or of the user: the set is listed     *)
(* once, the families are then revoked one by one.  `cover' remembers what *)
(* was alive when the operation committed its own write.                   *)
(***************************************************************************)
Alive == {f \in stored : ~fam[f].revoked}
AliveOf(c) == {f \in Alive : fam[f].client = c}

StartSweep(p) ==
    /\ req[p].at = "idle"
    /\ sweeps < MaxSweeps
    /\ sweeps' = sweeps + 1

\* update_enabled_with_mcp_generation: one UPDATE.
SetEnabledRow(c) ==
    [enabled |-> [enabled EXCEPT ![c] = FALSE],
     generation |-> IF c = McpClient /\ enabled[c] THEN generation + 1
                                                  ELSE generation]

DisableClient(p, c) ==
    /\ StartSweep(p)
    /\ enabled' = SetEnabledRow(c).enabled
    /\ generation' = SetEnabledRow(c).generation
    /\ cut' = IF c = McpClient THEN cut \cup AliveOf(c) ELSE cut
    /\ req' = [q \in Procs |->
                 IF q = p
                 THEN [Idle EXCEPT !.at = "list_client", !.client = c,
                                   !.cover = AliveOf(c)]
                 ELSE [req[q] EXCEPT !.late =
                         @ \/ /\ c = McpClient
                              /\ req[q].client = c
                              /\ req[q].at \in {"read_user", "create"}]]
    /\ UNCHANGED <<forbidden, codes, fam, stored, index, faults, ended>>

EnableClient(c) ==
    /\ ~enabled[c]
    /\ enabled' = [enabled EXCEPT ![c] = TRUE]
    /\ UNCHANGED <<generation, forbidden, codes, fam, stored, index, req,
                   tally, ended, cut>>

\* The status write of update_user, repeated writes included.
ForbidUser(p) ==
    /\ StartSweep(p)
    /\ forbidden' = TRUE
    /\ Step(p, [Idle EXCEPT !.at = "list_user", !.cover = Alive])
    /\ UNCHANGED <<enabled, generation, codes, fam, stored, index, faults,
                   ended, cut>>

RestoreUser ==
    /\ forbidden
    /\ forbidden' = FALSE
    /\ UNCHANGED <<enabled, generation, codes, fam, stored, index, req, tally,
                   ended, cut>>

\* Password resets and the administrator's bulk revocation.
RevokeUserSessions(p) ==
    /\ StartSweep(p)
    /\ Step(p, [Idle EXCEPT !.at = "list_user", !.cover = Alive])
    /\ UNCHANGED <<db, codes, fam, stored, index, faults, ended, cut>>

\* Change of password: every session but the one that asks.
ChangePassword(p, f) ==
    /\ StartSweep(p)
    /\ Accepts(f)
    /\ fam[f].client # McpClient
    /\ Step(p, [Idle EXCEPT !.at = "list_others", !.family = f,
                            !.cover = Alive \ {f}])
    /\ UNCHANGED <<db, codes, fam, stored, index, faults, ended, cut>>

\* Slip: the set is emptied once it has been listed.
PruneListed(set) == {}

\* prune_stale_family_ids keeps the ids whose family key exists.
PruneStale(set) == set \cap stored

ListFamilies(p) ==
    \/ /\ req[p].at = "list_client"
       /\ Step(p, [req[p] EXCEPT !.at = "revoke",
                     !.todo = byClient[req[p].client] \cap stored])
       /\ byClient' = [byClient EXCEPT ![req[p].client] = PruneStale(@)]
       /\ UNCHANGED <<db, codes, fam, stored, byUser, tally, ended, cut>>
    \/ /\ req[p].at \in {"list_user", "list_others"}
       /\ Step(p, [req[p] EXCEPT
                     !.at = IF @ = "list_user" THEN "revoke" ELSE "revoke_each",
                     !.todo = (byUser \cap stored) \ {req[p].family}])
       /\ byUser' = PruneStale(byUser)
       /\ UNCHANGED <<db, codes, fam, stored, byClient, tally, ended, cut>>

RevokeNext(p) ==
    /\ req[p].at \in {"revoke", "revoke_each"}
    /\ \E f \in req[p].todo :
          /\ RevokeFamily(f)
          /\ Step(p, [req[p] EXCEPT !.todo = @ \ {f}])
    /\ UNCHANGED <<db, codes, stored, tally, ended, cut>>

RevocationDone(p) ==
    /\ req[p].at \in {"revoke", "revoke_each"}
    /\ req[p].todo = {}
    /\ ended' = ended \cup req[p].cover
    /\ Finish(p)
    /\ UNCHANGED <<db, codes, fam, stored, index, tally, cut>>

\* Slip: a family whose revocation failed is passed over.
SkipFailed(p, f) == Step(p, [req[p] EXCEPT !.todo = @ \ {f}])

\* A failure ends the bulk revocation with an error; the change of password
\* logs it and goes on.
StopAtFailure(p, f) ==
    IF req[p].at = "revoke"
    THEN Finish(p)
    ELSE Step(p, [req[p] EXCEPT !.todo = @ \ {f}, !.cover = @ \ {f}])

RevocationFails(p) ==
    /\ req[p].at \in {"revoke", "revoke_each"}
    /\ faults < MaxFaults
    /\ faults' = faults + 1
    /\ \E f \in req[p].todo : StopAtFailure(p, f)
    /\ UNCHANGED <<db, codes, fam, stored, index, sweeps, ended, cut>>

-----------------------------------------------------------------------------
(***************************************************************************)
(* Single families: logout, and the switch between first-party clients.    *)
(***************************************************************************)
Logout(f) ==
    /\ Accepts(f)
    /\ RevokeFamily(f)
    /\ ended' = ended \cup {f}
    /\ UNCHANGED <<db, codes, stored, req, tally, cut>>

\* switch_client reads the target client, creates its family, and then
\* revokes the family that asked.
SwitchClient(p, f, target) ==
    /\ req[p].at = "idle"
    /\ Accepts(f)
    /\ McpClient \notin {fam[f].client, target}
    /\ target # fam[f].client
    /\ enabled[target]
    /\ Step(p, [Idle EXCEPT !.at = "switch_create", !.family = f,
                            !.client = target])
    /\ UNCHANGED <<db, codes, fam, stored, index, tally, ended, cut>>

SwitchCreate(p) ==
    /\ req[p].at = "switch_create"
    /\ \/ \E f \in Unused :
             /\ CreateFamily(f, req[p].client, NoCode, 0)
             /\ Step(p, [req[p] EXCEPT !.at = "switch_revoke", !.todo = {f}])
       \/ Finish(p) /\ UNCHANGED <<fam, stored, index>>   \* the FCALL fails
    /\ UNCHANGED <<db, codes, tally, ended, cut>>

\* A failed revocation of the source revokes the new family instead, and
\* lets a second failure pass.
SwitchRevoke(p) ==
    /\ req[p].at = "switch_revoke"
    /\ \/ /\ RevokeFamily(req[p].family)
          /\ ended' = ended \cup {req[p].family}
          /\ UNCHANGED faults
       \/ /\ faults < MaxFaults
          /\ faults' = faults + 1
          /\ \/ \E f \in req[p].todo :
                   RevokeFamily(f) /\ ended' = ended \cup {f}
             \/ UNCHANGED <<fam, index, ended>>
    /\ Finish(p)
    /\ UNCHANGED <<db, codes, stored, sweeps, cut>>

\* The absolute lifetime of a family ends: its keys go, its set entries stay.
Expire(f) ==
    /\ f \in stored
    /\ stored' = stored \ {f}
    /\ fam' = [fam EXCEPT ![f] = [Blank EXCEPT !.client = fam[f].client,
                  !.code = fam[f].code, !.issued = 1, !.dead = {1}]]
    /\ UNCHANGED <<db, codes, index, req, tally, ended, cut>>

Next ==
    \/ \E p \in Procs :
          \/ \E code \in Codes : ExchangeCode(p, code)
          \/ ExchangeClient(p)
          \/ ExchangeUser(p)
          \/ ExchangeCreate(p)
          \/ \E f \in Families, i \in 1..MaxTokens :
                BrowserRefresh(p, f, i) \/ McpRefresh(p, f, i)
          \/ McpRefreshClient(p)
          \/ McpRefreshUser(p)
          \/ Rotate(p)
          \/ \E c \in Managed : DisableClient(p, c)
          \/ ForbidUser(p)
          \/ RevokeUserSessions(p)
          \/ \E f \in Families : ChangePassword(p, f)
          \/ ListFamilies(p)
          \/ RevokeNext(p)
          \/ RevocationDone(p)
          \/ RevocationFails(p)
          \/ \E f \in Families, c \in Clients : SwitchClient(p, f, c)
          \/ SwitchCreate(p)
          \/ SwitchRevoke(p)
    \/ \E c \in Managed : EnableClient(c)
    \/ RestoreUser
    \/ \E f \in Families : Logout(f) \/ Expire(f)

Spec == Init /\ [][Next]_vars

-----------------------------------------------------------------------------
Tokens == 1..MaxTokens

(***************************************************************************)
(* Every record keeps its range: a spent refresh token is dead, only issued *)
(* tokens are usable, and families are listed, swept or expired only after *)
(* they were created (the records of browser_token_create_family).         *)
(***************************************************************************)
TypeOK ==
    /\ enabled \in [Clients -> BOOLEAN]
    /\ generation \in 0..MaxSweeps
    /\ forbidden \in BOOLEAN
    /\ codes \subseteq Codes
    /\ fam \in [Families ->
                 [client : Clients, code : Codes \cup {NoCode},
                  gen : 0..MaxSweeps, revoked : BOOLEAN,
                  issued : 0..MaxTokens, spent : SUBSET Tokens,
                  dead : SUBSET Tokens, access : SUBSET Tokens]]
    /\ \A f \in Families : fam[f].spent \subseteq fam[f].dead
    /\ \A f \in Families : fam[f].dead \cup fam[f].access \subseteq 1..fam[f].issued
    /\ stored \subseteq Families \ Unused
    /\ byClient \in [Clients -> SUBSET Families]
    /\ byUser \subseteq Families
    /\ \A p \in Procs :
          /\ req[p].family \in Families \cup {NoFamily}
          /\ req[p].todo \subseteq Families \ Unused
    /\ sweeps \in 0..MaxSweeps
    /\ faults \in 0..MaxFaults
    /\ ended \subseteq Families \ Unused
    /\ cut \subseteq Families \ Unused

(***************************************************************************)
(* An authorization code yields at most one family, whatever two exchanges *)
(* of it interleave (GETDEL of token_authorization_code).                  *)
(***************************************************************************)
CodeOnce ==
    \A f, g \in Families :
        f # g /\ fam[f].code = fam[g].code => fam[f].code = NoCode

(***************************************************************************)
(* Rotation never forks a family: of the refresh tokens issued so far at   *)
(* most one is usable, although two requests may read the same token       *)
(* before either calls the rotation function.                              *)
(***************************************************************************)
OneLiveRefresh ==
    \A f \in Families : Cardinality(LiveRefresh(f)) <= 1

(***************************************************************************)
(* A family that a replayed token, a logout, a client switch or a bulk     *)
(* revocation reported as done has ended never has a usable token again:   *)
(* a rotation that had read its token before cannot bring it back, and a   *)
(* bulk revocation that reports success reached every family alive when    *)
(* its own write committed (revoke_family_data, revoke_client_families,    *)
(* revoke_user_families).                                                  *)
(***************************************************************************)
EndedStaysDead ==
    \A f \in ended : fam[f].access = {} /\ LiveRefresh(f) = {}

(***************************************************************************)
(* Every family with a usable token is in its client's set and in the      *)
(* user's set, so that a later revocation finds it                         *)
(* (browser_token_create_family, prune_stale_family_ids).                  *)
(***************************************************************************)
IndexedWhileLive ==
    \A f \in Alive : f \in byUser /\ f \in byClient[fam[f].client]

(***************************************************************************)
(* An MCP credential whose authorization predates a disable of the MCP     *)
(* client is refused for good: re-enabling the client, a revocation that   *)
(* failed half-way, a rotation or an exchange that had read the client row *)
(* before the disable do not revive it (mcp_token_generation).             *)
(***************************************************************************)
DisableCutsForGood == \A f \in cut : ~Accepts(f)
=============================================================================
