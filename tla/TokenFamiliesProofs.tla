------------------------ MODULE TokenFamiliesProofs ------------------------
(* Proofs, for any number of clients, codes, families, requests, rotations,  *)
(* bulk revocations and failures, of the safety properties of TokenFamilies. *)
(* The invariants come in layers: Base types the records and ties the token  *)
(* a request holds to its family; the index, the sweeps, the codes and the   *)
(* generations are each inductive relative to the layers before.             *)
EXTENDS TokenFamilies, FiniteSetTheorems, TLAPS

FamType ==
    [client : Clients, code : Codes \cup {NoCode}, gen : 0..MaxSweeps,
     revoked : BOOLEAN, issued : 0..MaxTokens, spent : SUBSET Tokens,
     dead : SUBSET Tokens, access : SUBSET Tokens]

Exchanging == {"read_client", "read_user", "create"}
Refreshing == {"rotate", "mcp_client", "mcp_user"}
Switching == {"switch_create", "switch_revoke"}
Listing == {"list_client", "list_user", "list_others"}
Revoking == {"revoke", "revoke_each"}

ReqType ==
    [at : {"idle"} \cup Exchanging \cup Refreshing \cup Switching \cup Listing \cup Revoking,
     client : Clients, code : Codes \cup {NoCode}, gen : 0..MaxSweeps,
     family : Families \cup {NoFamily}, token : 0..MaxTokens,
     todo : SUBSET Families, cover : SUBSET Families, late : BOOLEAN]

Created == Families \ Unused

(* The columns and sets that are neither families nor requests.              *)
RestTyped ==
    /\ enabled \in [Clients -> BOOLEAN]
    /\ forbidden \in BOOLEAN
    /\ codes \subseteq Codes
    /\ byClient \in [Clients -> SUBSET Families]
    /\ byUser \subseteq Families
    /\ sweeps \in 0..MaxSweeps /\ generation \in 0..sweeps
    /\ faults \in 0..MaxFaults

(* Only the newest refresh token of a family can be usable, and none of a    *)
(* family that is revoked or gone.                                           *)
FamSound(f) ==
    /\ fam[f].spent \subseteq fam[f].dead
    /\ fam[f].dead \cup fam[f].access \subseteq 1..fam[f].issued
    /\ LiveRefresh(f) \subseteq {fam[f].issued}
    /\ f \notin stored \/ fam[f].revoked => fam[f].access = {} /\ fam[f].dead = 1..fam[f].issued

(* The families a request works on exist, and the token it holds was issued. *)
ReqBase(r) ==
    /\ r.todo \cup r.cover \subseteq Created
    /\ r.at \in Refreshing \cup Switching => r.family \in Created
    /\ r.at \in Refreshing => (r.family \in stored => r.token \in 1..fam[r.family].issued)

Base ==
    /\ RestTyped
    /\ fam \in [Families -> FamType]
    /\ req \in [Procs -> ReqType]
    /\ \A f \in Families : FamSound(f)
    /\ stored \cup ended \cup cut \subseteq Created
    /\ \A p \in Procs : ReqBase(req[p])

(* A sweep finds every family that was alive when it began, unless that      *)
(* family has ended since.                                                   *)
Covered(r) ==
    \A f \in r.cover \cap Alive :
      /\ r.at = "list_client" => fam[f].client = r.client
      /\ r.at = "list_user" => f # r.family
      /\ r.at = "list_others" => f # r.family
      /\ r.at \in Revoking => f \in r.todo
Swept ==
    /\ ended \cap Alive = {}
    /\ \A p \in Procs : Covered(req[p]) /\ (req[p].cover # {} => req[p].at \in Listing \cup Revoking)

(* A code is in Redis, or held by one exchange, or spent on one family.      *)
CodesOnce ==
    /\ CodeOnce
    /\ \A f \in Families : fam[f].code \notin codes
    /\ \A p \in Procs : req[p].at \in Exchanging =>
         /\ req[p].code \in Codes \ codes
         /\ \A f \in Families : fam[f].code # req[p].code
         /\ \A q \in Procs : req[q].at \in Exchanging /\ req[q].code = req[p].code => q = p

(* Nothing is bound to the generation of a disabled MCP client.              *)
Current(g) == g <= generation /\ (~enabled[McpClient] => g < generation)
Generations ==
    /\ ~enabled[McpClient] => generation > 0
    /\ \A f \in Created : fam[f].client = McpClient => Current(fam[f].gen)
    /\ \A p \in Procs :
         /\ req[p].late => req[p].at \in {"read_user", "create"} /\ req[p].client = McpClient
         /\ req[p].at \in {"read_user", "create"} /\ req[p].client = McpClient =>
              Current(req[p].gen) /\ (req[p].late => req[p].gen < generation)
    /\ \A f \in cut : fam[f].client = McpClient /\ fam[f].gen < generation

-----------------------------------------------------------------------------
(* The Redis functions *)

\* What a step leaves of a family: it is created now, or keeps its client and
\* its code and gets nothing back.
FamLater ==
    \A f \in Families :
      \/ f \in Unused /\ f \in Created'
      \/ /\ fam'[f].client = fam[f].client /\ fam'[f].code = fam[f].code
         /\ fam'[f].gen \in {0, fam[f].gen}
         /\ f \in Unused' <=> f \in Unused
         /\ f \in stored' => /\ f \in stored /\ fam[f].issued <= fam'[f].issued
                             /\ fam'[f].gen = fam[f].gen
         /\ f \in Alive' => f \in Alive

FamsGood == fam \in [Families -> FamType] /\ \A f \in Families : FamSound(f)

\* revoke_family_data ends a family that is stored and touches no other.
LEMMA RevokeDoes ==
    ASSUME Base, NEW f \in Families, RevokeFamily(f), stored' = stored
    PROVE  /\ FamsGood'
           /\ \A g \in Families : /\ fam'[g].client = fam[g].client /\ fam'[g].code = fam[g].code
                                  /\ fam'[g].gen = fam[g].gen /\ fam'[g].issued = fam[g].issued
           /\ \A g \in Families \ {f} : fam'[g] = fam[g]
           /\ f \in stored => fam'[f].revoked
<1>1. fam \in [Families -> FamType] /\ FamSound(f)
  BY DEF Base
<1>2. CASE f \in stored
  <2> PICK r : r = [fam[f] EXCEPT !.revoked = TRUE, !.access = {}, !.dead = 1..fam[f].issued]
    OBVIOUS
  <2>1. 1..fam[f].issued \subseteq Tokens
    BY <1>1, BoundsAssumption DEF FamType, Tokens
  <2>2. r \in FamType /\ r.revoked = TRUE /\ r.access = {} /\ r.dead = 1..fam[f].issued
        /\ r.client = fam[f].client /\ r.code = fam[f].code /\ r.gen = fam[f].gen
        /\ r.issued = fam[f].issued /\ r.spent = fam[f].spent
    BY <1>1, <2>1 DEF FamType
  <2>3. fam' = [fam EXCEPT ![f] = r]
    BY <1>2 DEF RevokeFamily
  <2>4. fam' \in [Families -> FamType] /\ fam'[f] = r /\ \A g \in Families \ {f} : fam'[g] = fam[g]
    BY <1>1, <2>2, <2>3
  <2>5. FamSound(f)'
    BY <1>1, <2>2, <2>4 DEF FamSound, LiveRefresh
  <2>6. ASSUME NEW g \in Families \ {f} PROVE FamSound(g)'
    BY <2>4 DEF Base, FamSound, LiveRefresh
  <2> QED BY <2>2, <2>4, <2>5, <2>6 DEF FamsGood
<1>3. CASE f \notin stored
  <2>1. fam' = fam
    BY <1>3 DEF RevokeFamily
  <2> QED BY <1>3, <2>1 DEF FamsGood, Base, FamSound, LiveRefresh
<1> QED BY <1>2, <1>3

\* revoke_family_data takes the family, and nothing else, out of both sets.
LEMMA RevokeUnlists ==
    ASSUME Base, NEW f \in Families, RevokeFamily(f)
    PROVE  /\ byClient' \in [Clients -> SUBSET Families] /\ byUser' \subseteq Families
           /\ \A g \in Families \ {f} : /\ g \in byUser => g \in byUser'
                                        /\ \A c \in Clients : g \in byClient[c] => g \in byClient'[c]
<1>1. byClient \in [Clients -> SUBSET Families] /\ byUser \subseteq Families
  BY DEF Base, RestTyped
<1>2. fam[f].client \in Clients
  BY DEF Base, FamType
<1>3. CASE f \in stored
  BY <1>1, <1>2, <1>3 DEF RevokeFamily
<1>4. CASE f \notin stored
  BY <1>1, <1>4 DEF RevokeFamily, index
<1> QED BY <1>3, <1>4

\* A rotation that is allowed spends the newest token and issues the next.
LEMMA RotateDoes ==
    ASSUME Base, NEW f \in Families, NEW i \in 1..fam[f].issued, Verdict(f, i) = "ok",
           fam[f].issued < MaxTokens, fam' = Rotated(f, i), stored' = stored
    PROVE  /\ FamsGood'
           /\ f \in stored /\ ~fam[f].revoked
           /\ \A g \in Families : /\ fam'[g].client = fam[g].client /\ fam'[g].code = fam[g].code
                                  /\ fam'[g].gen = fam[g].gen /\ fam'[g].revoked = fam[g].revoked
           /\ \A g \in Families \ {f} : fam'[g] = fam[g]
           /\ fam'[f].issued = fam[f].issued + 1
<1>1. fam \in [Families -> FamType] /\ FamSound(f)
  BY DEF Base
<1>2. f \in stored /\ i \notin fam[f].spent /\ i \notin fam[f].dead /\ ~fam[f].revoked
  BY DEF Verdict
<1>3. fam[f].issued \in Nat /\ fam[f].issued + 1 \in 0..MaxTokens /\ i = fam[f].issued /\ i \in Tokens
      /\ fam[f].issued + 1 \in Tokens
  BY <1>1, <1>2, BoundsAssumption DEF FamType, FamSound, LiveRefresh, Tokens
<1> PICK n : n = fam[f].issued + 1
  OBVIOUS
<1> PICK r : r = [fam[f] EXCEPT !.spent = @ \cup {i}, !.dead = @ \cup {i}, !.issued = n,
                                !.access = @ \cup {n}]
  OBVIOUS
<1>4. /\ r \in FamType /\ r.revoked = fam[f].revoked /\ r.client = fam[f].client /\ r.code = fam[f].code
      /\ r.gen = fam[f].gen /\ r.issued = n /\ r.spent = fam[f].spent \cup {i}
      /\ r.dead = fam[f].dead \cup {i} /\ r.access = fam[f].access \cup {n}
  BY <1>1, <1>3 DEF FamType
<1>5. fam' = [fam EXCEPT ![f] = r]
  BY DEF Rotated
<1>6. fam' \in [Families -> FamType] /\ fam'[f] = r /\ \A g \in Families \ {f} : fam'[g] = fam[g]
  BY <1>1, <1>4, <1>5
<1>7. FamSound(f)'
  <2>1. r.spent \subseteq r.dead /\ r.dead \cup r.access \subseteq 1..r.issued
    BY <1>1, <1>3, <1>4 DEF FamSound
  <2>2. (1..r.issued) \ r.dead \subseteq {r.issued}
    BY <1>1, <1>3, <1>4 DEF FamSound, LiveRefresh
  <2> QED BY <1>2, <1>4, <1>6, <2>1, <2>2 DEF FamSound, LiveRefresh
<1>8. ASSUME NEW g \in Families \ {f} PROVE FamSound(g)'
  BY <1>6 DEF Base, FamSound, LiveRefresh
<1> QED BY <1>2, <1>4, <1>6, <1>7, <1>8 DEF FamsGood

\* browser_token_create_family fills a record that was never used.
LEMMA CreateDoes ==
    ASSUME Base, NEW f \in Unused, NEW c \in Clients, NEW code \in Codes \cup {NoCode},
           NEW g \in 0..MaxSweeps, CreateFamily(f, c, code, g)
    PROVE  /\ FamsGood'
           /\ fam'[f].client = c /\ fam'[f].code = code /\ fam'[f].gen = g
           /\ fam'[f].issued = 1 /\ ~fam'[f].revoked
           /\ \A h \in Families \ {f} : fam'[h] = fam[h]
           /\ stored' = stored \cup {f} /\ byUser' = byUser \cup {f}
           /\ byClient' \in [Clients -> SUBSET Families] /\ f \in byClient'[c]
           /\ \A d \in Clients : byClient[d] \subseteq byClient'[d]
<1>1. fam \in [Families -> FamType] /\ byClient \in [Clients -> SUBSET Families] /\ f \in Families
  BY DEF Base, RestTyped, Unused
<1>2. PICK r : r = [client |-> c, code |-> code, gen |-> g, revoked |-> FALSE,
                    issued |-> 1, spent |-> {}, dead |-> {}, access |-> {1}]
  OBVIOUS
<1>3. r \in FamType
  <2>1. 1 \in 0..MaxTokens /\ {1} \in SUBSET Tokens /\ {} \in SUBSET Tokens
    BY BoundsAssumption DEF Tokens
  <2> QED BY <1>2, <2>1 DEF FamType
<1>4. fam' \in [Families -> FamType] /\ fam'[f] = r /\ \A h \in Families \ {f} : fam'[h] = fam[h]
  BY <1>1, <1>2, <1>3 DEF CreateFamily, Blank
<1>5. stored' = stored \cup {f} /\ byUser' = byUser \cup {f}
  BY DEF CreateFamily
<1>6. /\ byClient' \in [Clients -> SUBSET Families] /\ f \in byClient'[c]
      /\ \A d \in Clients : byClient[d] \subseteq byClient'[d]
  BY <1>1 DEF CreateFamily
<1>7. FamSound(f)'
  <2>1. (1..1) \ {} \subseteq {1} /\ {1} \subseteq 1..1
    OBVIOUS
  <2> QED BY <1>2, <1>4, <1>5, <2>1 DEF FamSound, LiveRefresh
<1>8. ASSUME NEW h \in Families \ {f} PROVE FamSound(h)'
  BY <1>4, <1>5 DEF Base, FamSound, LiveRefresh
<1> QED BY <1>2, <1>4, <1>5, <1>6, <1>7, <1>8 DEF FamsGood

\* A family whose keys expire keeps its client and its code.
LEMMA ExpireDoes ==
    ASSUME Base, NEW f \in Families, Expire(f)
    PROVE  /\ FamsGood' /\ stored' = stored \ {f}
           /\ fam'[f].client = fam[f].client /\ fam'[f].code = fam[f].code
           /\ fam'[f].gen = 0 /\ fam'[f].issued = 1
           /\ \A g \in Families \ {f} : fam'[g] = fam[g]
<1>1. fam \in [Families -> FamType]
  BY DEF Base
<1>2. PICK r : r = [client |-> fam[f].client, code |-> fam[f].code, gen |-> 0, revoked |-> FALSE,
                    issued |-> 1, spent |-> {}, dead |-> {1}, access |-> {}]
  OBVIOUS
<1>3. r \in FamType
  <2>1. 1 \in 0..MaxTokens /\ {1} \in SUBSET Tokens /\ {} \in SUBSET Tokens /\ 0 \in 0..MaxSweeps
    BY BoundsAssumption DEF Tokens
  <2>2. fam[f].client \in Clients /\ fam[f].code \in Codes \cup {NoCode}
    BY <1>1 DEF FamType
  <2> QED BY <1>2, <2>1, <2>2 DEF FamType
<1>4. fam' \in [Families -> FamType] /\ fam'[f] = r /\ \A g \in Families \ {f} : fam'[g] = fam[g]
  BY <1>1, <1>2, <1>3 DEF Expire, Blank
<1>5. stored' = stored \ {f}
  BY DEF Expire
<1>6. FamSound(f)'
  <2>1. (1..1) \ {1} \subseteq {1} /\ {1} = 1..1
    OBVIOUS
  <2> QED BY <1>2, <1>4, <2>1 DEF FamSound, LiveRefresh
<1>7. ASSUME NEW g \in Families \ {f} PROVE FamSound(g)'
  BY <1>4, <1>5 DEF Base, FamSound, LiveRefresh
<1> QED BY <1>2, <1>4, <1>5, <1>6, <1>7 DEF FamsGood

-----------------------------------------------------------------------------
(* What a step does to the families and the sets that list them *)

Pruned ==
    /\ UNCHANGED <<fam, stored>>
    /\ byClient' \in [Clients -> SUBSET Families] /\ byUser' \subseteq Families
    /\ \A f \in stored : /\ f \in byUser => f \in byUser'
                         /\ \A c \in Clients : f \in byClient[c] => f \in byClient'[c]
Revoked == UNCHANGED stored /\ \E f \in Families : RevokeFamily(f)
RotatedOne ==
    /\ UNCHANGED <<stored, index>>
    /\ \E f \in Families : \E i \in 1..fam[f].issued :
         /\ Verdict(f, i) = "ok" /\ fam[f].issued < MaxTokens
         /\ fam' = Rotated(f, i)
CreatedOne ==
    \E f \in Unused, c \in Clients, code \in Codes \cup {NoCode}, g \in 0..MaxSweeps :
        CreateFamily(f, c, code, g)
FamKind == Pruned \/ Revoked \/ RotatedOne \/ CreatedOne \/ \E f \in Families : Expire(f)

\* A request that touches no family leaves the sets that list them alone.
LEMMA QuietKind ==
    ASSUME Base, UNCHANGED <<fam, stored, index>>
    PROVE  FamKind
BY DEF Base, RestTyped, FamKind, Pruned, index

\* Every step of the system changes the families in one of five ways.
LEMMA StepKind ==
    ASSUME Base, [Next]_vars
    PROVE  FamKind
<1>1. CASE UNCHANGED vars
  BY <1>1, QuietKind DEF vars, index
<1>2. ASSUME NEW c \in Managed, EnableClient(c) PROVE FamKind
  BY <1>2, QuietKind DEF EnableClient
<1>3. CASE RestoreUser
  BY <1>3, QuietKind DEF RestoreUser
<1>4. ASSUME NEW f \in Families, Logout(f) PROVE FamKind
  BY <1>4 DEF Logout, FamKind, Revoked
<1>5. ASSUME NEW f \in Families, Expire(f) PROVE FamKind
  BY <1>5 DEF FamKind
<1>6. ASSUME NEW p \in Procs,
             \/ \E code \in Codes : ExchangeCode(p, code)
             \/ ExchangeClient(p)
             \/ ExchangeUser(p)
             \/ \E f \in Families, i \in 1..MaxTokens : BrowserRefresh(p, f, i) \/ McpRefresh(p, f, i)
             \/ McpRefreshClient(p)
             \/ McpRefreshUser(p)
             \/ \E c \in Managed : DisableClient(p, c)
             \/ ForbidUser(p)
             \/ RevokeUserSessions(p)
             \/ \E f \in Families : ChangePassword(p, f)
             \/ RevocationDone(p)
             \/ RevocationFails(p)
             \/ \E f \in Families, c \in Clients : SwitchClient(p, f, c)
      PROVE FamKind
  <2>1. UNCHANGED <<fam, stored, index>>
    BY <1>6 DEF ExchangeCode, ExchangeClient, ExchangeUser, BrowserRefresh, McpRefresh,
       McpRefreshClient, McpRefreshUser, DisableClient, ForbidUser, RevokeUserSessions,
       ChangePassword, RevocationDone, RevocationFails, SwitchClient
  <2> QED BY <2>1, QuietKind
<1>7. ASSUME NEW p \in Procs, ExchangeCreate(p) PROVE FamKind
  <2>1. req[p].client \in Clients /\ req[p].code \in Codes \cup {NoCode} /\ req[p].gen \in 0..MaxSweeps
    BY DEF Base, ReqType
  <2>2. CASE UNCHANGED <<fam, stored, index, cut>>
    BY <2>2, QuietKind
  <2>3. CASE \E f \in Unused : CreateFamily(f, req[p].client, req[p].code, req[p].gen)
    BY <2>1, <2>3 DEF FamKind, CreatedOne
  <2> QED BY <1>7, <2>2, <2>3 DEF ExchangeCreate
<1>8. ASSUME NEW p \in Procs, SwitchCreate(p) PROVE FamKind
  <2>1. req[p].client \in Clients /\ NoCode \in Codes \cup {NoCode} /\ 0 \in 0..MaxSweeps
    BY BoundsAssumption DEF Base, ReqType
  <2>2. CASE UNCHANGED <<fam, stored, index>>
    BY <2>2, QuietKind
  <2>3. CASE \E f \in Unused : CreateFamily(f, req[p].client, NoCode, 0)
    BY <2>1, <2>3 DEF FamKind, CreatedOne
  <2> QED BY <1>8, <2>2, <2>3 DEF SwitchCreate
<1>9. ASSUME NEW p \in Procs, Rotate(p) PROVE FamKind
  <2>1. req[p].family \in Families /\ (req[p].family \in stored => req[p].token \in 1..fam[req[p].family].issued)
    BY <1>9 DEF Rotate, Base, ReqBase, Refreshing, Created
  <2>2. CASE UNCHANGED <<fam, index>>
    BY <1>9, <2>2, QuietKind DEF Rotate
  <2>3. CASE RevokeFamily(req[p].family)
    BY <1>9, <2>1, <2>3 DEF Rotate, FamKind, Revoked
  <2>4. CASE /\ Verdict(req[p].family, req[p].token) = "ok" /\ fam[req[p].family].issued < MaxTokens
             /\ fam' = Rotated(req[p].family, req[p].token) /\ UNCHANGED index
    <3>1. req[p].family \in stored
      BY <2>4 DEF Verdict
    <3> QED BY <1>9, <2>1, <2>4, <3>1 DEF Rotate, FamKind, RotatedOne
  <2> QED BY <1>9, <2>2, <2>3, <2>4 DEF Rotate
<1>10. ASSUME NEW p \in Procs, ListFamilies(p) PROVE FamKind
  <2>1. byClient \in [Clients -> SUBSET Families] /\ byUser \subseteq Families /\ req[p].client \in Clients
    BY DEF Base, RestTyped, ReqType
  <2>2. CASE byClient' = [byClient EXCEPT ![req[p].client] = PruneStale(@)] /\ UNCHANGED <<fam, stored, byUser>>
    BY <2>1, <2>2 DEF FamKind, Pruned, PruneStale
  <2>3. CASE byUser' = PruneStale(byUser) /\ UNCHANGED <<fam, stored, byClient>>
    BY <2>1, <2>3 DEF FamKind, Pruned, PruneStale
  <2> QED BY <1>10, <2>2, <2>3 DEF ListFamilies
<1>11. ASSUME NEW p \in Procs, RevokeNext(p) PROVE FamKind
  <2>1. req[p].todo \subseteq Families
    BY DEF Base, ReqType
  <2> QED BY <1>11, <2>1 DEF RevokeNext, FamKind, Revoked
<1>12. ASSUME NEW p \in Procs, SwitchRevoke(p) PROVE FamKind
  <2>1. req[p].todo \subseteq Families /\ req[p].family \in Families
    BY <1>12 DEF SwitchRevoke, Base, ReqType, ReqBase, Switching, Created
  <2>2. CASE UNCHANGED <<fam, index>>
    BY <1>12, <2>2, QuietKind DEF SwitchRevoke
  <2>3. CASE \E f \in Families : RevokeFamily(f)
    BY <1>12, <2>3 DEF SwitchRevoke, FamKind, Revoked
  <2> QED BY <1>12, <2>1, <2>2, <2>3 DEF SwitchRevoke
<1> QED BY <1>1, <1>2, <1>3, <1>4, <1>5, <1>6, <1>7, <1>8, <1>9, <1>10, <1>11, <1>12 DEF Next

-----------------------------------------------------------------------------
(* No family gets back what it lost *)

\* A family that a step leaves as it was satisfies FamLater.
LEMMA FamKept ==
    ASSUME Base, FamKind
    PROVE  FamsGood' /\ FamLater
<1>0. fam \in [Families -> FamType] /\ FamsGood /\ stored \subseteq Families
  BY DEF Base, FamsGood, Created
<1>1. \A f \in Families : fam[f].issued \in Nat /\ fam[f].issued <= fam[f].issued
  BY <1>0 DEF FamType
<1>2. CASE Pruned
  <2>1. fam' = fam /\ stored' = stored
    BY <1>2 DEF Pruned
  <2>2. FamsGood'
    BY <1>0, <2>1 DEF FamsGood, FamSound, LiveRefresh
  <2>3. FamLater
    BY <1>1, <2>1 DEF FamLater, Alive, Unused
  <2> QED BY <2>2, <2>3
<1>3. CASE Revoked
  <2> PICK f \in Families : RevokeFamily(f)
    BY <1>3 DEF Revoked
  <2>1. stored' = stored
    BY <1>3 DEF Revoked
  <2>2. /\ FamsGood'
        /\ \A g \in Families : /\ fam'[g].client = fam[g].client /\ fam'[g].code = fam[g].code
                               /\ fam'[g].gen = fam[g].gen /\ fam'[g].issued = fam[g].issued
        /\ \A g \in Families \ {f} : fam'[g] = fam[g]
        /\ f \in stored => fam'[f].revoked
    BY <2>1, RevokeDoes
  <2>3. FamLater
    BY <1>1, <2>1, <2>2 DEF FamLater, Alive, Unused
  <2> QED BY <2>2, <2>3
<1>4. CASE RotatedOne
  <2> PICK f \in Families : \E i \in 1..fam[f].issued :
         /\ Verdict(f, i) = "ok" /\ fam[f].issued < MaxTokens
         /\ fam' = Rotated(f, i)
    BY <1>4 DEF RotatedOne
  <2> PICK i \in 1..fam[f].issued :
         /\ Verdict(f, i) = "ok" /\ fam[f].issued < MaxTokens
         /\ fam' = Rotated(f, i)
    OBVIOUS
  <2>1. stored' = stored
    BY <1>4 DEF RotatedOne
  <2>2. /\ FamsGood'
        /\ f \in stored /\ ~fam[f].revoked
        /\ \A g \in Families : /\ fam'[g].client = fam[g].client /\ fam'[g].code = fam[g].code
                               /\ fam'[g].gen = fam[g].gen /\ fam'[g].revoked = fam[g].revoked
        /\ \A g \in Families \ {f} : fam'[g] = fam[g]
        /\ fam'[f].issued = fam[f].issued + 1
    BY <2>1, RotateDoes
  <2>3. \A g \in Families : fam[g].issued <= fam'[g].issued /\ (fam[g].issued = 0 <=> fam'[g].issued = 0)
    <3>1. f \notin Unused
      BY <2>2 DEF Base, Created
    <3>2. fam[f].issued \in Nat \ {0}
      BY <1>1, <3>1 DEF Unused
    <3> QED BY <1>1, <2>2, <3>2
  <2>4. FamLater
    BY <2>1, <2>2, <2>3 DEF FamLater, Alive, Unused
  <2> QED BY <2>2, <2>4
<1>5. CASE CreatedOne
  <2> PICK f \in Unused, c \in Clients, code \in Codes \cup {NoCode}, g \in 0..MaxSweeps :
        CreateFamily(f, c, code, g)
    BY <1>5 DEF CreatedOne
  <2>1. /\ FamsGood'
        /\ fam'[f].issued = 1
        /\ \A h \in Families \ {f} : fam'[h] = fam[h]
        /\ stored' = stored \cup {f}
    BY CreateDoes
  <2>2. f \in Unused /\ f \in Created'
    BY <2>1 DEF Created, Unused
  <2>3. FamLater
    BY <1>1, <2>1, <2>2 DEF FamLater, Alive, Unused
  <2> QED BY <2>1, <2>3
<1>6. CASE \E f \in Families : Expire(f)
  <2> PICK f \in Families : Expire(f)
    BY <1>6
  <2>1. /\ FamsGood' /\ stored' = stored \ {f}
        /\ fam'[f].client = fam[f].client /\ fam'[f].code = fam[f].code
        /\ fam'[f].gen = 0 /\ fam'[f].issued = 1
        /\ \A g \in Families \ {f} : fam'[g] = fam[g]
    BY ExpireDoes
  <2>2. f \notin Unused
    BY DEF Expire, Base, Created
  <2>3. FamLater
    BY <1>1, <2>1, <2>2 DEF FamLater, Alive, Unused
  <2> QED BY <2>1, <2>3
<1> QED BY <1>2, <1>3, <1>4, <1>5, <1>6 DEF FamKind

\* Families that exist go on existing.
LEMMA CreatedStay ==
    ASSUME FamLater
    PROVE  Created \subseteq Created'
BY DEF FamLater, Created

-----------------------------------------------------------------------------
(* Requests *)

\* What a request holds stays sound while other requests run.
LEMMA ReqLater ==
    ASSUME Base, FamsGood', FamLater, NEW r \in ReqType, ReqBase(r)
    PROVE  ReqBase(r)'
<1>1. r.todo \cup r.cover \subseteq Created'
  BY CreatedStay DEF ReqBase
<1>2. r.at \in Refreshing \cup Switching => r.family \in Created'
  BY CreatedStay DEF ReqBase
<1>3. ASSUME r.at \in Refreshing, r.family \in stored' PROVE r.token \in 1..fam'[r.family].issued
  <2>1. r.family \in Created /\ r.family \in Families
    BY <1>3 DEF ReqBase, Created
  <2>2. r.family \in stored /\ fam[r.family].issued <= fam'[r.family].issued
    BY <1>3, <2>1 DEF FamLater, Created
  <2>3. r.token \in 1..fam[r.family].issued
    BY <1>3, <2>2 DEF ReqBase
  <2>4. fam[r.family].issued \in Nat /\ fam'[r.family].issued \in Nat
    BY <2>1 DEF Base, FamsGood, FamType
  <2> QED BY <2>2, <2>3, <2>4
<1> QED BY <1>1, <1>2, <1>3 DEF ReqBase

\* A request that moves to a sound record leaves every record sound.
LEMMA ReqMove ==
    ASSUME Base, FamsGood', FamLater, NEW p \in Procs, NEW k \in ReqType, ReqBase(k)', Step(p, k)
    PROVE  req' \in [Procs -> ReqType] /\ \A q \in Procs : ReqBase(req[q])'
<1>1. req' \in [Procs -> ReqType] /\ req'[p] = k /\ \A q \in Procs \ {p} : req'[q] = req[q]
  BY DEF Base, Step
<1>2. ASSUME NEW q \in Procs PROVE ReqBase(req[q])'
  <2> PICK r : r = req'[q]
    OBVIOUS
  <2>1. ReqBase(r)'
    <3>1. CASE q = p
      BY <1>1, <3>1
    <3>2. CASE q # p
      <4>1. r \in ReqType /\ ReqBase(r)
        BY <1>1, <3>2 DEF Base
      <4> QED BY <4>1, ReqLater
    <3> QED BY <3>1, <3>2
  <2> QED BY <2>1 DEF ReqBase
<1> QED BY <1>1, <1>2

\* The same when no request moves.
LEMMA ReqStay ==
    ASSUME Base, FamsGood', FamLater, UNCHANGED req
    PROVE  req' \in [Procs -> ReqType] /\ \A q \in Procs : ReqBase(req[q])'
<1>1. req' \in [Procs -> ReqType]
  BY DEF Base
<1>2. ASSUME NEW q \in Procs PROVE ReqBase(req[q])'
  <2> PICK r : r = req[q]
    OBVIOUS
  <2>1. r \in ReqType /\ ReqBase(r)
    BY DEF Base
  <2>2. ReqBase(r)'
    BY <2>1, ReqLater
  <2> QED BY <2>2 DEF ReqBase
<1> QED BY <1>1, <1>2

\* A request that ends holds nothing.
LEMMA IdleGood == Idle \in ReqType /\ ReqBase(Idle)'
<1>1. 0 \in 0..MaxSweeps /\ 0 \in 0..MaxTokens
  BY BoundsAssumption
<1>2. Idle \in ReqType
  BY <1>1, ClientsAssumption DEF Idle, ReqType
<1> QED BY <1>2 DEF ReqBase, Idle, Refreshing, Switching

-----------------------------------------------------------------------------
(* The base invariant *)

\* The sets that list families keep their type.
LEMMA IndexTyped ==
    ASSUME Base, FamKind
    PROVE  byClient' \in [Clients -> SUBSET Families] /\ byUser' \subseteq Families /\ stored' \subseteq Families
<1>0. byClient \in [Clients -> SUBSET Families] /\ byUser \subseteq Families /\ stored \subseteq Families
  BY DEF Base, RestTyped, Created
<1>1. CASE Pruned
  BY <1>0, <1>1 DEF Pruned
<1>2. CASE Revoked
  BY <1>0, <1>2, RevokeUnlists DEF Revoked
<1>3. CASE RotatedOne
  BY <1>0, <1>3 DEF RotatedOne, index
<1>4. CASE CreatedOne
  <2> PICK f \in Unused, c \in Clients, code \in Codes \cup {NoCode}, g \in 0..MaxSweeps :
        CreateFamily(f, c, code, g)
    BY <1>4 DEF CreatedOne
  <2>1. f \in Families
    BY DEF Unused
  <2> QED BY <1>0, <2>1, CreateDoes
<1>5. CASE \E f \in Families : Expire(f)
  BY <1>0, <1>5 DEF Expire, index
<1> QED BY <1>1, <1>2, <1>3, <1>4, <1>5 DEF FamKind

\* The columns, the codes and the counters keep their type.
LEMMA RestStep ==
    ASSUME Base, [Next]_vars, FamKind
    PROVE  RestTyped'
<1>0. /\ enabled \in [Clients -> BOOLEAN] /\ forbidden \in BOOLEAN /\ codes \subseteq Codes
      /\ sweeps \in 0..MaxSweeps /\ generation \in 0..sweeps /\ faults \in 0..MaxFaults
  BY DEF Base, RestTyped
<1> DEFINE Goal == /\ enabled' \in [Clients -> BOOLEAN] /\ forbidden' \in BOOLEAN /\ codes' \subseteq Codes
                   /\ sweeps' \in 0..MaxSweeps /\ generation' \in 0..sweeps' /\ faults' \in 0..MaxFaults
<1>1. ASSUME UNCHANGED vars PROVE Goal
  BY <1>0, <1>1 DEF vars, db, tally
<1>2. ASSUME NEW c \in Managed, EnableClient(c) PROVE Goal
  BY <1>0, <1>2, ClientsAssumption DEF EnableClient, tally
<1>3. ASSUME RestoreUser PROVE Goal
  BY <1>0, <1>3 DEF RestoreUser, tally
<1>4. ASSUME NEW f \in Families, Logout(f) \/ Expire(f) PROVE Goal
  BY <1>0, <1>4 DEF Logout, Expire, db, tally
<1>5. ASSUME NEW p \in Procs,
             \/ ExchangeClient(p)
             \/ ExchangeUser(p)
             \/ ExchangeCreate(p)
             \/ \E f \in Families, i \in 1..MaxTokens : BrowserRefresh(p, f, i) \/ McpRefresh(p, f, i)
             \/ McpRefreshClient(p)
             \/ McpRefreshUser(p)
             \/ Rotate(p)
             \/ ListFamilies(p)
             \/ RevokeNext(p)
             \/ RevocationDone(p)
             \/ \E f \in Families, c \in Clients : SwitchClient(p, f, c)
             \/ SwitchCreate(p)
      PROVE  Goal
  <2>1. UNCHANGED <<db, codes, tally>>
    BY <1>5 DEF ExchangeClient, ExchangeUser, ExchangeCreate, BrowserRefresh, McpRefresh, McpRefreshClient,
       McpRefreshUser, Rotate, ListFamilies, RevokeNext, RevocationDone, SwitchClient, SwitchCreate
  <2> QED BY <1>0, <2>1 DEF db, tally
<1>6. ASSUME NEW p \in Procs, NEW code \in Codes, ExchangeCode(p, code) PROVE Goal
  BY <1>0, <1>6 DEF ExchangeCode, TakeCode, db, tally
<1>7. ASSUME NEW p \in Procs, NEW c \in Managed, DisableClient(p, c) PROVE Goal
  <2>1. sweeps' = sweeps + 1 /\ sweeps < MaxSweeps /\ faults' = faults /\ forbidden' = forbidden /\ codes' = codes
    BY <1>7 DEF DisableClient, StartSweep
  <2>2. enabled' = [enabled EXCEPT ![c] = FALSE] /\ generation' \in {generation, generation + 1}
    BY <1>7 DEF DisableClient, SetEnabledRow
  <2>3. sweeps' \in 0..MaxSweeps /\ generation' \in 0..sweeps'
    BY <1>0, <2>1, <2>2, BoundsAssumption
  <2>4. enabled' \in [Clients -> BOOLEAN]
    BY <1>0, <2>2
  <2> QED BY <1>0, <2>1, <2>3, <2>4
<1>8. ASSUME NEW p \in Procs, ForbidUser(p) \/ RevokeUserSessions(p) \/ \E f \in Families : ChangePassword(p, f)
      PROVE  Goal
  <2>1. /\ sweeps' = sweeps + 1 /\ sweeps < MaxSweeps /\ faults' = faults /\ forbidden' \in {TRUE, forbidden}
        /\ UNCHANGED <<enabled, generation, codes>>
    BY <1>8 DEF ForbidUser, RevokeUserSessions, ChangePassword, StartSweep, db
  <2>2. sweeps' \in 0..MaxSweeps /\ generation' \in 0..sweeps'
    BY <1>0, <2>1, BoundsAssumption
  <2> QED BY <1>0, <2>1, <2>2
<1>9. ASSUME NEW p \in Procs, RevocationFails(p) PROVE Goal
  BY <1>0, <1>9, BoundsAssumption DEF RevocationFails, db
<1>10. ASSUME NEW p \in Procs, SwitchRevoke(p) PROVE Goal
  <2>1. faults' = faults \/ (faults < MaxFaults /\ faults' = faults + 1)
    BY <1>10 DEF SwitchRevoke
  <2>2. faults' \in 0..MaxFaults
    BY <1>0, <2>1, BoundsAssumption
  <2> QED BY <1>0, <1>10, <2>2 DEF SwitchRevoke, db
<1> HIDE DEF Goal
<1>11. Goal
  BY <1>1, <1>2, <1>3, <1>4, <1>5, <1>6, <1>7, <1>8, <1>9, <1>10 DEF Next
<1> QED BY <1>11, IndexTyped DEF RestTyped, Goal

\* What the histories and the keys name was created.
LEMMA HistoryStep ==
    ASSUME Base, [Next]_vars, FamKind, FamsGood', FamLater
    PROVE  (stored \cup ended \cup cut \subseteq Created)'
<1>0. stored \cup ended \cup cut \subseteq Created /\ Created \subseteq Created'
  BY CreatedStay DEF Base
<1>1. stored' \subseteq Created'
  <2>1. stored' \subseteq Families
    BY IndexTyped
  <2> QED BY <1>0, <2>1 DEF FamLater, Created
<1>2. \A p \in Procs : req[p].todo \cup req[p].cover \subseteq Created
  BY DEF Base, ReqBase
<1>3. \A p \in Procs : req[p].at \in Refreshing \cup Switching => req[p].family \in Created
  BY DEF Base, ReqBase
<1>4. Alive \subseteq Created
  BY <1>0 DEF Alive
<1>5. CASE UNCHANGED <<ended, cut>>
  BY <1>0, <1>1, <1>5
<1>6. ASSUME NEW f \in Families, Logout(f) PROVE (ended \cup cut \subseteq Created)'
  BY <1>0, <1>6 DEF Logout, Accepts
<1>7. ASSUME NEW p \in Procs, ExchangeCreate(p) PROVE (ended \cup cut \subseteq Created)'
  <2>1. CASE UNCHANGED cut
    BY <1>0, <1>7, <2>1 DEF ExchangeCreate
  <2>2. ASSUME NEW f \in Unused, CreateFamily(f, req[p].client, req[p].code, req[p].gen), cut' \in {cut, cut \cup {f}}
        PROVE  (ended \cup cut \subseteq Created)'
    <3>1. f \in stored'
      BY <2>2 DEF CreateFamily
    <3> QED BY <1>0, <1>1, <1>7, <2>2, <3>1 DEF ExchangeCreate
  <2> QED BY <1>7, <2>1, <2>2 DEF ExchangeCreate
<1>8. ASSUME NEW p \in Procs, Rotate(p) PROVE (ended \cup cut \subseteq Created)'
  <2>1. req[p].family \in Created
    BY <1>3, <1>8 DEF Rotate, Refreshing
  <2> QED BY <1>0, <1>8, <2>1 DEF Rotate
<1>9. ASSUME NEW p \in Procs, RevocationDone(p) PROVE (ended \cup cut \subseteq Created)'
  BY <1>0, <1>2, <1>9 DEF RevocationDone
<1>10. ASSUME NEW p \in Procs, SwitchRevoke(p) PROVE (ended \cup cut \subseteq Created)'
  <2>1. req[p].family \in Created
    BY <1>3, <1>10 DEF SwitchRevoke, Switching
  <2> QED BY <1>0, <1>2, <1>10, <2>1 DEF SwitchRevoke
<1>11. ASSUME NEW p \in Procs, NEW c \in Managed, DisableClient(p, c) PROVE (ended \cup cut \subseteq Created)'
  BY <1>0, <1>4, <1>11 DEF DisableClient, AliveOf
<1>12. ASSUME NEW p \in Procs,
             \/ \E code \in Codes : ExchangeCode(p, code)
             \/ ExchangeClient(p)
             \/ ExchangeUser(p)
             \/ \E f \in Families, i \in 1..MaxTokens : BrowserRefresh(p, f, i) \/ McpRefresh(p, f, i)
             \/ McpRefreshClient(p)
             \/ McpRefreshUser(p)
             \/ ForbidUser(p)
             \/ RevokeUserSessions(p)
             \/ \E f \in Families : ChangePassword(p, f)
             \/ ListFamilies(p)
             \/ RevokeNext(p)
             \/ RevocationFails(p)
             \/ \E f \in Families, c \in Clients : SwitchClient(p, f, c)
             \/ SwitchCreate(p)
      PROVE  UNCHANGED <<ended, cut>>
  BY <1>12 DEF ExchangeCode, ExchangeClient, ExchangeUser, BrowserRefresh, McpRefresh, McpRefreshClient,
     McpRefreshUser, ForbidUser, RevokeUserSessions, ChangePassword, ListFamilies, RevokeNext, RevocationFails,
     SwitchClient, SwitchCreate
<1>13. CASE \/ UNCHANGED vars
            \/ \E c \in Managed : EnableClient(c)
            \/ RestoreUser
            \/ \E f \in Families : Expire(f)
  BY <1>5, <1>13 DEF vars, EnableClient, RestoreUser, Expire
<1> QED BY <1>1, <1>5, <1>6, <1>7, <1>8, <1>9, <1>10, <1>11, <1>12, <1>13 DEF Next

\* What every request holds is sound after every step.
LEMMA ReqStep ==
    ASSUME Base, [Next]_vars, FamKind, FamsGood', FamLater
    PROVE  req' \in [Procs -> ReqType] /\ \A q \in Procs : ReqBase(req[q])'
<1> DEFINE Goal == req' \in [Procs -> ReqType] /\ \A q \in Procs : ReqBase(req[q])'
<1>0. /\ req \in [Procs -> ReqType] /\ fam \in [Families -> FamType] /\ byClient \in [Clients -> SUBSET Families]
      /\ stored \subseteq Created /\ Created \subseteq Created' /\ Created \subseteq Families
  BY CreatedStay DEF Base, RestTyped, Created
<1>i. ASSUME NEW p \in Procs, Finish(p) PROVE Goal
  <2> PICK k : k = Idle
    OBVIOUS
  <2>1. k \in ReqType /\ ReqBase(k)'
    BY IdleGood DEF ReqBase, Idle
  <2> QED BY <1>i, <2>1, ReqMove DEF Finish
<1>m. ASSUME NEW p \in Procs, NEW k \in ReqType, ReqBase(k)', Step(p, k) PROVE Goal
  BY <1>m, ReqMove
<1>b. 0 \in 0..MaxSweeps /\ 0 \in 0..MaxTokens /\ generation \in 0..MaxSweeps
  BY BoundsAssumption DEF Base, RestTyped
<1>a. Alive \subseteq Created'
  BY <1>0 DEF Alive
<1> HIDE DEF Goal
<1>1. ASSUME NEW p \in Procs, NEW code \in Codes, ExchangeCode(p, code) PROVE Goal
  <2> PICK k : k = [Idle EXCEPT !.at = "read_client", !.code = code, !.client = CodeClient[code]]
    OBVIOUS
  <2>1. k \in ReqType /\ k.todo = {} /\ k.cover = {} /\ k.at = "read_client"
    BY <1>b, CodesAssumption DEF Idle, ReqType, Exchanging
  <2>2. ReqBase(k)'
    BY <2>1 DEF ReqBase, Refreshing, Switching
  <2> QED BY <1>1, <1>i, <1>m, <2>1, <2>2 DEF ExchangeCode
<1>2. ASSUME NEW p \in Procs, ExchangeClient(p) PROVE Goal
  <2> PICK k : k = [req[p] EXCEPT !.at = "read_user", !.gen = generation]
    OBVIOUS
  <2>1. k \in ReqType /\ k.todo = req[p].todo /\ k.cover = req[p].cover /\ k.at = "read_user"
    BY <1>0, <1>b DEF ReqType, Exchanging
  <2>2. ReqBase(k)'
    BY <1>0, <2>1 DEF ReqBase, Refreshing, Switching, Base
  <2> QED BY <1>2, <1>i, <1>m, <2>1, <2>2 DEF ExchangeClient
<1>3. ASSUME NEW p \in Procs, ExchangeUser(p) PROVE Goal
  <2> PICK k : k = [req[p] EXCEPT !.at = "create"]
    OBVIOUS
  <2>1. k \in ReqType /\ k.todo = req[p].todo /\ k.cover = req[p].cover /\ k.at = "create"
    BY <1>0 DEF ReqType, Exchanging
  <2>2. ReqBase(k)'
    BY <1>0, <2>1 DEF ReqBase, Refreshing, Switching, Base
  <2> QED BY <1>3, <1>i, <1>m, <2>1, <2>2 DEF ExchangeUser
<1>4. ASSUME NEW p \in Procs, NEW f \in Families, NEW i \in 1..MaxTokens, BrowserRefresh(p, f, i) PROVE Goal
  <2> PICK k : k = [Idle EXCEPT !.at = "rotate", !.family = f, !.token = i]
    OBVIOUS
  <2>1. k \in ReqType /\ k.todo = {} /\ k.cover = {} /\ k.at = "rotate" /\ k.family = f /\ k.token = i
    <3>1. i \in 0..MaxTokens
      BY BoundsAssumption
    <3> QED BY <1>b, <3>1, ClientsAssumption DEF Idle, ReqType, Refreshing
  <2>2. f \in Created' /\ i \in 1..fam'[f].issued
    BY <1>0, <1>4 DEF BrowserRefresh
  <2>3. ReqBase(k)'
    BY <2>1, <2>2 DEF ReqBase
  <2> QED BY <1>4, <1>m, <2>1, <2>3 DEF BrowserRefresh
<1>5. ASSUME NEW p \in Procs, NEW f \in Families, NEW i \in 1..MaxTokens, McpRefresh(p, f, i) PROVE Goal
  <2> PICK k : k = [Idle EXCEPT !.at = "mcp_client", !.family = f, !.token = i, !.gen = fam[f].gen]
    OBVIOUS
  <2>1. k \in ReqType /\ k.todo = {} /\ k.cover = {} /\ k.at = "mcp_client" /\ k.family = f /\ k.token = i
    <3>1. i \in 0..MaxTokens /\ fam[f].gen \in 0..MaxSweeps
      BY <1>0, BoundsAssumption DEF FamType
    <3> QED BY <1>b, <3>1, ClientsAssumption DEF Idle, ReqType, Refreshing
  <2>2. f \in Created' /\ i \in 1..fam'[f].issued
    BY <1>0, <1>5 DEF McpRefresh
  <2>3. ReqBase(k)'
    BY <2>1, <2>2 DEF ReqBase
  <2> QED BY <1>5, <1>m, <2>1, <2>3 DEF McpRefresh
<1>6. ASSUME NEW p \in Procs, McpRefreshClient(p) PROVE Goal
  <2> PICK k : k = [req[p] EXCEPT !.at = "mcp_user", !.gen = 0]
    OBVIOUS
  <2>1. /\ k \in ReqType /\ k.todo = req[p].todo /\ k.cover = req[p].cover /\ k.at = "mcp_user"
        /\ k.family = req[p].family /\ k.token = req[p].token
    BY <1>0, <1>b DEF ReqType, Refreshing
  <2>2. ReqBase(k)
    BY <1>6, <2>1 DEF McpRefreshClient, ReqBase, Refreshing, Switching, Base
  <2>3. ReqBase(k)'
    BY <2>1, <2>2, ReqLater
  <2> QED BY <1>6, <1>i, <1>m, <2>1, <2>3 DEF McpRefreshClient
<1>7. ASSUME NEW p \in Procs, McpRefreshUser(p) PROVE Goal
  <2> PICK k : k = [req[p] EXCEPT !.at = "rotate"]
    OBVIOUS
  <2>1. /\ k \in ReqType /\ k.todo = req[p].todo /\ k.cover = req[p].cover /\ k.at = "rotate"
        /\ k.family = req[p].family /\ k.token = req[p].token
    BY <1>0 DEF ReqType, Refreshing
  <2>2. ReqBase(k)
    BY <1>7, <2>1 DEF McpRefreshUser, ReqBase, Refreshing, Switching, Base
  <2>3. ReqBase(k)'
    BY <2>1, <2>2, ReqLater
  <2> QED BY <1>7, <1>i, <1>m, <2>1, <2>3 DEF McpRefreshUser
<1>8. ASSUME NEW p \in Procs, NEW c \in Managed, DisableClient(p, c) PROVE Goal
  <2> PICK k : k = [Idle EXCEPT !.at = "list_client", !.client = c, !.cover = AliveOf(c)]
    OBVIOUS
  <2>1. AliveOf(c) \subseteq Alive /\ AliveOf(c) \subseteq Families
    BY <1>0 DEF AliveOf, Alive
  <2>2. k \in ReqType /\ k.todo = {} /\ k.cover \subseteq Alive /\ k.at = "list_client"
    BY <1>b, <2>1, ClientsAssumption DEF Idle, ReqType, Listing
  <2>3. ReqBase(k)'
    BY <1>a, <2>2 DEF ReqBase, Refreshing, Switching
  <2>4. ASSUME NEW q \in Procs PROVE req'[q] \in ReqType /\ ReqBase(req[q])'
    <3>1. CASE q = p
      <4>1. req'[q] = k
        BY <1>8, <3>1 DEF DisableClient
      <4> QED BY <2>2, <2>3, <4>1 DEF ReqBase
    <3>2. CASE q # p
      <4> PICK b : b = (\/ req[q].late
                        \/ /\ c = McpClient /\ req[q].client = c
                           /\ req[q].at \in {"read_user", "create"})
        OBVIOUS
      <4> PICK r : r = [req[q] EXCEPT !.late = b]
        OBVIOUS
      <4>1. req'[q] = r
        BY <1>8, <3>2 DEF DisableClient
      <4>2. /\ r \in ReqType /\ r.todo = req[q].todo /\ r.cover = req[q].cover /\ r.at = req[q].at
            /\ r.family = req[q].family /\ r.token = req[q].token
        BY <1>0 DEF ReqType
      <4>3. ReqBase(r)
        BY <4>2 DEF ReqBase, Base
      <4>4. ReqBase(r)'
        BY <4>2, <4>3, ReqLater
      <4> QED BY <4>1, <4>2, <4>4 DEF ReqBase
    <3> QED BY <3>1, <3>2
  <2>5. req' \in [Procs -> ReqType]
    <3>1. req' = [q \in Procs |-> req'[q]]
      BY <1>8 DEF DisableClient
    <3> QED BY <2>4, <3>1
  <2> QED BY <2>4, <2>5 DEF Goal
<1>9. ASSUME NEW p \in Procs, ForbidUser(p) \/ RevokeUserSessions(p) PROVE Goal
  <2> PICK k : k = [Idle EXCEPT !.at = "list_user", !.cover = Alive]
    OBVIOUS
  <2>1. k \in ReqType /\ k.todo = {} /\ k.cover = Alive /\ k.at = "list_user"
    <3>1. Alive \in SUBSET Families
      BY <1>0 DEF Alive
    <3> QED BY <1>b, <3>1, ClientsAssumption DEF Idle, ReqType, Listing
  <2>2. ReqBase(k)'
    <3>1. k.todo \cup k.cover \subseteq Created'
      BY <1>a, <2>1
    <3> QED BY <2>1, <3>1 DEF ReqBase, Refreshing, Switching
  <2> QED BY <1>9, <1>m, <2>1, <2>2 DEF ForbidUser, RevokeUserSessions
<1>10. ASSUME NEW p \in Procs, NEW f \in Families, ChangePassword(p, f) PROVE Goal
  <2> PICK k : k = [Idle EXCEPT !.at = "list_others", !.family = f, !.cover = Alive \ {f}]
    OBVIOUS
  <2>1. k \in ReqType /\ k.todo = {} /\ k.cover \subseteq Alive /\ k.at = "list_others"
    <3>1. Alive \ {f} \in SUBSET Families
      BY <1>0 DEF Alive
    <3> QED BY <1>b, <3>1, ClientsAssumption DEF Idle, ReqType, Listing
  <2>2. ReqBase(k)'
    BY <1>a, <2>1 DEF ReqBase, Refreshing, Switching
  <2> QED BY <1>10, <1>m, <2>1, <2>2 DEF ChangePassword
<1>11. ASSUME NEW p \in Procs, ListFamilies(p) PROVE Goal
  <2>1. CASE req[p].at = "list_client"
    <3> PICK t : t = byClient[req[p].client] \cap stored
      OBVIOUS
    <3> PICK k : k = [req[p] EXCEPT !.at = "revoke", !.todo = t]
      OBVIOUS
    <3>1. t \subseteq Created /\ t \in SUBSET Families
      BY <1>0
    <3>2. k \in ReqType /\ k.todo = t /\ k.cover = req[p].cover /\ k.at = "revoke"
      BY <1>0, <3>1 DEF ReqType, Revoking
    <3>3. ReqBase(k)'
      BY <1>0, <3>1, <3>2 DEF ReqBase, Refreshing, Switching, Base
    <3> QED BY <1>11, <1>m, <2>1, <3>2, <3>3 DEF ListFamilies
  <2>2. CASE req[p].at \in {"list_user", "list_others"}
    <3> PICK t : t = (byUser \cap stored) \ {req[p].family}
      OBVIOUS
    <3> PICK a \in {"revoke", "revoke_each"} : a = IF req[p].at = "list_user" THEN "revoke" ELSE "revoke_each"
      OBVIOUS
    <3> PICK k : k = [req[p] EXCEPT !.at = a, !.todo = t]
      OBVIOUS
    <3>1. t \subseteq Created /\ t \in SUBSET Families
      BY <1>0
    <3>2. k \in ReqType /\ k.todo = t /\ k.cover = req[p].cover /\ k.at = a
      BY <1>0, <3>1 DEF ReqType, Revoking
    <3>3. ReqBase(k)'
      BY <1>0, <3>1, <3>2 DEF ReqBase, Refreshing, Switching, Base
    <3>4. Step(p, k)
      BY <1>11, <2>2 DEF ListFamilies, Step
    <3> QED BY <1>m, <3>2, <3>3, <3>4
  <2> QED BY <1>11, <2>1, <2>2 DEF ListFamilies
<1>12. ASSUME NEW p \in Procs, NEW t, t \subseteq req[p].todo, NEW v, v \subseteq req[p].cover,
              Step(p, [req[p] EXCEPT !.todo = t, !.cover = v]),
              req[p].at \in {"revoke", "revoke_each"}
       PROVE  Goal
  <2> PICK k : k = [req[p] EXCEPT !.todo = t, !.cover = v]
    OBVIOUS
  <2>1. k \in ReqType /\ k.todo = t /\ k.cover = v /\ k.at = req[p].at
    BY <1>0, <1>12 DEF ReqType
  <2>2. ReqBase(k)'
    BY <1>0, <1>12, <2>1 DEF ReqBase, Refreshing, Switching, Base
  <2> QED BY <1>12, <1>m, <2>1, <2>2
<1>13. ASSUME NEW p \in Procs, RevokeNext(p) PROVE Goal
  <2> PICK f \in req[p].todo : Step(p, [req[p] EXCEPT !.todo = @ \ {f}])
    BY <1>13 DEF RevokeNext
  <2> PICK t, v : t = req[p].todo \ {f} /\ v = req[p].cover
    OBVIOUS
  <2>1. [req[p] EXCEPT !.todo = @ \ {f}] = [req[p] EXCEPT !.todo = t, !.cover = v]
    BY <1>0 DEF ReqType
  <2> QED BY <1>12, <1>13, <2>1 DEF RevokeNext
<1>14. ASSUME NEW p \in Procs, RevocationFails(p) PROVE Goal
  <2> PICK f \in req[p].todo : StopAtFailure(p, f)
    BY <1>14 DEF RevocationFails
  <2> PICK t, v : t = req[p].todo \ {f} /\ v = req[p].cover \ {f}
    OBVIOUS
  <2>1. [req[p] EXCEPT !.todo = @ \ {f}, !.cover = @ \ {f}] = [req[p] EXCEPT !.todo = t, !.cover = v]
    OBVIOUS
  <2> QED BY <1>12, <1>14, <1>i, <2>1 DEF RevocationFails, StopAtFailure
<1>15. ASSUME NEW p \in Procs, NEW f \in Families, NEW c \in Clients, SwitchClient(p, f, c) PROVE Goal
  <2> PICK k : k = [Idle EXCEPT !.at = "switch_create", !.family = f, !.client = c]
    OBVIOUS
  <2>1. k \in ReqType /\ k.todo = {} /\ k.cover = {} /\ k.at = "switch_create" /\ k.family = f
    BY <1>b DEF Idle, ReqType, Switching
  <2>2. f \in Created'
    BY <1>0, <1>15 DEF SwitchClient, Accepts
  <2>3. ReqBase(k)'
    BY <2>1, <2>2 DEF ReqBase, Refreshing
  <2> QED BY <1>15, <1>m, <2>1, <2>3 DEF SwitchClient
<1>16. ASSUME NEW p \in Procs, SwitchCreate(p) PROVE Goal
  <2>1. ASSUME NEW f \in Unused, CreateFamily(f, req[p].client, NoCode, 0),
               Step(p, [req[p] EXCEPT !.at = "switch_revoke", !.todo = {f}])
        PROVE  Goal
    <3> PICK k : k = [req[p] EXCEPT !.at = "switch_revoke", !.todo = {f}]
      OBVIOUS
    <3>1. f \in Families /\ f \in Created'
      <4>1. f \in stored' /\ f \in Families
        BY <2>1 DEF CreateFamily, Unused
      <4> QED BY <4>1, HistoryStep
    <3>2. k \in ReqType /\ k.todo = {f} /\ k.cover = req[p].cover /\ k.at = "switch_revoke" /\ k.family = req[p].family
      BY <1>0, <3>1 DEF ReqType, Switching
    <3>3. req[p].family \in Created /\ req[p].cover \subseteq Created
      BY <1>16 DEF SwitchCreate, Base, ReqBase, Switching
    <3>4. ReqBase(k)'
      BY <1>0, <3>1, <3>2, <3>3 DEF ReqBase, Refreshing
    <3> QED BY <1>m, <2>1, <3>2, <3>4
  <2> QED BY <1>16, <1>i, <2>1 DEF SwitchCreate
<1>17. ASSUME UNCHANGED req PROVE Goal
  BY <1>17, ReqStay DEF Goal
<1>18. ASSUME NEW p \in Procs, ExchangeCreate(p) \/ Rotate(p) \/ RevocationDone(p) \/ SwitchRevoke(p) PROVE Goal
  BY <1>18, <1>i DEF ExchangeCreate, Rotate, RevocationDone, SwitchRevoke
<1>19. ASSUME \/ UNCHANGED vars
              \/ \E c \in Managed : EnableClient(c)
              \/ RestoreUser
              \/ \E f \in Families : Logout(f) \/ Expire(f)
       PROVE  UNCHANGED req
  BY <1>19 DEF vars, EnableClient, RestoreUser, Logout, Expire
<1>20. Goal
  BY <1>1, <1>2, <1>3, <1>4, <1>5, <1>6, <1>7, <1>8, <1>9, <1>10, <1>11, <1>13, <1>14, <1>15, <1>16,
     <1>17, <1>18, <1>19 DEF Next
<1> QED BY <1>20 DEF Goal

\* Init establishes the base invariant.
LEMMA BaseInit == Init => Base
<1> SUFFICES ASSUME Init PROVE Base
  OBVIOUS
<1>0. 0 \in 0..MaxSweeps /\ 0 \in 0..MaxTokens /\ 0 \in 0..MaxFaults /\ 0 \in 0..0
  BY BoundsAssumption
<1>1. RestTyped
  BY <1>0 DEF Init, RestTyped
<1>2. Blank \in FamType
  BY <1>0, ClientsAssumption DEF Blank, FamType
<1>3. fam = [f \in Families |-> Blank] /\ fam \in [Families -> FamType]
  BY <1>2 DEF Init
<1>4. Idle \in ReqType
  BY IdleGood
<1>5. req = [p \in Procs |-> Idle] /\ req \in [Procs -> ReqType]
  BY <1>4 DEF Init
<1>6. ASSUME NEW f \in Families PROVE FamSound(f)
  <2>1. fam[f].issued = 0 /\ fam[f].spent = {} /\ fam[f].dead = {} /\ fam[f].access = {}
    BY <1>3 DEF Blank
  <2>2. 1..0 = {}
    OBVIOUS
  <2> QED BY <2>1, <2>2 DEF FamSound, LiveRefresh
<1>7. ASSUME NEW p \in Procs PROVE ReqBase(req[p])
  <2>1. req[p].at = "idle" /\ req[p].todo = {} /\ req[p].cover = {}
    BY <1>5 DEF Idle
  <2> QED BY <2>1 DEF ReqBase, Refreshing, Switching
<1>8. stored \cup ended \cup cut \subseteq Created
  BY DEF Init
<1> QED BY <1>1, <1>3, <1>5, <1>6, <1>7, <1>8 DEF Base

\* The base invariant is inductive on its own.
LEMMA BaseStep ==
    ASSUME Base, [Next]_vars
    PROVE  Base' /\ FamKind /\ FamLater
<1>1. FamKind
  BY StepKind
<1>2. FamsGood' /\ FamLater
  BY <1>1, FamKept
<1>3. RestTyped'
  BY <1>1, RestStep
<1>4. (stored \cup ended \cup cut \subseteq Created)'
  BY <1>1, <1>2, HistoryStep
<1>5. req' \in [Procs -> ReqType] /\ \A q \in Procs : ReqBase(req[q])'
  BY <1>1, <1>2, ReqStep
<1> QED BY <1>1, <1>2, <1>3, <1>4, <1>5 DEF Base, FamsGood

\* The records of families and requests are sound in every reachable state.
THEOREM BaseInvariant == Spec => []Base
<1>1. Base /\ [Next]_vars => Base'
  BY BaseStep
<1> QED BY <1>1, BaseInit, PTL DEF Spec

\* Every record keeps its range, and spent tokens are dead
\* (browser_token_create_family, browser_token_refresh).
THEOREM FamiliesTyped == Spec => []TypeOK
<1>1. Base => TypeOK
  <2> SUFFICES ASSUME Base PROVE TypeOK
    OBVIOUS
  <2>1. /\ enabled \in [Clients -> BOOLEAN] /\ forbidden \in BOOLEAN /\ codes \subseteq Codes
        /\ byClient \in [Clients -> SUBSET Families] /\ byUser \subseteq Families
        /\ sweeps \in 0..MaxSweeps /\ faults \in 0..MaxFaults
    BY DEF Base, RestTyped
  <2>2. generation \in 0..MaxSweeps
    BY BoundsAssumption DEF Base, RestTyped
  <2>3. /\ fam \in [Families -> FamType]
        /\ \A f \in Families : fam[f].spent \subseteq fam[f].dead
        /\ \A f \in Families : fam[f].dead \cup fam[f].access \subseteq 1..fam[f].issued
    BY DEF Base, FamSound
  <2>4. ASSUME NEW p \in Procs
        PROVE  req[p].family \in Families \cup {NoFamily} /\ req[p].todo \subseteq Created
    BY DEF Base, ReqType, ReqBase
  <2>5. stored \subseteq Created /\ ended \subseteq Created /\ cut \subseteq Created
    BY DEF Base
  <2> QED BY <2>1, <2>2, <2>3, <2>4, <2>5 DEF TypeOK, FamType, Created
<1> QED BY <1>1, BaseInvariant, PTL

\* Rotation never forks a family, however many requests read the same token
\* before one of them calls browser_token_refresh.
THEOREM RotationNeverForks == Spec => []OneLiveRefresh
<1>1. Base => OneLiveRefresh
  <2> SUFFICES ASSUME Base, NEW f \in Families PROVE Cardinality(LiveRefresh(f)) <= 1
    BY DEF OneLiveRefresh
  <2>1. LiveRefresh(f) \subseteq {fam[f].issued}
    BY DEF Base, FamSound
  <2>2. LiveRefresh(f) = {} \/ LiveRefresh(f) = {fam[f].issued}
    BY <2>1
  <2>3. Cardinality({}) = 0 /\ Cardinality({fam[f].issued}) = 1
    BY FS_EmptySet, FS_Singleton
  <2> QED BY <2>2, <2>3
<1> QED BY <1>1, BaseInvariant, PTL

-----------------------------------------------------------------------------
(* The sets that list families *)

\* A family that is alive is listed after every step.
LEMMA IndexStep ==
    ASSUME Base, IndexedWhileLive, [Next]_vars
    PROVE  IndexedWhileLive'
<1>0. /\ FamKind /\ FamLater /\ Base'
  BY BaseStep
<1>1. fam \in [Families -> FamType] /\ stored \subseteq Families /\ stored' \subseteq Families
      /\ byClient \in [Clients -> SUBSET Families]
  BY <1>0 DEF Base, Created, RestTyped
<1> SUFFICES ASSUME NEW f \in Alive' PROVE f \in byUser' /\ f \in byClient'[fam'[f].client]
  BY DEF IndexedWhileLive
<1>2. f \in Families /\ fam[f].client \in Clients /\ f \in stored' /\ ~fam'[f].revoked
  BY <1>1 DEF Alive, FamType
<1>3. CASE Pruned
  <2>1. f \in Alive /\ f \in stored /\ fam'[f].client = fam[f].client
    BY <1>3 DEF Pruned, Alive
  <2> QED BY <1>2, <1>3, <2>1 DEF Pruned, IndexedWhileLive
<1>4. CASE Revoked
  <2>0. stored' = stored
    BY <1>4 DEF Revoked
  <2> PICK g \in Families : RevokeFamily(g)
    BY <1>4 DEF Revoked
  <2>1. f # g
    BY <1>2, <2>0, RevokeDoes
  <2>2. fam'[f] = fam[f]
    BY <1>2, <2>0, <2>1, RevokeDoes
  <2>3. f \in Alive
    BY <1>2, <2>0, <2>2 DEF Alive
  <2> QED BY <1>2, <2>1, <2>2, <2>3, RevokeUnlists DEF IndexedWhileLive
<1>5. CASE RotatedOne
  <2>0. stored' = stored /\ byClient' = byClient /\ byUser' = byUser
    BY <1>5 DEF RotatedOne, index
  <2>1. fam'[f].client = fam[f].client /\ f \in Alive
    BY <1>0, <1>2, <2>0 DEF FamLater, Base, Created
  <2> QED BY <2>0, <2>1 DEF IndexedWhileLive
<1>6. CASE CreatedOne
  <2> PICK g \in Unused, c \in Clients, code \in Codes \cup {NoCode}, n \in 0..MaxSweeps :
        CreateFamily(g, c, code, n)
    BY <1>6 DEF CreatedOne
  <2>1. /\ fam'[g].client = c /\ stored' = stored \cup {g} /\ byUser' = byUser \cup {g}
        /\ \A h \in Families \ {g} : fam'[h] = fam[h]
        /\ g \in byClient'[c] /\ \A d \in Clients : byClient[d] \subseteq byClient'[d]
    BY CreateDoes
  <2>2. CASE f = g
    BY <2>1, <2>2
  <2>3. CASE f # g
    <3>1. fam'[f] = fam[f] /\ f \in Alive
      BY <1>2, <2>1, <2>3 DEF Alive
    <3> QED BY <1>2, <2>1, <3>1 DEF IndexedWhileLive
  <2> QED BY <2>2, <2>3
<1>7. CASE \E g \in Families : Expire(g)
  <2>0. byClient' = byClient /\ byUser' = byUser /\ stored' \subseteq stored
    BY <1>7 DEF Expire, index
  <2>1. fam'[f].client = fam[f].client /\ f \in Alive
    BY <1>0, <1>2, <2>0 DEF FamLater, Base, Created
  <2> QED BY <2>0, <2>1 DEF IndexedWhileLive
<1> QED BY <1>0, <1>3, <1>4, <1>5, <1>6, <1>7 DEF FamKind

\* Every family with a usable token is in both sets, so a later revocation
\* finds it (browser_token_create_family, prune_stale_family_ids).
THEOREM LiveIsListed == Spec => []IndexedWhileLive
<1>1. Init => IndexedWhileLive
  BY DEF Init, IndexedWhileLive, Alive
<1>2. Base /\ IndexedWhileLive /\ [Next]_vars => IndexedWhileLive'
  BY IndexStep
<1> QED BY <1>1, <1>2, BaseInvariant, PTL DEF Spec

-----------------------------------------------------------------------------
(* Bulk revocations *)

SweptReq(r) == Covered(r) /\ (r.cover # {} => r.at \in Listing \cup Revoking)

\* No family of a sweep comes back to life.
LEMMA SweepLater ==
    ASSUME Base, FamLater, NEW r \in ReqType, ReqBase(r), SweptReq(r)
    PROVE  SweptReq(r)'
<1>1. ASSUME NEW f \in r.cover \cap Alive' PROVE f \in Alive /\ fam'[f].client = fam[f].client
  BY DEF ReqBase, FamLater, Created
<1> QED BY <1>1 DEF SweptReq, Covered

\* One request moves; the sweeps of the others still find their families.
LEMMA SweepMove ==
    ASSUME Base, FamLater, \A q \in Procs : SweptReq(req[q]), NEW p \in Procs, NEW k, SweptReq(k)',
           Step(p, k)
    PROVE  \A q \in Procs : SweptReq(req[q])'
<1>1. req'[p] = k /\ \A q \in Procs \ {p} : req'[q] = req[q]
  BY DEF Base, Step
<1> SUFFICES ASSUME NEW q \in Procs PROVE SweptReq(req[q])'
  OBVIOUS
<1> PICK r : r = req'[q]
  OBVIOUS
<1>2. SweptReq(r)'
  <2>1. CASE q = p
    BY <1>1, <2>1
  <2>2. CASE q # p
    <3>1. r \in ReqType /\ ReqBase(r) /\ SweptReq(r)
      BY <1>1, <2>2 DEF Base
    <3> QED BY <3>1, SweepLater
  <2> QED BY <2>1, <2>2
<1> QED BY <1>2 DEF SweptReq, Covered

\* A request that covers nothing has nothing to find.
LEMMA NoCover ==
    ASSUME NEW k, k.cover = {}
    PROVE  SweptReq(k)'
BY DEF SweptReq, Covered

\* A revoked family is not alive, nor is one whose keys are gone.
LEMMA RevokeKills ==
    ASSUME Base, NEW f \in Families, RevokeFamily(f), stored' = stored
    PROVE  f \notin Alive'
BY RevokeDoes DEF Alive

\* Nothing that was ended is alive after a step.
LEMMA EndedStep ==
    ASSUME Base, Swept, [Next]_vars
    PROVE  (ended \cap Alive = {})'
<1>0. FamLater /\ ended \cap Alive = {} /\ ended \subseteq Created
  BY BaseStep DEF Swept, Base
<1>1. ended \cap Alive' = {}
  BY <1>0 DEF FamLater, Created
<1>2. ASSUME UNCHANGED ended PROVE (ended \cap Alive = {})'
  BY <1>1, <1>2
<1>3. ASSUME NEW f \in Families, Logout(f) PROVE (ended \cap Alive = {})'
  <2>1. RevokeFamily(f) /\ stored' = stored /\ ended' = ended \cup {f}
    BY <1>3 DEF Logout
  <2>2. f \notin Alive'
    BY <2>1, RevokeKills
  <2> QED BY <1>1, <2>1, <2>2
<1>4. ASSUME NEW p \in Procs, Rotate(p) PROVE (ended \cap Alive = {})'
  <2>1. req[p].family \in Families
    BY <1>4 DEF Rotate, Base, ReqBase, Refreshing, Created
  <2>2. UNCHANGED ended \/ (RevokeFamily(req[p].family) /\ stored' = stored /\ ended' = ended \cup {req[p].family})
    BY <1>4 DEF Rotate
  <2>3. RevokeFamily(req[p].family) /\ stored' = stored => req[p].family \notin Alive'
    BY <2>1, RevokeKills
  <2> QED BY <1>1, <1>2, <2>2, <2>3
<1>5. ASSUME NEW p \in Procs, SwitchRevoke(p) PROVE (ended \cap Alive = {})'
  <2>1. req[p].family \in Families /\ req[p].todo \subseteq Families /\ stored' = stored
    BY <1>5 DEF SwitchRevoke, Base, ReqBase, Switching, Created
  <2>2. UNCHANGED ended \/ \E f \in Families : RevokeFamily(f) /\ ended' = ended \cup {f}
    BY <1>5, <2>1 DEF SwitchRevoke
  <2> QED BY <1>1, <1>2, <2>1, <2>2, RevokeKills
<1>6. ASSUME NEW p \in Procs, RevocationDone(p) PROVE (ended \cap Alive = {})'
  <2>1. req[p].cover \cap Alive = {}
    BY <1>6 DEF RevocationDone, Swept, Covered, Revoking
  <2>2. Alive' = Alive /\ ended' = ended \cup req[p].cover
    BY <1>6 DEF RevocationDone, Alive
  <2> QED BY <1>1, <2>1, <2>2
<1>7. ASSUME NEW p \in Procs,
             \/ \E code \in Codes : ExchangeCode(p, code)
             \/ ExchangeClient(p)
             \/ ExchangeUser(p)
             \/ ExchangeCreate(p)
             \/ \E f \in Families, i \in 1..MaxTokens : BrowserRefresh(p, f, i) \/ McpRefresh(p, f, i)
             \/ McpRefreshClient(p)
             \/ McpRefreshUser(p)
             \/ \E c \in Managed : DisableClient(p, c)
             \/ ForbidUser(p)
             \/ RevokeUserSessions(p)
             \/ \E f \in Families : ChangePassword(p, f)
             \/ ListFamilies(p)
             \/ RevokeNext(p)
             \/ RevocationFails(p)
             \/ \E f \in Families, c \in Clients : SwitchClient(p, f, c)
             \/ SwitchCreate(p)
      PROVE  UNCHANGED ended
  BY <1>7 DEF ExchangeCode, ExchangeClient, ExchangeUser, ExchangeCreate, BrowserRefresh, McpRefresh,
     McpRefreshClient, McpRefreshUser, DisableClient, ForbidUser, RevokeUserSessions, ChangePassword,
     ListFamilies, RevokeNext, RevocationFails, SwitchClient, SwitchCreate
<1>8. ASSUME \/ UNCHANGED vars
             \/ \E c \in Managed : EnableClient(c)
             \/ RestoreUser
             \/ \E f \in Families : Expire(f)
      PROVE  UNCHANGED ended
  BY <1>8 DEF vars, EnableClient, RestoreUser, Expire
<1> QED BY <1>2, <1>3, <1>4, <1>5, <1>6, <1>7, <1>8 DEF Next

\* Every sweep still finds what it covers after a step.
LEMMA SweepStep ==
    ASSUME Base, IndexedWhileLive, Swept, [Next]_vars
    PROVE  \A q \in Procs : SweptReq(req[q])'
<1> DEFINE Goal == \A q \in Procs : SweptReq(req[q])'
<1>0. FamLater /\ req \in [Procs -> ReqType] /\ \A q \in Procs : SweptReq(req[q]) /\ ReqBase(req[q])
  BY BaseStep DEF Base, Swept, SweptReq
<1>m. ASSUME NEW p \in Procs, NEW k, SweptReq(k)', Step(p, k) PROVE Goal
  BY <1>0, <1>m, SweepMove
<1>n. ASSUME NEW p \in Procs, NEW k, k.cover = {}, Step(p, k) PROVE Goal
  BY <1>m, <1>n, NoCover
<1>i. ASSUME NEW p \in Procs, Finish(p) PROVE Goal
  <2> PICK k : k = Idle
    OBVIOUS
  <2>1. k.cover = {}
    BY DEF Idle
  <2> QED BY <1>i, <1>n, <2>1 DEF Finish
<1>s. ASSUME UNCHANGED req PROVE Goal
  <2> SUFFICES ASSUME NEW q \in Procs PROVE SweptReq(req[q])'
    OBVIOUS
  <2> PICK r : r = req[q]
    OBVIOUS
  <2>1. SweptReq(r)'
    BY <1>0, SweepLater
  <2> QED BY <1>s, <2>1 DEF SweptReq, Covered
<1> HIDE DEF Goal
\* a request that is not a sweep keeps an empty cover
<1>e. \A p \in Procs : req[p].at \notin Listing \cup Revoking => req[p].cover = {}
  BY <1>0 DEF SweptReq
<1>1. ASSUME NEW p \in Procs, NEW code \in Codes, ExchangeCode(p, code) PROVE Goal
  <2> PICK k : k = [Idle EXCEPT !.at = "read_client", !.code = code, !.client = CodeClient[code]]
    OBVIOUS
  <2>1. k.cover = {}
    BY DEF Idle
  <2> QED BY <1>1, <1>i, <1>n, <2>1 DEF ExchangeCode
<1>2. ASSUME NEW p \in Procs, ExchangeClient(p) PROVE Goal
  <2> PICK k : k = [req[p] EXCEPT !.at = "read_user", !.gen = generation]
    OBVIOUS
  <2>1. k.cover = {}
    BY <1>0, <1>2, <1>e DEF ExchangeClient, ReqType, Listing, Revoking
  <2> QED BY <1>2, <1>i, <1>n, <2>1 DEF ExchangeClient
<1>3. ASSUME NEW p \in Procs, ExchangeUser(p) PROVE Goal
  <2> PICK k : k = [req[p] EXCEPT !.at = "create"]
    OBVIOUS
  <2>1. k.cover = {}
    BY <1>0, <1>3, <1>e DEF ExchangeUser, ReqType, Listing, Revoking
  <2> QED BY <1>3, <1>i, <1>n, <2>1 DEF ExchangeUser
<1>4. ASSUME NEW p \in Procs, NEW f \in Families, NEW i \in 1..MaxTokens, BrowserRefresh(p, f, i) PROVE Goal
  <2> PICK k : k = [Idle EXCEPT !.at = "rotate", !.family = f, !.token = i]
    OBVIOUS
  <2>1. k.cover = {}
    BY DEF Idle
  <2> QED BY <1>4, <1>n, <2>1 DEF BrowserRefresh
<1>5. ASSUME NEW p \in Procs, NEW f \in Families, NEW i \in 1..MaxTokens, McpRefresh(p, f, i) PROVE Goal
  <2> PICK k : k = [Idle EXCEPT !.at = "mcp_client", !.family = f, !.token = i, !.gen = fam[f].gen]
    OBVIOUS
  <2>1. k.cover = {}
    BY DEF Idle
  <2> QED BY <1>5, <1>n, <2>1 DEF McpRefresh
<1>6. ASSUME NEW p \in Procs, McpRefreshClient(p) PROVE Goal
  <2> PICK k : k = [req[p] EXCEPT !.at = "mcp_user", !.gen = 0]
    OBVIOUS
  <2>1. k.cover = {}
    BY <1>0, <1>6, <1>e DEF McpRefreshClient, ReqType, Listing, Revoking
  <2> QED BY <1>6, <1>i, <1>n, <2>1 DEF McpRefreshClient
<1>7. ASSUME NEW p \in Procs, McpRefreshUser(p) PROVE Goal
  <2> PICK k : k = [req[p] EXCEPT !.at = "rotate"]
    OBVIOUS
  <2>1. k.cover = {}
    BY <1>0, <1>7, <1>e DEF McpRefreshUser, ReqType, Listing, Revoking
  <2> QED BY <1>7, <1>i, <1>n, <2>1 DEF McpRefreshUser
<1>8. ASSUME NEW p \in Procs, NEW c \in Managed, DisableClient(p, c) PROVE Goal
  <2> SUFFICES ASSUME NEW q \in Procs PROVE SweptReq(req[q])'
    BY DEF Goal
  <2>0. fam' = fam /\ stored' = stored /\ Alive' = Alive
    BY <1>8 DEF DisableClient, Alive
  <2>1. CASE q = p
    <3> PICK k : k = [Idle EXCEPT !.at = "list_client", !.client = c, !.cover = AliveOf(c)]
      OBVIOUS
    <3>1. req'[q] = k
      BY <1>8, <2>1 DEF DisableClient
    <3>2. k.cover = AliveOf(c) /\ k.at = "list_client" /\ k.client = c
      BY DEF Idle
    <3>3. SweptReq(k)'
      BY <2>0, <3>2 DEF SweptReq, Covered, AliveOf, Listing, Revoking
    <3> QED BY <3>1, <3>3 DEF SweptReq, Covered
  <2>2. CASE q # p
    <3> PICK b : b = (\/ req[q].late
                      \/ /\ c = McpClient /\ req[q].client = c
                         /\ req[q].at \in {"read_user", "create"})
      OBVIOUS
    <3> PICK r : r = [req[q] EXCEPT !.late = b]
      OBVIOUS
    <3>1. req'[q] = r
      BY <1>8, <2>2 DEF DisableClient
    <3>2. /\ r.cover = req[q].cover /\ r.at = req[q].at /\ r.todo = req[q].todo
          /\ r.client = req[q].client /\ r.family = req[q].family
      BY <1>0 DEF ReqType
    <3>3. SweptReq(r)'
      BY <1>0, <2>0, <3>2 DEF SweptReq, Covered
    <3> QED BY <3>1, <3>3 DEF SweptReq, Covered
  <2> QED BY <2>1, <2>2
<1>9. ASSUME NEW p \in Procs, ForbidUser(p) \/ RevokeUserSessions(p) PROVE Goal
  <2> PICK k : k = [Idle EXCEPT !.at = "list_user", !.cover = Alive]
    OBVIOUS
  <2>1. k.cover = Alive /\ k.at = "list_user" /\ k.family = NoFamily
    BY DEF Idle
  <2>2. Alive' = Alive /\ NoFamily \notin Alive
    BY <1>9, NamesAssumption DEF ForbidUser, RevokeUserSessions, Alive, Base, Created
  <2>3. SweptReq(k)'
    BY <2>1, <2>2 DEF SweptReq, Covered, Listing, Revoking
  <2> QED BY <1>9, <1>m, <2>3 DEF ForbidUser, RevokeUserSessions
<1>10. ASSUME NEW p \in Procs, NEW f \in Families, ChangePassword(p, f) PROVE Goal
  <2> PICK k : k = [Idle EXCEPT !.at = "list_others", !.family = f, !.cover = Alive \ {f}]
    OBVIOUS
  <2>1. k.cover = Alive \ {f} /\ k.at = "list_others" /\ k.family = f
    BY DEF Idle
  <2>2. SweptReq(k)'
    BY <2>1 DEF SweptReq, Covered, Listing, Revoking
  <2> QED BY <1>10, <1>m, <2>2 DEF ChangePassword
<1>11. ASSUME NEW p \in Procs, ListFamilies(p) PROVE Goal
  <2>0. /\ Alive' = Alive /\ Alive \subseteq stored /\ Covered(req[p])
        /\ \A f \in Alive : f \in byUser /\ f \in byClient[fam[f].client]
    BY <1>0, <1>11 DEF ListFamilies, Alive, IndexedWhileLive, SweptReq
  <2>1. CASE req[p].at = "list_client"
    <3> PICK t : t = byClient[req[p].client] \cap stored
      OBVIOUS
    <3> PICK k : k = [req[p] EXCEPT !.at = "revoke", !.todo = t]
      OBVIOUS
    <3>1. k.todo = t /\ k.cover = req[p].cover /\ k.at = "revoke"
      BY <1>0 DEF ReqType
    <3>2. SweptReq(k)'
      BY <2>0, <2>1, <3>1 DEF SweptReq, Covered, Revoking
    <3> QED BY <1>11, <1>m, <2>1, <3>2 DEF ListFamilies
  <2>2. CASE req[p].at \in {"list_user", "list_others"}
    <3> PICK t : t = (byUser \cap stored) \ {req[p].family}
      OBVIOUS
    <3> PICK a \in {"revoke", "revoke_each"} : a = IF req[p].at = "list_user" THEN "revoke" ELSE "revoke_each"
      OBVIOUS
    <3> PICK k : k = [req[p] EXCEPT !.at = a, !.todo = t]
      OBVIOUS
    <3>1. k.todo = t /\ k.cover = req[p].cover /\ k.at = a
      BY <1>0 DEF ReqType
    <3>2. SweptReq(k)'
      BY <2>0, <2>2, <3>1 DEF SweptReq, Covered, Revoking
    <3>3. Step(p, k)
      BY <1>11, <2>2 DEF ListFamilies, Step
    <3> QED BY <1>m, <3>2, <3>3
  <2> QED BY <1>11, <2>1, <2>2 DEF ListFamilies
<1>12. ASSUME NEW p \in Procs, RevokeNext(p) PROVE Goal
  <2> PICK f \in req[p].todo : RevokeFamily(f) /\ Step(p, [req[p] EXCEPT !.todo = @ \ {f}])
    BY <1>12 DEF RevokeNext
  <2> PICK r : r = req[p]
    OBVIOUS
  <2> PICK k : k = [req[p] EXCEPT !.todo = @ \ {f}]
    OBVIOUS
  <2>1. k.todo = r.todo \ {f} /\ k.cover = r.cover /\ k.at = r.at /\ k.at \in Revoking
    BY <1>0, <1>12 DEF ReqType, RevokeNext, Revoking
  <2>2. f \notin Alive'
    <3>1. f \in Families /\ stored' = stored
      BY <1>12 DEF RevokeNext, Base, ReqType
    <3> QED BY <3>1, RevokeKills
  <2>3. SweptReq(r)'
    BY <1>0, SweepLater
  <2>4. SweptReq(k)'
    BY <2>1, <2>2, <2>3 DEF SweptReq, Covered, Revoking
  <2> QED BY <1>m, <2>4
<1>13. ASSUME NEW p \in Procs, RevocationFails(p) PROVE Goal
  <2> PICK f \in req[p].todo : StopAtFailure(p, f)
    BY <1>13 DEF RevocationFails
  <2> PICK k : k = [req[p] EXCEPT !.todo = @ \ {f}, !.cover = @ \ {f}]
    OBVIOUS
  <2>1. /\ k.todo = req[p].todo \ {f} /\ k.cover = req[p].cover \ {f} /\ k.at = req[p].at /\ k.at \in Revoking
    BY <1>0, <1>13 DEF ReqType, RevocationFails, Revoking
  <2>2. Alive' = Alive
    BY <1>13 DEF RevocationFails, Alive
  <2>3. SweptReq(k)'
    BY <1>0, <2>1, <2>2 DEF SweptReq, Covered, Revoking
  <2> QED BY <1>i, <1>m, <2>3 DEF StopAtFailure
<1>14. ASSUME NEW p \in Procs, NEW f \in Families, NEW c \in Clients, SwitchClient(p, f, c) PROVE Goal
  <2> PICK k : k = [Idle EXCEPT !.at = "switch_create", !.family = f, !.client = c]
    OBVIOUS
  <2>1. k.cover = {}
    BY DEF Idle
  <2> QED BY <1>14, <1>n, <2>1 DEF SwitchClient
<1>15. ASSUME NEW p \in Procs, SwitchCreate(p) PROVE Goal
  <2>1. ASSUME NEW f \in Unused, Step(p, [req[p] EXCEPT !.at = "switch_revoke", !.todo = {f}]) PROVE Goal
    <3> PICK k : k = [req[p] EXCEPT !.at = "switch_revoke", !.todo = {f}]
      OBVIOUS
    <3>1. k.cover = {}
      BY <1>0, <1>15, <1>e DEF SwitchCreate, ReqType, Listing, Revoking
    <3> QED BY <1>n, <2>1, <3>1
  <2> QED BY <1>15, <1>i, <2>1 DEF SwitchCreate
<1>16. ASSUME NEW p \in Procs, ExchangeCreate(p) \/ Rotate(p) \/ RevocationDone(p) \/ SwitchRevoke(p) PROVE Goal
  BY <1>16, <1>i DEF ExchangeCreate, Rotate, RevocationDone, SwitchRevoke
<1>17. ASSUME \/ UNCHANGED vars
              \/ \E c \in Managed : EnableClient(c)
              \/ RestoreUser
              \/ \E f \in Families : Logout(f) \/ Expire(f)
       PROVE  UNCHANGED req
  BY <1>17 DEF vars, EnableClient, RestoreUser, Logout, Expire
<1>18. Goal
  BY <1>1, <1>2, <1>3, <1>4, <1>5, <1>6, <1>7, <1>8, <1>9, <1>10, <1>11, <1>12, <1>13, <1>14, <1>15, <1>16,
     <1>17, <1>s DEF Next
<1> QED BY <1>18 DEF Goal

\* A family some finished operation ended never has a usable token again, and
\* a sweep that reports success reached every family alive when it began
\* (revoke_family_data, revoke_client_families, revoke_user_families).
THEOREM EndedForGood == Spec => []EndedStaysDead
<1>1. Init => Swept
  BY DEF Init, Swept, Covered, Idle
<1>2. Base /\ IndexedWhileLive /\ Swept /\ [Next]_vars => Swept'
  BY EndedStep, SweepStep DEF Swept, SweptReq
<1>3. Base /\ Swept => EndedStaysDead
  <2> SUFFICES ASSUME Base, Swept, NEW f \in ended PROVE fam[f].access = {} /\ LiveRefresh(f) = {}
    BY DEF EndedStaysDead
  <2>1. f \in Families /\ f \notin Alive
    BY DEF Base, Created, Swept
  <2>2. FamSound(f) /\ (f \notin stored \/ fam[f].revoked)
    BY <2>1 DEF Base, Alive
  <2> QED BY <2>2 DEF FamSound, LiveRefresh
<1> QED BY <1>1, <1>2, <1>3, BaseInvariant, LiveIsListed, PTL DEF Spec

-----------------------------------------------------------------------------
(* Authorization codes *)

Early == {"read_user", "create"}

\* A step that adds no key leaves every family its client and its code.
LEMMA NoNew ==
    ASSUME Base, FamKind, stored' \subseteq stored
    PROVE  \A f \in Families : /\ fam'[f].client = fam[f].client /\ fam'[f].code = fam[f].code
                               /\ fam'[f].gen \in {0, fam[f].gen} /\ (f \in Created' => f \in Created)
<1>0. FamLater
  BY FamKept
<1>1. CASE Pruned
  BY <1>1 DEF Pruned, Created, Unused
<1>2. CASE Revoked
  <2> PICK f \in Families : RevokeFamily(f) /\ stored' = stored
    BY <1>2 DEF Revoked
  <2> QED BY RevokeDoes DEF Created, Unused
<1>3. CASE RotatedOne
  <2> PICK f \in Families : \E i \in 1..fam[f].issued :
         /\ Verdict(f, i) = "ok" /\ fam[f].issued < MaxTokens
         /\ fam' = Rotated(f, i) /\ stored' = stored
    BY <1>3 DEF RotatedOne
  <2> PICK i \in 1..fam[f].issued :
         /\ Verdict(f, i) = "ok" /\ fam[f].issued < MaxTokens
         /\ fam' = Rotated(f, i) /\ stored' = stored
    OBVIOUS
  <2>1. /\ f \in stored
        /\ \A g \in Families : /\ fam'[g].client = fam[g].client /\ fam'[g].code = fam[g].code
                               /\ fam'[g].gen = fam[g].gen
        /\ \A g \in Families \ {f} : fam'[g] = fam[g]
    BY RotateDoes
  <2>2. f \in Created
    BY <2>1 DEF Base
  <2> QED BY <2>1, <2>2 DEF Created, Unused
<1>4. CASE CreatedOne
  <2> PICK f \in Unused, c \in Clients, code \in Codes \cup {NoCode}, g \in 0..MaxSweeps :
        CreateFamily(f, c, code, g)
    BY <1>4 DEF CreatedOne
  <2>1. f \in stored
    BY CreateDoes
  <2> QED BY <2>1 DEF Base, Created
<1>5. CASE \E f \in Families : Expire(f)
  <2> PICK f \in Families : Expire(f)
    BY <1>5
  <2>1. f \in Created
    BY DEF Expire, Base
  <2> QED BY <2>1, ExpireDoes DEF Created, Unused
<1> QED BY <1>1, <1>2, <1>3, <1>4, <1>5 DEF FamKind

\* Steps that take no code and create no family keep the codes apart.
LEMMA CodesQuiet ==
    ASSUME CodesOnce, UNCHANGED codes, \A f \in Families : fam'[f].code = fam[f].code,
           \A q \in Procs : req'[q].at \in Exchanging => req[q].at \in Exchanging /\ req'[q].code = req[q].code
    PROVE  CodesOnce'
BY DEF CodesOnce, CodeOnce

\* A code is in one place after every step.
LEMMA CodesStep ==
    ASSUME Base, CodesOnce, [Next]_vars
    PROVE  CodesOnce'
<1>0. /\ FamKind /\ req \in [Procs -> ReqType] /\ fam \in [Families -> FamType] /\ codes \subseteq Codes
  BY BaseStep DEF Base, RestTyped
<1>q. ASSUME UNCHANGED codes, stored' \subseteq stored,
             \A q \in Procs : req'[q].at \in Exchanging => req[q].at \in Exchanging /\ req'[q].code = req[q].code
      PROVE  CodesOnce'
  BY <1>0, <1>q, NoNew, CodesQuiet
<1>i. Idle.at \notin Exchanging
  BY DEF Idle, Exchanging
<1>1. ASSUME NEW p \in Procs, NEW code \in Codes, ExchangeCode(p, code) PROVE CodesOnce'
  <2>1. code \in codes /\ codes' = codes \ {code} /\ fam' = fam
    BY <1>1 DEF ExchangeCode, TakeCode
  <2>2. \A q \in Procs \ {p} : req'[q] = req[q]
    BY <1>0, <1>1 DEF ExchangeCode, Step, Finish
  <2>3. req'[p].at \in Exchanging => req'[p].code = code
    BY <1>0, <1>1, <1>i DEF ExchangeCode, Step, Finish, Idle
  <2>4. \A q \in Procs \ {p} : req[q].at \in Exchanging => req[q].code # code
    BY <2>1 DEF CodesOnce
  <2>5. \A f \in Families : fam'[f].code # code /\ fam'[f].code \notin codes'
    BY <2>1 DEF CodesOnce
  <2>6. CodeOnce'
    BY <2>1 DEF CodesOnce, CodeOnce
  <2>7. ASSUME NEW q \in Procs, req'[q].at \in Exchanging
        PROVE  /\ req'[q].code \in Codes \ codes'
               /\ \A f \in Families : fam'[f].code # req'[q].code
               /\ \A r \in Procs : req'[r].at \in Exchanging /\ req'[r].code = req'[q].code => r = q
    <3>1. CASE q = p
      BY <2>1, <2>2, <2>3, <2>4, <2>5, <2>7, <3>1
    <3>2. CASE q # p
      <4>1. req'[q] = req[q] /\ req[q].at \in Exchanging
        BY <2>2, <2>7, <3>2
      <4> QED BY <2>1, <2>2, <2>3, <2>4, <3>2, <4>1 DEF CodesOnce
    <3> QED BY <3>1, <3>2
  <2> QED BY <2>5, <2>6, <2>7 DEF CodesOnce
<1>2. ASSUME NEW p \in Procs, ExchangeClient(p) \/ ExchangeUser(p) PROVE CodesOnce'
  <2>1. UNCHANGED <<codes, stored>> /\ req[p].at \in Exchanging
    BY <1>2 DEF ExchangeClient, ExchangeUser, Exchanging
  <2>2. req'[p].at \in Exchanging => req'[p].code = req[p].code
    BY <1>0, <1>2, <1>i DEF ExchangeClient, ExchangeUser, Step, Finish, ReqType
  <2>3. \A q \in Procs \ {p} : req'[q] = req[q]
    BY <1>0, <1>2 DEF ExchangeClient, ExchangeUser, Step, Finish
  <2> QED BY <1>q, <2>1, <2>2, <2>3
<1>3. ASSUME NEW p \in Procs, ExchangeCreate(p) PROVE CodesOnce'
  <2>0. UNCHANGED codes /\ req'[p] = Idle /\ \A q \in Procs \ {p} : req'[q] = req[q]
    BY <1>0, <1>3 DEF ExchangeCreate, Step, Finish
  <2>1. CASE UNCHANGED <<fam, stored, index, cut>>
    BY <1>i, <1>q, <2>0, <2>1
  <2>2. ASSUME NEW f \in Unused, CreateFamily(f, req[p].client, req[p].code, req[p].gen) PROVE CodesOnce'
    <3>1. req[p].client \in Clients /\ req[p].code \in Codes \cup {NoCode} /\ req[p].gen \in 0..MaxSweeps
      BY <1>0 DEF ReqType
    <3>2. fam'[f].code = req[p].code /\ \A h \in Families \ {f} : fam'[h] = fam[h]
      BY <2>2, <3>1, CreateDoes
    <3>3. /\ req[p].code \in Codes \ codes /\ req[p].at \in Exchanging
          /\ \A g \in Families : fam[g].code # req[p].code
          /\ \A q \in Procs : req[q].at \in Exchanging /\ req[q].code = req[p].code => q = p
      BY <1>3 DEF ExchangeCreate, CodesOnce, Exchanging
    <3>4. CodeOnce'
      BY <3>2, <3>3 DEF CodesOnce, CodeOnce
    <3>5. \A g \in Families : fam'[g].code \notin codes'
      BY <2>0, <3>2, <3>3 DEF CodesOnce
    <3>6. ASSUME NEW q \in Procs, req'[q].at \in Exchanging
          PROVE  /\ req'[q].code \in Codes \ codes'
                 /\ \A g \in Families : fam'[g].code # req'[q].code
                 /\ \A r \in Procs : req'[r].at \in Exchanging /\ req'[r].code = req'[q].code => r = q
      <4>1. q # p /\ req'[q] = req[q] /\ req[q].at \in Exchanging
        BY <1>i, <2>0, <3>6
      <4> QED BY <1>i, <2>0, <3>2, <3>3, <4>1 DEF CodesOnce
    <3> QED BY <3>4, <3>5, <3>6 DEF CodesOnce
  <2> QED BY <1>3, <2>1, <2>2 DEF ExchangeCreate
<1>4. ASSUME NEW p \in Procs, SwitchCreate(p) PROVE CodesOnce'
  <2>0. UNCHANGED codes /\ req'[p].at \notin Exchanging /\ \A q \in Procs \ {p} : req'[q] = req[q]
    BY <1>0, <1>4, <1>i DEF SwitchCreate, Step, Finish, Exchanging, ReqType
  <2>1. CASE UNCHANGED <<fam, stored, index>>
    BY <1>q, <2>0, <2>1
  <2>2. ASSUME NEW f \in Unused, CreateFamily(f, req[p].client, NoCode, 0) PROVE CodesOnce'
    <3>1. req[p].client \in Clients /\ NoCode \in Codes \cup {NoCode} /\ 0 \in 0..MaxSweeps
      BY <1>0, BoundsAssumption DEF ReqType
    <3>2. fam'[f].code = NoCode /\ \A h \in Families \ {f} : fam'[h] = fam[h]
      BY <2>2, <3>1, CreateDoes
    <3>4. CodeOnce'
      BY <3>2 DEF CodesOnce, CodeOnce
    <3>5. \A g \in Families : fam'[g].code \notin codes'
      BY <1>0, <2>0, <3>2, NamesAssumption DEF CodesOnce
    <3>6. ASSUME NEW q \in Procs, req'[q].at \in Exchanging
          PROVE  /\ req'[q].code \in Codes \ codes'
                 /\ \A g \in Families : fam'[g].code # req'[q].code
                 /\ \A r \in Procs : req'[r].at \in Exchanging /\ req'[r].code = req'[q].code => r = q
      <4>1. q # p /\ req'[q] = req[q] /\ req[q].at \in Exchanging
        BY <2>0, <3>6
      <4> QED BY <2>0, <3>2, <4>1, NamesAssumption DEF CodesOnce
    <3> QED BY <3>4, <3>5, <3>6 DEF CodesOnce
  <2> QED BY <1>4, <2>1, <2>2 DEF SwitchCreate
<1>5. ASSUME NEW p \in Procs, NEW c \in Managed, DisableClient(p, c) PROVE CodesOnce'
  <2>1. UNCHANGED <<codes, stored>>
    BY <1>5 DEF DisableClient
  <2>2. req'[p].at \notin Exchanging
    BY <1>5 DEF DisableClient, Idle, Exchanging
  <2>3. ASSUME NEW q \in Procs \ {p} PROVE req'[q].at = req[q].at /\ req'[q].code = req[q].code
    <3> PICK b : b = (\/ req[q].late
                      \/ /\ c = McpClient /\ req[q].client = c
                         /\ req[q].at \in {"read_user", "create"})
      OBVIOUS
    <3>1. req'[q] = [req[q] EXCEPT !.late = b]
      BY <1>5 DEF DisableClient
    <3> QED BY <1>0, <3>1 DEF ReqType
  <2> QED BY <1>q, <2>1, <2>2, <2>3
<1>6. ASSUME NEW p \in Procs,
             \/ \E f \in Families, i \in 1..MaxTokens : BrowserRefresh(p, f, i) \/ McpRefresh(p, f, i)
             \/ McpRefreshClient(p)
             \/ McpRefreshUser(p)
             \/ Rotate(p)
             \/ ForbidUser(p)
             \/ RevokeUserSessions(p)
             \/ \E f \in Families : ChangePassword(p, f)
             \/ ListFamilies(p)
             \/ RevokeNext(p)
             \/ RevocationDone(p)
             \/ RevocationFails(p)
             \/ \E f \in Families, c \in Clients : SwitchClient(p, f, c)
             \/ SwitchRevoke(p)
      PROVE  CodesOnce'
  <2>1. UNCHANGED <<codes, stored>>
    BY <1>6 DEF BrowserRefresh, McpRefresh, McpRefreshClient, McpRefreshUser, Rotate, ForbidUser,
       RevokeUserSessions, ChangePassword, ListFamilies, RevokeNext, RevocationDone, RevocationFails,
       SwitchClient, SwitchRevoke, db
  <2>2. \A q \in Procs \ {p} : req'[q] = req[q]
    BY <1>0, <1>6 DEF BrowserRefresh, McpRefresh, McpRefreshClient, McpRefreshUser, Rotate, ForbidUser,
       RevokeUserSessions, ChangePassword, ListFamilies, RevokeNext, RevocationDone, RevocationFails,
       StopAtFailure, SwitchClient, SwitchRevoke, Step, Finish
  <2>3. req'[p].at \notin Exchanging
    <3>1. CASE \E f \in Families, i \in 1..MaxTokens : BrowserRefresh(p, f, i) \/ McpRefresh(p, f, i)
      BY <1>0, <3>1 DEF BrowserRefresh, McpRefresh, Step, Idle, Exchanging
    <3>2. CASE McpRefreshClient(p) \/ McpRefreshUser(p)
      BY <1>0, <1>i, <3>2 DEF McpRefreshClient, McpRefreshUser, Step, Finish, Exchanging, ReqType
    <3>3. CASE Rotate(p) \/ RevocationDone(p) \/ SwitchRevoke(p)
      BY <1>0, <1>i, <3>3 DEF Rotate, RevocationDone, SwitchRevoke, Step, Finish
    <3>4. CASE ForbidUser(p) \/ RevokeUserSessions(p) \/ \E f \in Families : ChangePassword(p, f)
      BY <1>0, <3>4 DEF ForbidUser, RevokeUserSessions, ChangePassword, Step, Idle, Exchanging
    <3>5. CASE ListFamilies(p)
      <4> PICK a \in {"revoke", "revoke_each"} : a = IF req[p].at = "list_user" THEN "revoke" ELSE "revoke_each"
        OBVIOUS
      <4>1. PICK t : \/ req' = [req EXCEPT ![p] = [req[p] EXCEPT !.at = "revoke", !.todo = t]]
                     \/ req' = [req EXCEPT ![p] = [req[p] EXCEPT !.at = a, !.todo = t]]
        BY <3>5 DEF ListFamilies, Step
      <4>2. \/ req'[p] = [req[p] EXCEPT !.at = "revoke", !.todo = t]
            \/ req'[p] = [req[p] EXCEPT !.at = a, !.todo = t]
        BY <1>0, <4>1
      <4>3. req[p] \in ReqType
        BY <1>0
      <4>4. req'[p].at \in {"revoke", "revoke_each"}
        BY <4>2, <4>3 DEF ReqType
      <4> QED BY <4>4 DEF Exchanging
    <3>6. CASE RevokeNext(p) \/ RevocationFails(p)
      BY <1>0, <1>i, <3>6 DEF RevokeNext, RevocationFails, StopAtFailure, Step, Finish, Exchanging, ReqType
    <3>7. CASE \E f \in Families, c \in Clients : SwitchClient(p, f, c)
      BY <1>0, <3>7 DEF SwitchClient, Step, Idle, Exchanging
    <3> QED BY <1>6, <3>1, <3>2, <3>3, <3>4, <3>5, <3>6, <3>7
  <2> QED BY <1>q, <2>1, <2>2, <2>3
<1>7. ASSUME \/ UNCHANGED vars
             \/ \E c \in Managed : EnableClient(c)
             \/ RestoreUser
             \/ \E f \in Families : Logout(f) \/ Expire(f)
      PROVE  CodesOnce'
  <2>1. UNCHANGED <<codes, req>> /\ stored' \subseteq stored
    BY <1>7 DEF vars, EnableClient, RestoreUser, Logout, Expire
  <2> QED BY <1>q, <2>1
<1> QED BY <1>1, <1>2, <1>3, <1>4, <1>5, <1>6, <1>7 DEF Next

\* An authorization code yields at most one family, whatever exchanges of it
\* interleave (the GETDEL of token_authorization_code).
THEOREM CodeSpentOnce == Spec => []CodeOnce
<1>1. Init => CodesOnce
  <2> SUFFICES ASSUME Init PROVE CodesOnce
    OBVIOUS
  <2>1. \A f \in Families : fam[f].code = NoCode
    BY DEF Init, Blank
  <2>2. \A p \in Procs : req[p].at \notin Exchanging
    BY DEF Init, Idle, Exchanging
  <2> QED BY <2>1, <2>2, NamesAssumption DEF CodesOnce, CodeOnce, Init
<1>2. Base /\ CodesOnce /\ [Next]_vars => CodesOnce'
  BY CodesStep
<1>3. CodesOnce => CodeOnce
  BY DEF CodesOnce
<1> QED BY <1>1, <1>2, <1>3, BaseInvariant, PTL DEF Spec

-----------------------------------------------------------------------------
(* The generation of the MCP client *)

GenReq(r) ==
    /\ r.late => r.at \in Early /\ r.client = McpClient
    /\ r.at \in Early /\ r.client = McpClient => Current(r.gen) /\ (r.late => r.gen < generation)

\* The generation never falls, and a disable of an enabled client raises it.
GenUp ==
    /\ generation' >= generation
    /\ ~enabled'[McpClient] => \/ ~enabled[McpClient] /\ generation' = generation
                               \/ generation' > generation

\* What was current or outdated stays so.
LEMMA GenLater ==
    ASSUME Base, Base', GenUp, NEW g \in 0..MaxSweeps
    PROVE  (Current(g) => Current(g)') /\ (g < generation => g < generation')
<1>1. generation \in Nat /\ generation' \in Nat /\ g \in Nat
  BY BoundsAssumption DEF Base, RestTyped
<1> QED BY <1>1 DEF GenUp, Current

\* The generation moves only with a disable of the MCP client.
LEMMA GenMoves ==
    ASSUME Base, [Next]_vars
    PROVE  GenUp
<1>0. generation \in Nat /\ generation >= generation /\ generation + 1 > generation
      /\ generation + 1 >= generation /\ enabled \in [Clients -> BOOLEAN]
  BY BoundsAssumption DEF Base, RestTyped
<1>1. ASSUME UNCHANGED <<enabled, generation>> PROVE GenUp
  BY <1>0, <1>1 DEF GenUp
<1>2. ASSUME NEW c \in Managed, EnableClient(c) PROVE GenUp
  BY <1>0, <1>2, ClientsAssumption DEF EnableClient, GenUp
<1>3. ASSUME NEW p \in Procs, NEW c \in Managed, DisableClient(p, c) PROVE GenUp
  <2>1. /\ enabled' = [enabled EXCEPT ![c] = FALSE]
        /\ generation' = IF c = McpClient /\ enabled[c] THEN generation + 1 ELSE generation
    BY <1>3 DEF DisableClient, SetEnabledRow
  <2> QED BY <1>0, <2>1, ClientsAssumption DEF GenUp
<1>4. ASSUME NEW p \in Procs,
             \/ \E code \in Codes : ExchangeCode(p, code)
             \/ ExchangeClient(p)
             \/ ExchangeUser(p)
             \/ ExchangeCreate(p)
             \/ \E f \in Families, i \in 1..MaxTokens : BrowserRefresh(p, f, i) \/ McpRefresh(p, f, i)
             \/ McpRefreshClient(p)
             \/ McpRefreshUser(p)
             \/ Rotate(p)
             \/ ForbidUser(p)
             \/ RevokeUserSessions(p)
             \/ \E f \in Families : ChangePassword(p, f)
             \/ ListFamilies(p)
             \/ RevokeNext(p)
             \/ RevocationDone(p)
             \/ RevocationFails(p)
             \/ \E f \in Families, c \in Clients : SwitchClient(p, f, c)
             \/ SwitchCreate(p)
             \/ SwitchRevoke(p)
      PROVE  UNCHANGED <<enabled, generation>>
  BY <1>4 DEF ExchangeCode, ExchangeClient, ExchangeUser, ExchangeCreate, BrowserRefresh, McpRefresh,
     McpRefreshClient, McpRefreshUser, Rotate, ForbidUser, RevokeUserSessions, ChangePassword,
     ListFamilies, RevokeNext, RevocationDone, RevocationFails, SwitchClient, SwitchCreate, SwitchRevoke, db
<1>5. ASSUME \/ UNCHANGED vars
             \/ RestoreUser
             \/ \E f \in Families : Logout(f) \/ Expire(f)
      PROVE  UNCHANGED <<enabled, generation>>
  BY <1>5 DEF vars, RestoreUser, Logout, Expire, db
<1> QED BY <1>1, <1>2, <1>3, <1>4, <1>5 DEF Next

\* What a request read of the MCP client stays current or marked late.
LEMMA GenReqLater ==
    ASSUME Base, Base', GenUp, NEW r \in ReqType, GenReq(r)
    PROVE  GenReq(r)'
<1>1. r.gen \in 0..MaxSweeps
  BY DEF ReqType
<1> QED BY <1>1, GenLater DEF GenReq

\* A family whose keys stay, or expire, is bound to no newer generation.
LEMMA GenKept ==
    ASSUME Base, Base', GenUp, Generations, NEW f \in Created,
           fam'[f].client = fam[f].client, fam'[f].gen \in {0, fam[f].gen}
    PROVE  /\ fam'[f].client = McpClient => Current(fam[f].gen)'
           /\ f \in cut => fam'[f].client = McpClient /\ fam'[f].gen < generation'
<1>1. fam[f].gen \in 0..MaxSweeps /\ 0 \in 0..MaxSweeps
  BY BoundsAssumption DEF Base, FamType, Created
<1>2. generation \in Nat /\ fam[f].gen >= 0
  BY <1>1, BoundsAssumption DEF Base, RestTyped
<1> PICK g : g = fam'[f].gen
  OBVIOUS
<1>3. g \in 0..MaxSweeps /\ g <= fam[f].gen
  BY <1>1, <1>2
<1>4. fam[f].client = McpClient => Current(g)
  BY <1>1, <1>2, <1>3, BoundsAssumption DEF Generations, Current
<1>5. f \in cut => fam[f].client = McpClient /\ g < generation
  BY <1>1, <1>2, <1>3, BoundsAssumption DEF Generations
<1>6. (Current(g) => Current(g)') /\ (g < generation => g < generation')
  BY <1>3, GenLater
<1> QED BY <1>4, <1>5, <1>6 DEF Current

\* A step that creates no family and cuts none leaves the generations right,
\* given what the requests hold after it.
LEMMA GenQuiet ==
    ASSUME Base, Base', FamKind, GenUp, Generations, stored' \subseteq stored, UNCHANGED cut,
           \A q \in Procs : GenReq(req[q])'
    PROVE  Generations'
<1>1. (~enabled[McpClient] => generation > 0)'
  <2>1. generation \in Nat /\ generation' \in Nat
    BY BoundsAssumption DEF Base, RestTyped
  <2> QED BY <2>1 DEF GenUp, Generations
<1>2. ASSUME NEW f \in Created' PROVE fam'[f].client = McpClient => Current(fam[f].gen)'
  BY NoNew, GenKept DEF Created
<1>3. ASSUME NEW f \in cut' PROVE fam'[f].client = McpClient /\ fam'[f].gen < generation'
  <2>1. f \in Created /\ f \in Families
    BY DEF Base, Created
  <2> QED BY <2>1, NoNew, GenKept
<1> QED BY <1>1, <1>2, <1>3 DEF Generations, GenReq, Early

\* A step that creates a family bound to a current generation leaves them right.
LEMMA GenCreate ==
    ASSUME Base, Base', Generations, UNCHANGED <<enabled, generation>>, NEW f \in Unused, NEW c \in Clients,
           NEW code \in Codes \cup {NoCode}, NEW g \in 0..MaxSweeps, CreateFamily(f, c, code, g),
           c = McpClient => Current(g),
           cut' = cut \/ (cut' = cut \cup {f} /\ c = McpClient /\ g < generation),
           \A q \in Procs : GenReq(req[q])'
    PROVE  Generations'
<1>0. fam'[f].client = c /\ fam'[f].gen = g /\ \A h \in Families \ {f} : fam'[h] = fam[h]
  BY CreateDoes
<1>1. ASSUME NEW h \in Created' PROVE fam'[h].client = McpClient => Current(fam[h].gen)'
  <2>1. CASE h = f
    BY <1>0, <2>1 DEF Current
  <2>2. CASE h # f
    <3>1. h \in Created /\ fam'[h] = fam[h]
      BY <1>0, <2>2 DEF Created, Unused
    <3> QED BY <3>1 DEF Generations, Current
  <2> QED BY <2>1, <2>2
<1>2. ASSUME NEW h \in cut' PROVE fam'[h].client = McpClient /\ fam'[h].gen < generation'
  <2>1. CASE h = f
    <3>1. f \notin cut
      BY DEF Base, Created
    <3> QED BY <1>0, <1>2, <2>1, <3>1
  <2>2. CASE h # f
    <3>1. h \in cut /\ h \in Families
      BY <2>2 DEF Base, Created
    <3>2. fam'[h] = fam[h]
      BY <1>0, <2>2, <3>1
    <3> QED BY <3>1, <3>2 DEF Generations
  <2> QED BY <2>1, <2>2
<1> QED BY <1>1, <1>2 DEF Generations, GenReq, Early

\* One request moves; what the others read stays current or marked late.
LEMMA GenReqMove ==
    ASSUME Base, Base', GenUp, \A q \in Procs : GenReq(req[q]), NEW p \in Procs, NEW k, GenReq(k)', Step(p, k)
    PROVE  \A q \in Procs : GenReq(req[q])'
<1>1. req'[p] = k /\ \A q \in Procs \ {p} : req'[q] = req[q]
  BY DEF Base, Step
<1> SUFFICES ASSUME NEW q \in Procs PROVE GenReq(req[q])'
  OBVIOUS
<1> PICK r : r = req'[q]
  OBVIOUS
<1>2. GenReq(r)'
  <2>1. CASE q = p
    BY <1>1, <2>1
  <2>2. CASE q # p
    <3>1. r \in ReqType /\ GenReq(r)
      BY <1>1, <2>2 DEF Base
    <3> QED BY <3>1, GenReqLater
  <2> QED BY <2>1, <2>2
<1> QED BY <1>2 DEF GenReq, Current

\* The requests' view of the MCP client is right after every step.
LEMMA GenReqStep ==
    ASSUME Base, Generations, [Next]_vars
    PROVE  \A q \in Procs : GenReq(req[q])'
<1> DEFINE Goal == \A q \in Procs : GenReq(req[q])'
<1>0. /\ Base' /\ GenUp /\ req \in [Procs -> ReqType] /\ \A q \in Procs : GenReq(req[q])
  BY BaseStep, GenMoves DEF Base, Generations, GenReq, Early
<1>m. ASSUME NEW p \in Procs, NEW k, GenReq(k)', Step(p, k) PROVE Goal
  BY <1>0, <1>m, GenReqMove
\* a request that reads nothing of the client any more
<1>n. ASSUME NEW p \in Procs, NEW k, k.at \notin Early, ~k.late, Step(p, k) PROVE Goal
  <2>1. GenReq(k)'
    BY <1>n DEF GenReq
  <2> QED BY <1>m, <1>n, <2>1
<1>i. ASSUME NEW p \in Procs, Finish(p) PROVE Goal
  <2> PICK k : k = Idle
    OBVIOUS
  <2>1. k.at \notin Early /\ ~k.late
    BY DEF Idle, Early
  <2> QED BY <1>i, <1>n, <2>1 DEF Finish
<1>s. ASSUME UNCHANGED req PROVE Goal
  <2> SUFFICES ASSUME NEW q \in Procs PROVE GenReq(req[q])'
    OBVIOUS
  <2> PICK r : r = req[q]
    OBVIOUS
  <2>1. GenReq(r)'
    BY <1>0, GenReqLater
  <2> QED BY <1>s, <2>1 DEF GenReq, Current
<1> HIDE DEF Goal
<1>e. \A p \in Procs : req[p].at \notin Early => ~req[p].late
  BY <1>0 DEF GenReq
<1>1. ASSUME NEW p \in Procs, NEW code \in Codes, ExchangeCode(p, code) PROVE Goal
  <2> PICK k : k = [Idle EXCEPT !.at = "read_client", !.code = code, !.client = CodeClient[code]]
    OBVIOUS
  <2>1. k.at \notin Early /\ ~k.late
    BY DEF Idle, Early
  <2> QED BY <1>1, <1>i, <1>n, <2>1 DEF ExchangeCode
<1>2. ASSUME NEW p \in Procs, ExchangeClient(p) PROVE Goal
  <2>1. CASE enabled[req[p].client] /\ Step(p, [req[p] EXCEPT !.at = "read_user", !.gen = generation])
    <3> PICK k : k = [req[p] EXCEPT !.at = "read_user", !.gen = generation]
      OBVIOUS
    <3>1. k.at = "read_user" /\ k.gen = generation /\ k.client = req[p].client /\ k.late = req[p].late
      BY <1>0 DEF ReqType
    <3>2. ~k.late
      BY <1>2, <1>e, <3>1 DEF ExchangeClient, Early
    <3>3. enabled' = enabled /\ generation' = generation /\ generation \in Nat /\ generation <= generation
      BY <1>2, BoundsAssumption DEF ExchangeClient, db, Base, RestTyped
    <3>4. GenReq(k)'
      BY <2>1, <3>1, <3>2, <3>3 DEF GenReq, Current
    <3> QED BY <1>m, <2>1, <3>4
  <2> QED BY <1>2, <1>i, <2>1 DEF ExchangeClient
<1>3. ASSUME NEW p \in Procs, ExchangeUser(p) PROVE Goal
  <2>1. CASE Step(p, [req[p] EXCEPT !.at = "create"])
    <3> PICK r : r = req[p]
      OBVIOUS
    <3> PICK k : k = [req[p] EXCEPT !.at = "create"]
      OBVIOUS
    <3>1. k.at = "create" /\ k.gen = r.gen /\ k.client = r.client /\ k.late = r.late
      BY <1>0 DEF ReqType
    <3>2. GenReq(r)' /\ r.at \in Early
      BY <1>0, <1>3, GenReqLater DEF ExchangeUser, Early
    <3>3. GenReq(k)'
      BY <3>1, <3>2 DEF GenReq, Early
    <3> QED BY <1>m, <2>1, <3>3
  <2> QED BY <1>3, <1>i, <2>1 DEF ExchangeUser
<1>4. ASSUME NEW p \in Procs, NEW f \in Families, NEW i \in 1..MaxTokens, BrowserRefresh(p, f, i) PROVE Goal
  <2> PICK k : k = [Idle EXCEPT !.at = "rotate", !.family = f, !.token = i]
    OBVIOUS
  <2>1. k.at \notin Early /\ ~k.late
    BY DEF Idle, Early
  <2> QED BY <1>4, <1>n, <2>1 DEF BrowserRefresh
<1>5. ASSUME NEW p \in Procs, NEW f \in Families, NEW i \in 1..MaxTokens, McpRefresh(p, f, i) PROVE Goal
  <2> PICK k : k = [Idle EXCEPT !.at = "mcp_client", !.family = f, !.token = i, !.gen = fam[f].gen]
    OBVIOUS
  <2>1. k.at \notin Early /\ ~k.late
    BY DEF Idle, Early
  <2> QED BY <1>5, <1>n, <2>1 DEF McpRefresh
<1>6. ASSUME NEW p \in Procs, McpRefreshClient(p) PROVE Goal
  <2> PICK k : k = [req[p] EXCEPT !.at = "mcp_user", !.gen = 0]
    OBVIOUS
  <2>1. k.at \notin Early /\ ~k.late
    BY <1>0, <1>6, <1>e DEF McpRefreshClient, ReqType, Early
  <2> QED BY <1>6, <1>i, <1>n, <2>1 DEF McpRefreshClient
<1>7. ASSUME NEW p \in Procs, McpRefreshUser(p) PROVE Goal
  <2> PICK k : k = [req[p] EXCEPT !.at = "rotate"]
    OBVIOUS
  <2>1. k.at \notin Early /\ ~k.late
    BY <1>0, <1>7, <1>e DEF McpRefreshUser, ReqType, Early
  <2> QED BY <1>7, <1>i, <1>n, <2>1 DEF McpRefreshUser
<1>8. ASSUME NEW p \in Procs, NEW c \in Managed, DisableClient(p, c) PROVE Goal
  <2> SUFFICES ASSUME NEW q \in Procs PROVE GenReq(req[q])'
    BY DEF Goal
  <2>1. CASE q = p
    <3> PICK k : k = [Idle EXCEPT !.at = "list_client", !.client = c, !.cover = AliveOf(c)]
      OBVIOUS
    <3>1. req'[q] = k /\ k.at \notin Early /\ ~k.late
      BY <1>8, <2>1 DEF DisableClient, Idle, Early
    <3> QED BY <3>1 DEF GenReq
  <2>2. CASE q # p
    <3> PICK b : b = (\/ req[q].late
                      \/ /\ c = McpClient /\ req[q].client = c
                         /\ req[q].at \in {"read_user", "create"})
      OBVIOUS
    <3> PICK r : r = req[q]
      OBVIOUS
    <3> PICK k : k = [r EXCEPT !.late = b]
      OBVIOUS
    <3>1. req'[q] = k
      BY <1>8, <2>2 DEF DisableClient
    <3>2. k.at = r.at /\ k.gen = r.gen /\ k.client = r.client /\ k.late = b /\ r \in ReqType
      BY <1>0 DEF ReqType
    <3>3. GenReq(r) /\ GenReq(r)'
      BY <1>0, <3>2, GenReqLater
    <3>4. CASE r.late
      BY <3>1, <3>2, <3>3, <3>4 DEF GenReq, Current
    <3>5. CASE ~b
      BY <3>1, <3>2, <3>3, <3>5 DEF GenReq, Current
    <3>6. CASE c = McpClient /\ r.client = c /\ r.at \in Early
      <4>1. Current(r.gen) /\ Current(r.gen)'
        BY <3>3, <3>6 DEF GenReq
      <4>2. generation' = IF enabled[McpClient] THEN generation + 1 ELSE generation
        BY <1>8, <3>6 DEF DisableClient, SetEnabledRow
      <4>3. r.gen \in Nat /\ generation \in Nat
        BY <3>2, BoundsAssumption DEF ReqType, Base, RestTyped
      <4>4. r.gen < generation'
        BY <4>1, <4>2, <4>3 DEF Current
      <4> QED BY <3>1, <3>2, <3>6, <4>1, <4>4 DEF GenReq, Current, Early
    <3> QED BY <3>4, <3>5, <3>6 DEF Early
  <2> QED BY <2>1, <2>2
<1>9. ASSUME NEW p \in Procs, ForbidUser(p) \/ RevokeUserSessions(p) PROVE Goal
  <2> PICK k : k = [Idle EXCEPT !.at = "list_user", !.cover = Alive]
    OBVIOUS
  <2>1. k.at \notin Early /\ ~k.late
    BY DEF Idle, Early
  <2> QED BY <1>9, <1>n, <2>1 DEF ForbidUser, RevokeUserSessions
<1>10. ASSUME NEW p \in Procs, NEW f \in Families, ChangePassword(p, f) PROVE Goal
  <2> PICK k : k = [Idle EXCEPT !.at = "list_others", !.family = f, !.cover = Alive \ {f}]
    OBVIOUS
  <2>1. k.at \notin Early /\ ~k.late
    BY DEF Idle, Early
  <2> QED BY <1>10, <1>n, <2>1 DEF ChangePassword
<1>11. ASSUME NEW p \in Procs, ListFamilies(p) PROVE Goal
  <2>0. ~req[p].late /\ req[p] \in ReqType
    BY <1>0, <1>11, <1>e DEF ListFamilies, Early
  <2>1. CASE req[p].at = "list_client"
    <3> PICK k : k = [req[p] EXCEPT !.at = "revoke", !.todo = byClient[req[p].client] \cap stored]
      OBVIOUS
    <3>1. k.at \notin Early /\ ~k.late
      BY <2>0 DEF ReqType, Early
    <3> QED BY <1>11, <1>n, <2>1, <3>1 DEF ListFamilies
  <2>2. CASE req[p].at \in {"list_user", "list_others"}
    <3> PICK a \in {"revoke", "revoke_each"} : a = IF req[p].at = "list_user" THEN "revoke" ELSE "revoke_each"
      OBVIOUS
    <3> PICK k : k = [req[p] EXCEPT !.at = a, !.todo = (byUser \cap stored) \ {req[p].family}]
      OBVIOUS
    <3>1. k.at \notin Early /\ ~k.late
      BY <2>0 DEF ReqType, Early
    <3>2. Step(p, k)
      BY <1>11, <2>2 DEF ListFamilies, Step
    <3> QED BY <1>n, <3>1, <3>2
  <2> QED BY <1>11, <2>1, <2>2 DEF ListFamilies
<1>12. ASSUME NEW p \in Procs, RevokeNext(p) PROVE Goal
  <2> PICK f \in req[p].todo : Step(p, [req[p] EXCEPT !.todo = @ \ {f}])
    BY <1>12 DEF RevokeNext
  <2> PICK k : k = [req[p] EXCEPT !.todo = @ \ {f}]
    OBVIOUS
  <2>1. k.at \notin Early /\ ~k.late
    BY <1>0, <1>12, <1>e DEF ReqType, RevokeNext, Early
  <2> QED BY <1>n, <2>1
<1>13. ASSUME NEW p \in Procs, RevocationFails(p) PROVE Goal
  <2> PICK f \in req[p].todo : StopAtFailure(p, f)
    BY <1>13 DEF RevocationFails
  <2> PICK k : k = [req[p] EXCEPT !.todo = @ \ {f}, !.cover = @ \ {f}]
    OBVIOUS
  <2>1. k.at \notin Early /\ ~k.late
    BY <1>0, <1>13, <1>e DEF ReqType, RevocationFails, Early
  <2> QED BY <1>i, <1>n, <2>1 DEF StopAtFailure
<1>14. ASSUME NEW p \in Procs, NEW f \in Families, NEW c \in Clients, SwitchClient(p, f, c) PROVE Goal
  <2> PICK k : k = [Idle EXCEPT !.at = "switch_create", !.family = f, !.client = c]
    OBVIOUS
  <2>1. k.at \notin Early /\ ~k.late
    BY DEF Idle, Early
  <2> QED BY <1>14, <1>n, <2>1 DEF SwitchClient
<1>15. ASSUME NEW p \in Procs, SwitchCreate(p) PROVE Goal
  <2>1. ASSUME NEW f \in Unused, Step(p, [req[p] EXCEPT !.at = "switch_revoke", !.todo = {f}]) PROVE Goal
    <3> PICK k : k = [req[p] EXCEPT !.at = "switch_revoke", !.todo = {f}]
      OBVIOUS
    <3>1. k.at \notin Early /\ ~k.late
      BY <1>0, <1>15, <1>e DEF SwitchCreate, ReqType, Early
    <3> QED BY <1>n, <2>1, <3>1
  <2> QED BY <1>15, <1>i, <2>1 DEF SwitchCreate
<1>16. ASSUME NEW p \in Procs, ExchangeCreate(p) \/ Rotate(p) \/ RevocationDone(p) \/ SwitchRevoke(p) PROVE Goal
  BY <1>16, <1>i DEF ExchangeCreate, Rotate, RevocationDone, SwitchRevoke
<1>17. ASSUME \/ UNCHANGED vars
              \/ \E c \in Managed : EnableClient(c)
              \/ RestoreUser
              \/ \E f \in Families : Logout(f) \/ Expire(f)
       PROVE  UNCHANGED req
  BY <1>17 DEF vars, EnableClient, RestoreUser, Logout, Expire
<1>18. Goal
  BY <1>1, <1>2, <1>3, <1>4, <1>5, <1>6, <1>7, <1>8, <1>9, <1>10, <1>11, <1>12, <1>13, <1>14, <1>15, <1>16,
     <1>17, <1>s DEF Next
<1> QED BY <1>18 DEF Goal

\* Nothing is bound to the generation of a disabled MCP client after a step.
LEMMA GenStep ==
    ASSUME Base, Generations, [Next]_vars
    PROVE  Generations'
<1>0. /\ Base' /\ FamKind /\ GenUp /\ \A q \in Procs : GenReq(req[q])'
      /\ req \in [Procs -> ReqType] /\ fam \in [Families -> FamType] /\ \A q \in Procs : GenReq(req[q])
  BY BaseStep, GenMoves, GenReqStep DEF Base, Generations, GenReq, Early
<1>q. ASSUME stored' \subseteq stored, UNCHANGED cut PROVE Generations'
  BY <1>0, <1>q, GenQuiet
<1>1. ASSUME NEW p \in Procs, ExchangeCreate(p) PROVE Generations'
  <2>1. CASE UNCHANGED <<fam, stored, index, cut>>
    BY <1>q, <2>1
  <2>2. ASSUME NEW f \in Unused, CreateFamily(f, req[p].client, req[p].code, req[p].gen),
               cut' = IF req[p].late THEN cut \cup {f} ELSE cut
        PROVE  Generations'
    <3>1. PICK c \in Clients, code \in Codes \cup {NoCode}, g \in 0..MaxSweeps :
             c = req[p].client /\ code = req[p].code /\ g = req[p].gen
      BY <1>0 DEF ReqType
    <3>2. UNCHANGED <<enabled, generation>> /\ req[p].at \in Early
      BY <1>1 DEF ExchangeCreate, db, Early
    <3>3. CreateFamily(f, c, code, g)
      BY <2>2, <3>1
    <3>4. (c = McpClient => Current(g)) /\ (req[p].late => c = McpClient /\ g < generation)
      BY <1>0, <3>1, <3>2 DEF GenReq
    <3>5. cut' = cut \/ (cut' = cut \cup {f} /\ c = McpClient /\ g < generation)
      BY <2>2, <3>4
    <3> QED BY <1>0, <3>2, <3>3, <3>4, <3>5, GenCreate
  <2> QED BY <1>1, <2>1, <2>2 DEF ExchangeCreate
<1>2. ASSUME NEW p \in Procs, SwitchCreate(p) PROVE Generations'
  <2>0. UNCHANGED <<enabled, generation, cut>>
    BY <1>2 DEF SwitchCreate, db
  <2>1. CASE UNCHANGED <<fam, stored, index>>
    BY <1>q, <2>0, <2>1
  <2>2. ASSUME NEW f \in Unused, CreateFamily(f, req[p].client, NoCode, 0) PROVE Generations'
    <3>1. PICK c \in Clients : c = req[p].client
      BY <1>0 DEF ReqType
    <3>2. CreateFamily(f, c, NoCode, 0) /\ NoCode \in Codes \cup {NoCode} /\ 0 \in 0..MaxSweeps
      BY <2>2, <3>1, BoundsAssumption
    <3>3. Current(0)
      <4>1. generation \in Nat
        BY BoundsAssumption DEF Base, RestTyped
      <4> QED BY <4>1 DEF Generations, Current
    <3> QED BY <1>0, <2>0, <3>2, <3>3, GenCreate
  <2> QED BY <1>2, <2>1, <2>2 DEF SwitchCreate
<1>3. ASSUME NEW p \in Procs, NEW c \in Managed, DisableClient(p, c) PROVE Generations'
  <2>0. fam' = fam /\ stored' = stored /\ Created' = Created
    BY <1>3 DEF DisableClient, Created, Unused
  <2>1. CASE c # McpClient
    <3>1. UNCHANGED cut
      BY <1>3, <2>1 DEF DisableClient
    <3> QED BY <1>q, <2>0, <3>1
  <2>2. CASE c = McpClient
    <3>1. /\ cut' = cut \cup AliveOf(c)
          /\ generation' = IF enabled[McpClient] THEN generation + 1 ELSE generation
      BY <1>3, <2>2 DEF DisableClient, SetEnabledRow
    <3>2. ASSUME NEW f \in Created
          PROVE  /\ fam'[f].client = McpClient => Current(fam[f].gen)'
                 /\ f \in cut => fam'[f].client = McpClient /\ fam'[f].gen < generation'
      <4>1. fam'[f].client = fam[f].client /\ fam'[f].gen \in {0, fam[f].gen}
        BY <2>0
      <4> QED BY <1>0, <4>1, GenKept
    <3>3. ASSUME NEW f \in AliveOf(c) PROVE fam'[f].client = McpClient /\ fam'[f].gen < generation'
      <4>1. f \in Created /\ f \in Families /\ fam[f].client = McpClient
        BY <2>2 DEF AliveOf, Alive, Base, Created
      <4>2. fam[f].gen \in Nat /\ generation \in Nat /\ Current(fam[f].gen)
        BY <1>0, <4>1, BoundsAssumption DEF FamType, Generations, Base, RestTyped
      <4>3. fam[f].gen < generation'
        BY <3>1, <4>2 DEF Current
      <4> QED BY <2>0, <4>1, <4>3
    <3>4. (~enabled[McpClient] => generation > 0)'
      <4>1. generation \in Nat /\ generation' \in Nat
        BY <1>0, BoundsAssumption DEF Base, RestTyped
      <4> QED BY <1>0, <4>1 DEF GenUp, Generations
    <3>5. ASSUME NEW f \in cut' PROVE fam'[f].client = McpClient /\ fam'[f].gen < generation'
      <4>1. cut \subseteq Created
        BY DEF Base
      <4> QED BY <3>1, <3>2, <3>3, <4>1
    <3> QED BY <1>0, <2>0, <3>2, <3>4, <3>5 DEF Generations, GenReq, Early
  <2> QED BY <2>1, <2>2
<1>4. ASSUME NEW p \in Procs,
             \/ \E code \in Codes : ExchangeCode(p, code)
             \/ ExchangeClient(p)
             \/ ExchangeUser(p)
             \/ \E f \in Families, i \in 1..MaxTokens : BrowserRefresh(p, f, i) \/ McpRefresh(p, f, i)
             \/ McpRefreshClient(p)
             \/ McpRefreshUser(p)
             \/ Rotate(p)
             \/ ForbidUser(p)
             \/ RevokeUserSessions(p)
             \/ \E f \in Families : ChangePassword(p, f)
             \/ ListFamilies(p)
             \/ RevokeNext(p)
             \/ RevocationDone(p)
             \/ RevocationFails(p)
             \/ \E f \in Families, c \in Clients : SwitchClient(p, f, c)
             \/ SwitchRevoke(p)
      PROVE  UNCHANGED <<stored, cut>>
  BY <1>4 DEF ExchangeCode, ExchangeClient, ExchangeUser, BrowserRefresh, McpRefresh, McpRefreshClient,
     McpRefreshUser, Rotate, ForbidUser, RevokeUserSessions, ChangePassword, ListFamilies, RevokeNext,
     RevocationDone, RevocationFails, SwitchClient, SwitchRevoke
<1>5. ASSUME \/ UNCHANGED vars
             \/ \E c \in Managed : EnableClient(c)
             \/ RestoreUser
             \/ \E f \in Families : Logout(f) \/ Expire(f)
      PROVE  stored' \subseteq stored /\ UNCHANGED cut
  BY <1>5 DEF vars, EnableClient, RestoreUser, Logout, Expire
<1> QED BY <1>1, <1>2, <1>3, <1>4, <1>5, <1>q DEF Next

\* An MCP credential older than a disable of the MCP client is refused for
\* good, whatever re-enables, rotations, failed sweeps and late exchanges do
\* (mcp_token_generation).
THEOREM CutForGood == Spec => []DisableCutsForGood
<1>1. Init => Generations
  <2> SUFFICES ASSUME Init PROVE Generations
    OBVIOUS
  <2>1. enabled[McpClient] /\ cut = {}
    BY ClientsAssumption DEF Init
  <2>2. Created = {}
    BY DEF Init, Created, Unused, Blank
  <2>3. \A p \in Procs : ~req[p].late /\ req[p].at \notin Early
    BY DEF Init, Idle, Early
  <2> QED BY <2>1, <2>2, <2>3 DEF Generations, Early
<1>2. Base /\ Generations /\ [Next]_vars => Generations'
  BY GenStep
<1>3. Base /\ Generations => DisableCutsForGood
  <2> SUFFICES ASSUME Base, Generations, NEW f \in cut PROVE ~Accepts(f)
    BY DEF DisableCutsForGood
  <2>1. fam[f].client = McpClient /\ fam[f].gen < generation
    BY DEF Generations
  <2>2. fam[f].gen \in Nat /\ generation \in Nat
    BY BoundsAssumption DEF Base, Created, FamType, RestTyped
  <2> QED BY <2>1, <2>2 DEF Accepts
<1> QED BY <1>1, <1>2, <1>3, BaseInvariant, PTL DEF Spec
=============================================================================
