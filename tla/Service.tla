------------------------------- MODULE Service --------------------------------
(* The vault handlers of APIService (src/src/api.py) on AuthService and        *)
(* VaultManager, in one thread.                                                *)
(*                                                                             *)
(* A vault handler validates its token, then reads the token's user (which     *)
(* validates again: the token may expire in between), changes the vault and    *)
(* publishes.  A listener of the event may make requests of its own and may    *)
(* raise; the request is answered after it.  Requests in progress are frames   *)
(* of a call stack.                                                            *)
EXTENDS Naturals, FiniteSets, Sequences

CONSTANTS
  Users, Expiry, MaxTime, MaxSessions,                 \* see Auth
  Names, NoEntry, Never,                               \* see Vault
  Fallback,     \* "authorized_user"
  NoAnswer,
  MaxDepth,     \* bound: requests in progress inside one another
  MaxEntries,   \* bound: entries made
  MaxVersions   \* bound: versions of one entry

VARIABLES
  clock, sessions, refused,
  secrets, entries, cleared,
  stack,      \* the requests in progress, outermost first
  answer      \* what get_secret has just answered, NoAnswer after any other step

authVars == <<sessions, refused>>
vaultVars == <<secrets, entries, cleared>>
vars == <<clock, authVars, vaultVars, stack, answer>>

Auths == INSTANCE Auth
Secrets == INSTANCE Vault WITH Actors <- Users \cup {Fallback}

ASSUME ServiceAssumption == Auths!AuthAssumption /\ Secrets!VaultAssumption /\ Fallback \notin Users

Init ==
  /\ Auths!Init
  /\ Secrets!Init
  /\ stack = <<>>
  /\ answer = NoAnswer

-------------------------------------------------------------------------------
(* The stack of requests                                                       *)

Top == stack[Len(stack)]

In(stage) == stack # <<>> /\ Top.stage = stage

Leave == stack' = SubSeq(stack, 1, Len(stack) - 1)

\* Client code runs: it has no request in progress, or is a listener inside one.
ClientRuns == stack = <<>> \/ In("published")

TimePasses ==
  /\ Auths!TimePasses
  /\ answer' = NoAnswer
  /\ UNCHANGED <<vaultVars, stack>>

\* generate_token, which no handler calls.
Login(u) ==
  /\ ClientRuns
  /\ Auths!GenerateToken(u)
  /\ answer' = NoAnswer
  /\ UNCHANGED <<vaultVars, stack>>

\* A request with a token that is not valid is answered 401.
Unauthorized(t) ==
  /\ ClientRuns
  /\ Auths!Expired(t)
  /\ Auths!Validate(t)
  /\ answer' = NoAnswer
  /\ UNCHANGED <<vaultVars, stack>>

Ops == {"store", "rotate", "revoke", "get"}

WithinBounds(op, n) ==
  /\ op = "store" => Len(entries) < MaxEntries
  /\ op = "rotate" /\ Secrets!Stored(n) => Len(entries[secrets[n]].versions) < MaxVersions

VaultRequest(op, t, n) ==
  /\ ClientRuns
  /\ Len(stack) < MaxDepth
  /\ WithinBounds(op, n)
  /\ Auths!Valid(t)
  /\ stack' = Append(stack, [stage |-> "checked", op |-> op, token |-> t, name |-> n])
  /\ answer' = NoAnswer
  /\ UNCHANGED <<clock, authVars, vaultVars>>

-------------------------------------------------------------------------------
(* store_secret, rotate_secret, revoke_secret, get_secret                      *)

\* Mutant: the user who logged in last, whoever's token it is.
LatestUser(t) ==
  IF Auths!Valid(t)
  THEN (CHOOSE s \in DOMAIN sessions : \A r \in DOMAIN sessions : sessions[r] <= sessions[s]).user
  ELSE Fallback

\* get_user_from_token, or the fallback of the handlers.
UserOf(t) == IF Auths!Valid(t) THEN t.user ELSE Fallback

ThisActor == UserOf(Top.token)

\* Publish; afterwards only get_secret reads an entry.
Publish(entry) == stack' = [stack EXCEPT ![Len(stack)] = [stage |-> "published", reads |-> entry]]

Change ==
  /\ In("checked")
  /\ \/ /\ Top.op = "store"
        /\ \E ttl \in 0..1 : Secrets!StoreSecret(Top.name, ThisActor, ttl)
     \/ /\ Top.op = "rotate"
        /\ Secrets!RotateSecret(Top.name, ThisActor)
     \/ /\ Top.op = "revoke"
        /\ Secrets!RevokeSecret(Top.name)
  /\ Auths!Validate(Top.token)
  /\ Publish(NoEntry)
  /\ answer' = NoAnswer

Get ==
  /\ In("checked")
  /\ Top.op = "get"
  /\ Secrets!Readable(Top.name)
  /\ Publish(secrets[Top.name])
  /\ answer' = NoAnswer
  /\ UNCHANGED <<clock, authVars, vaultVars>>

\* The vault finds the secret stored already, missing, revoked or expired, or get
\* does not find the version it was asked for.
Decline ==
  /\ In("checked")
  /\ CASE Top.op = "store" -> Secrets!Usable(Top.name) /\ Auths!Validate(Top.token)
       [] Top.op \in {"rotate", "revoke"} ->
            ~Secrets!Usable(Top.name) /\ Auths!Validate(Top.token)
       [] OTHER -> UNCHANGED <<clock, authVars>>
  /\ Leave
  /\ answer' = NoAnswer
  /\ UNCHANGED <<vaultVars>>

\* Mutant: the flag is read before the listeners run, when it is never set.
FlagBefore(entry) == FALSE

\* is_revoked of the entry, which get_secret reads after its listeners ran.
FlagOf(entry) == entries[entry].revoked

Answer ==
  /\ In("published")
  /\ answer' = IF Top.reads = NoEntry THEN NoAnswer
               ELSE [entry |-> Top.reads, revoked |-> FlagOf(Top.reads)]
  /\ Leave
  /\ UNCHANGED <<clock, authVars, vaultVars>>

\* A listener raised.  What the request changed stays changed, although some of
\* the handlers make an error answer of a ValueError.
Raise ==
  /\ In("published")
  /\ answer' = NoAnswer
  /\ Leave
  /\ UNCHANGED <<clock, authVars, vaultVars>>

ClearVault ==
  /\ ClientRuns
  /\ Secrets!Clear
  /\ answer' = NoAnswer
  /\ UNCHANGED <<clock, authVars, stack>>

Next ==
  \/ TimePasses
  \/ \E u \in Users : Login(u)
  \/ \E t \in DOMAIN sessions : Unauthorized(t)
  \/ \E op \in Ops, t \in DOMAIN sessions, n \in Names :
       VaultRequest(op, t, n)
  \/ Change
  \/ Get
  \/ Decline
  \/ Answer
  \/ Raise
  \/ ClearVault

Spec == Init /\ [][Next]_vars

-------------------------------------------------------------------------------
TypeOK ==
  /\ Auths!TypeOK
  /\ Secrets!TypeOK
  /\ stack \in Seq([stage : {"checked"}, op : Ops, token : Auths!Tokens, name : Names]
                  \cup [stage : {"published"}, reads : DOMAIN entries \cup {NoEntry}])

\* Every version of a secret that is made names the user whose token it is, or
\* nobody (the fallback) if that token expired while its request was being
\* handled; and then the token is refused from there on.
ActorIsTokenUser ==
  [][\A e \in DOMAIN entries' :
       LET versions == entries'[e].versions IN
       e \notin DOMAIN entries \/ versions # entries[e].versions =>
         LET by == versions[Len(versions)] IN
         by = Top.token.user \/ (by = Fallback /\ Top.token \in refused')]_vars

\* get_secret's answer that a secret is not revoked is true of the entry it read
\* also when its listeners revoked that entry and stored another one under the
\* name: the entry is stored still, unless the vault was cleared.
AnswerTellsRevocation ==
  answer # NoAnswer =>
    \/ answer.revoked
    \/ \E n \in Names : secrets[n] = answer.entry
    \/ answer.entry \in cleared
===============================================================================
