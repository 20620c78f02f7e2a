-------------------------------- MODULE Vault ---------------------------------
(* VaultManager of src/src/vault.py: named secrets with versions.              *)
(*                                                                             *)
(* An entry is an object: store_secret puts a new one where a revoked one was, *)
(* and a caller that holds the old one goes on reading it.  Entries are        *)
(* numbered in the order of their making.  The operations here are what each   *)
(* method does before it publishes its event; what get_secret reads afterwards *)
(* is Service's.  Values, their encryption, descriptions, tags and the counts  *)
(* of accesses are left out.                                                   *)
EXTENDS Naturals, Sequences

CONSTANTS
  Names,
  Actors,
  NoEntry,      \* the name is not in _secrets
  Never         \* expires_at = None

VARIABLES
  clock,        \* time.time()
  secrets,      \* _secrets
  entries,      \* the entries made so far, versions being who made each
  cleared       \* entries that clear() dropped

vars == <<clock, secrets, entries, cleared>>

\* What the constants are, assumed by the modules that use this one.
VaultAssumption ==
  /\ NoEntry \notin Nat
  /\ Never \notin Nat

Init ==
  /\ secrets = [n \in Names |-> NoEntry]
  /\ entries = <<>>
  /\ cleared = {}

Stored(n) == secrets[n] # NoEntry

Usable(n) == Stored(n) /\ ~entries[secrets[n]].revoked

\* Only a positive time to live makes a secret expire.
ExpiryAfter(ttl) == IF ttl = 0 THEN Never ELSE clock + ttl

StoreSecret(n, actor, ttl) ==
  /\ ~Usable(n)
  /\ entries' = Append(entries, [name |-> n, versions |-> <<actor>>,
                                 expires |-> ExpiryAfter(ttl), revoked |-> FALSE])
  /\ secrets' = [secrets EXCEPT ![n] = Len(entries')]
  /\ UNCHANGED cleared

\* A new version leaves the expiry as it is, and an expired secret is rotated like
\* any other.
RotateSecret(n, actor) ==
  /\ Usable(n)
  /\ entries' = [entries EXCEPT ![secrets[n]].versions = Append(@, actor)]
  /\ UNCHANGED <<secrets, cleared>>

RevokeSecret(n) ==
  /\ Usable(n)
  /\ entries' = [entries EXCEPT ![secrets[n]].revoked = TRUE]
  /\ UNCHANGED <<secrets, cleared>>

\* get_secret goes on to publish exactly when this holds.
Readable(n) ==
  /\ Usable(n)
  /\ entries[secrets[n]].expires # Never => clock <= entries[secrets[n]].expires

Clear ==
  /\ cleared' = cleared \cup {secrets[n] : n \in {m \in Names : Stored(m)}}
  /\ secrets' = [n \in Names |-> NoEntry]
  /\ UNCHANGED entries

-------------------------------------------------------------------------------
Entry == [name : Names, versions : Seq(Actors), expires : Nat \cup {Never}, revoked : BOOLEAN]

TypeOK ==
  /\ entries \in Seq(Entry)
  /\ secrets \in [Names -> DOMAIN entries \cup {NoEntry}]
  /\ \A n \in Names : Stored(n) => entries[secrets[n]].name = n
  /\ cleared \subseteq DOMAIN entries
===============================================================================
