----------------------------- MODULE Credentials -----------------------------
(***************************************************************************)
(* The credentials of the API (app/credentials): three places in order,    *)
(* the block the resolver has cached, and the exchange of a refresh token  *)
(* under one mutex.  The login file belongs to Claude Code, which exchanges *)
(* the same refresh token by itself; an endpoint that rotates takes each    *)
(* token once.                                                             *)
(*                                                                         *)
(* A block is the number of its access token and of its refresh token (0   *)
(* when it has none).  A token that is not in expired has an expiry more   *)
(* than refreshSkew away, or none.                                         *)
(***************************************************************************)
EXTENDS Naturals, Sequences, FiniteSets, SequencesExt

CONSTANTS
  Handlers,   \* requests that may call the model
  EnvRaw,     \* what the environment variable carries
  Rotates,    \* the endpoint answers with another refresh token each time
  MaxGrants   \* bound: exchanges of a refresh token

Sources == <<"env", "store", "file">> \* sourceOrder
Blocks == [access : Nat, refresh : Nat]
Absent == [access |-> 0, refresh |-> 0]
Nobody == "nobody"

(* What is pasted, or found in a place: the credentials file or its inner  *)
(* object, a bare token, or something that is refused.                     *)
Forms == {"empty", "wrapped", "object", "oauth", "apikey", "path", "other"}
Raws == [form : Forms, block : Blocks]

(* Parse: an object needs an access token; a bare token never expires and  *)
(* cannot be exchanged; Absent stands for the refusal.                     *)
Parse(raw) ==
  CASE raw.form \in {"wrapped", "object"} -> IF raw.block.access # 0 THEN raw.block ELSE Absent
    [] raw.form = "oauth" -> [access |-> raw.block.access, refresh |-> 0]
    [] OTHER -> Absent

ASSUME CredentialsAssumption ==
  /\ EnvRaw \in Raws /\ Rotates \in BOOLEAN /\ MaxGrants \in Nat
  /\ Nobody \notin Handlers /\ IsFiniteSet(Handlers)

VARIABLES
  held,     \* the block in each place, Absent when there is none
  torn,     \* places whose file cannot be parsed
  cached,   \* what the resolver has resolved, Absent when nothing
  origin,   \* the place it was resolved from
  valid,    \* the refresh token the endpoint takes
  grants,   \* the access tokens it has granted
  expired,  \* the access tokens that have expired, or are about to
  holder,   \* the request inside AccessToken that holds the mutex
  exchange, \* what it posts or has been granted, Absent before and after
  granted   \* the answer has come

places == <<held, torn>>
resolver == <<cached, origin, holder, exchange, granted>>
endpoint == <<valid, grants, expired>>
credentials == <<places, resolver, endpoint>>

CredentialsInit ==
  /\ held = [s \in Range(Sources) |->
               CASE s = "env" -> Parse(EnvRaw)
                 [] s = "store" -> Absent
                 [] s = "file" -> [access |-> 1, refresh |-> 1]]
  /\ torn = IF EnvRaw.form # "empty" /\ Parse(EnvRaw) = Absent THEN {"env"} ELSE {}
  /\ cached = Absent /\ origin = "file"
  /\ valid = 1 /\ grants = 1 /\ expired = {}
  /\ holder = Nobody /\ exchange = Absent /\ granted = FALSE

Present(s) == held[s] # Absent \/ s \in torn

(* resolveLocked: the first place that is there, and an error when it      *)
(* cannot be read.                                                         *)
Missing == cached = Absent /\ \A s \in Range(Sources) : ~Present(s)
First == SelectInSeq(Sources, Present)
Source == IF cached # Absent THEN origin ELSE Sources[First]
Unreadable == cached = Absent /\ ~Missing /\ Source \in torn
Resolved == IF cached # Absent THEN cached ELSE held[Source]
Resolves == ~Missing /\ ~Unreadable

Expiring(block) == block.access \in expired

(* Read again from its place, an expiring block may have been replaced.    *)
Readable(s) == held[s] # Absent /\ s \notin torn
Reread == IF Readable(Source) THEN held[Source] ELSE Resolved

(* AccessToken without an exchange: the cached block, or a fresh one. *)
TakeToken(h) ==
  /\ holder = Nobody /\ Resolves
  /\ LET block == IF Expiring(Resolved) THEN Reread ELSE Resolved IN
       /\ ~Expiring(block)
       /\ cached' = block /\ origin' = Source
  /\ UNCHANGED <<places, holder, exchange, granted, endpoint>>

(* Every place expiring: the mutex is kept for the exchange. *)
BeginExchange(h) ==
  /\ holder = Nobody /\ Resolves
  /\ Expiring(Resolved) /\ Expiring(Reread) /\ Reread.refresh # 0
  /\ cached' = Resolved /\ origin' = Source
  /\ holder' = h /\ exchange' = Reread
  /\ UNCHANGED <<places, endpoint, granted>>

(* Nothing to resolve, nothing readable, or nothing to exchange. *)
NoToken(h) ==
  /\ holder = Nobody
  /\ \/ ~Resolves /\ UNCHANGED <<cached, origin>>
     \/ /\ Resolves /\ Expiring(Resolved) /\ Expiring(Reread) /\ Reread.refresh = 0
        /\ cached' = Resolved /\ origin' = Source
  /\ UNCHANGED <<places, holder, exchange, granted, endpoint>>

Grant ==
  /\ grants < MaxGrants
  /\ grants' = grants + 1
  /\ valid' = IF Rotates THEN grants' ELSE valid
  /\ UNCHANGED expired

Post(h) ==
  /\ holder = h /\ ~granted /\ exchange.refresh = valid
  /\ Grant
  /\ exchange' = [access |-> grants', refresh |-> valid']
  /\ granted' = TRUE
  /\ UNCHANGED <<places, cached, origin, holder>>

Release == holder' = Nobody /\ exchange' = Absent /\ granted' = FALSE

(* Rejected, or never reached: the request fails and nothing has changed.  *)
ExchangeFails(h) ==
  /\ holder = h /\ ~granted
  /\ Release
  /\ UNCHANGED <<places, cached, origin, endpoint>>

(* The endpoint has granted and its answer is lost. *)
AnswerLost(h) ==
  /\ holder = h /\ granted
  /\ Release
  /\ UNCHANGED <<places, cached, origin, endpoint>>

PersistCached(h) ==
  /\ holder = h /\ granted
  /\ cached' = Absent
  /\ Release
  /\ UNCHANGED <<places, origin, endpoint>>

(* persistLocked: cached first, then written where it came from; the       *)
(* environment is not written.                                             *)
Persist(h) ==
  /\ holder = h /\ granted
  /\ cached' = exchange
  /\ held' = IF origin = "env" THEN held ELSE [held EXCEPT ![origin] = exchange]
  /\ torn' = torn \ {origin}
  /\ Release
  /\ UNCHANGED <<origin, endpoint>>

(* The write fails: the request fails, and the cache keeps the new block.  *)
PersistFails(h) ==
  /\ holder = h /\ granted /\ origin # "env"
  /\ cached' = exchange
  /\ Release
  /\ UNCHANGED <<places, origin, endpoint>>

-----------------------------------------------------------------------------
(* The person, Claude Code and the process *)

(* Resolved again by statusLocked, from the places as they now are. *)
ResolveAgain(places_, torn_) ==
  LET There(s) == places_[s] # Absent \/ s \in torn_
      s == Sources[SelectInSeq(Sources, There)]
  IN  IF SelectInSeq(Sources, There) = 0 \/ s \in torn_
      THEN cached' = Absent /\ UNCHANGED origin
      ELSE cached' = places_[s] /\ origin' = s

(* What is pasted is the login file, its token alone, or nothing that will *)
(* do, and that is refused before anything is written.                     *)
Store ==
  /\ holder = Nobody
  /\ \E form \in {"wrapped", "oauth", "apikey"} :
       LET block == Parse([form |-> form, block |-> held["file"]]) IN
         /\ block # Absent
         /\ held' = [held EXCEPT !["store"] = block]
         /\ torn' = torn \ {"store"}
  /\ ResolveAgain(held', torn')
  /\ UNCHANGED <<endpoint, holder, exchange, granted>>

Clear ==
  /\ holder = Nobody /\ Present("store")
  /\ held' = [held EXCEPT !["store"] = Absent]
  /\ torn' = torn \ {"store"}
  /\ ResolveAgain(held', torn')
  /\ UNCHANGED <<endpoint, holder, exchange, granted>>

(* Claude Code exchanges the token of the file, if the endpoint takes it.  *)
LoginRefreshes ==
  /\ held["file"].refresh = valid /\ "file" \notin torn
  /\ Grant
  /\ held' = [held EXCEPT !["file"] = [access |-> grants', refresh |-> valid']]
  /\ UNCHANGED <<torn, resolver>>

Expire ==
  /\ grants \notin expired
  /\ expired' = 1..grants
  /\ UNCHANGED <<places, resolver, valid, grants>>

(* A crash forgets the cache and what the endpoint has answered; in the    *)
(* middle of a write it leaves the file torn (os.WriteFile truncates).     *)
CrashCredentials ==
  /\ cached' = Absent /\ Release
  /\ \/ UNCHANGED places
     \/ /\ granted /\ origin # "env"
        /\ torn' = torn \cup {origin}
        /\ held' = [held EXCEPT ![origin] = Absent]
  /\ UNCHANGED <<origin, endpoint>>

People == Store \/ Clear \/ LoginRefreshes \/ Expire

-----------------------------------------------------------------------------

(* The refresh token the endpoint takes is somewhere it can be used again. *)
LoginHeld ==
  \/ \E s \in {"store", "file"} : Readable(s) /\ held[s].refresh = valid
  \/ cached # Absent /\ cached.refresh = valid
  \/ granted /\ exchange.refresh = valid

CredentialsTypeOK ==
  /\ held \in [Range(Sources) -> Blocks] /\ torn \subseteq Range(Sources)
  /\ cached \in Blocks /\ origin \in Range(Sources)
  /\ valid \in Nat /\ grants \in Nat /\ expired \subseteq 1..grants
  /\ holder \in Handlers \cup {Nobody}
  /\ exchange \in Blocks /\ granted \in BOOLEAN
  /\ (holder = Nobody) => (exchange = Absent /\ ~granted)

=============================================================================
