--------------------------- MODULE CredentialRefresh ---------------------------
(***************************************************************************)
(* One OAuth credential of a workspace on a host that keeps and refreshes  *)
(* it itself (a desktop or self-hosted one: FileCredentialStore):          *)
(* packages/host/src/credentials (refresh-coalescer, disconnect), the      *)
(* serve and revoked routes, and the capture that moves a login of the     *)
(* agent's runtime into the store.  The OAuth server is external: a        *)
(* refresh token is good for one exchange, and an exchange may be carried  *)
(* out and its answer lost.                                                *)
(*                                                                         *)
(* A token is named by its family - the login it descends from - and its   *)
(* generation; [fam, gen] stands for the access and the refresh token.     *)
(***************************************************************************)
EXTENDS Naturals

CONSTANTS
  Serves,      \* requests of runtimes for the access token
  MaxLogins,   \* bound: logins of the user
  MaxFlights   \* bound: refreshes started

ASSUME CredentialAssumption == MaxLogins \in Nat /\ MaxFlights \in Nat

VARIABLES
  row,        \* the stored credential, or NoCred
  logins,     \* logins so far
  grant,      \* OAuth server: per family the generation it refreshes, or 0
  aged,       \* tokens whose access token expires within the serve's margin
  login,      \* the refresh-bearing login the runtime holds, or NoCred
  flight,     \* the refreshes: [at, tok, out]
  flights,    \* how many were started
  slot,       \* inFlight: the refresh that later callers join, or 0
  cached,     \* results: the credential rotated last, or NoCred
  capture,    \* the capture of the login: [at, tok]
  serve,      \* per serve: [at, cred, joined], `cred` the row it read
  spoilt      \* history: the families whose stored refresh token may be dead
              \* for a reason outside the host's refreshing

vars == <<row, logins, grant, aged, login, flight, flights, slot, cached,
          capture, serve, spoilt>>

Families == 1..MaxLogins
Flights == 1..MaxFlights
NoCred == [fam |-> 0, gen |-> 0]
Tokens == [fam : Families, gen : 1..(MaxFlights + 1)]
Creds == Tokens \cup {NoCred}
Rotated(t) == [t EXCEPT !.gen = @ + 1]

\* Would the OAuth server still exchange it?
Alive(t) == t # NoCred /\ grant[t.fam] = t.gen

NoFlight == [at |-> "none", tok |-> NoCred, out |-> NoCred]
NoCapture == [at |-> "idle", tok |-> NoCred]
IdleServe == [at |-> "idle", cred |-> NoCred, joined |-> 0]

Init ==
  /\ row = NoCred
  /\ logins = 0
  /\ grant = [f \in Families |-> 0]
  /\ aged = {}
  /\ login = NoCred
  /\ flight = [i \in Flights |-> NoFlight]
  /\ flights = 0
  /\ slot = 0
  /\ cached = NoCred
  /\ capture = NoCapture
  /\ serve = [s \in Serves |-> IdleServe]
  /\ spoilt = {}

-----------------------------------------------------------------------------
(* The user.                                                               *)

\* The user logs in at the provider, through the runtime.
LogIn ==
  /\ logins < MaxLogins
  /\ logins' = logins + 1
  /\ login' = [fam |-> logins + 1, gen |-> 1]
  /\ grant' = [grant EXCEPT ![logins + 1] = 1]
  /\ UNCHANGED <<row, aged, flight, flights, slot, cached, capture, serve,
                 spoilt>>

\* captureRuntimeCredential, or the client's retry of it: the export is read.
Export ==
  /\ capture.at = "idle"
  /\ login # NoCred
  /\ capture' = [at |-> "exported", tok |-> login]
  /\ UNCHANGED <<row, logins, grant, aged, login, flight, flights, slot, cached,
                 serve, spoilt>>

\* The store takes it, whatever it holds.
Capture ==
  /\ capture.at = "exported"
  /\ row' = capture.tok
  /\ capture' = [capture EXCEPT !.at = "stored"]
  /\ spoilt' = IF Alive(capture.tok) THEN spoilt ELSE spoilt \cup {capture.tok.fam}
  /\ UNCHANGED <<logins, grant, aged, login, flight, flights, slot, cached,
                 serve>>

\* The runtime's refresh token is scrubbed; or that fails, the capture has
\* succeeded all the same, and the login stays.
Scrub ==
  /\ capture.at = "stored"
  /\ login' \in {login} \cup (IF login = capture.tok THEN {NoCred} ELSE {})
  /\ capture' = NoCapture
  /\ UNCHANGED <<row, logins, grant, aged, flight, flights, slot, cached, serve,
                 spoilt>>

\* forgetCredential; the client logs the runtime out alongside.
ForgetCredential ==
  /\ row # NoCred
  /\ row' = NoCred
  /\ login' = NoCred
  /\ UNCHANGED <<logins, grant, aged, flight, flights, slot, cached, capture,
                 serve, spoilt>>

-----------------------------------------------------------------------------
(* Serves.                                                                 *)

\* Mutant: every caller starts a refresh of its own.
StartsAlways ==
  /\ flights < MaxFlights
  /\ flights' = flights + 1
  /\ slot' = flights + 1
  /\ flight' = [flight EXCEPT ![flights + 1].at = "loading"]

\* The refresh under way, or a new one.
StartOrJoin ==
  IF slot # 0
    THEN UNCHANGED <<flight, flights, slot>>
    ELSE /\ flights < MaxFlights
         /\ flights' = flights + 1
         /\ slot' = flights + 1
         /\ flight' = [flight EXCEPT ![flights + 1].at = "loading"]

\* The row expires soon, and no fresh result answers at once.
Refresh(s) ==
  /\ serve[s].at = "idle"
  /\ row \in aged
  /\ cached = NoCred \/ cached \in aged
  /\ cached' = NoCred
  /\ StartOrJoin
  /\ serve' = [serve EXCEPT ![s] = [at |-> "waiting", cred |-> row,
                                    joined |-> slot']]
  /\ UNCHANGED <<row, logins, grant, aged, login, capture, spoilt>>

Joined(i) == {s \in Serves : serve[s].at = "waiting" /\ serve[s].joined = i}

\* Mutant: the slot is not freed.
KeepsSlot(i, next) ==
  /\ flight' = [flight EXCEPT ![i].at = "settled"]
  /\ slot' = slot
  /\ serve' = [s \in Serves |->
                 IF s \notin Joined(i) THEN serve[s]
                 ELSE IF next = "idle" THEN IdleServe
                 ELSE [serve[s] EXCEPT !.at = next]]

\* The flight is over: its slot is freed and its callers go on, to `next` or,
\* answered, to nothing more.
Settle(i, next) ==
  /\ flight' = [flight EXCEPT ![i].at = "settled"]
  /\ slot' = IF slot = i THEN 0 ELSE slot
  /\ serve' = [s \in Serves |->
                 IF s \notin Joined(i) THEN serve[s]
                 ELSE IF next = "idle" THEN IdleServe
                 ELSE [serve[s] EXCEPT !.at = next]]

\* load(), inside the critical section: really due, rotated by somebody else,
\* or gone.
Load(i) ==
  /\ flight[i].at = "loading"
  /\ IF row \in aged
       THEN /\ flight' = [flight EXCEPT ![i] = [at |-> "sent", tok |-> row,
                                                out |-> NoCred]]
            /\ UNCHANGED <<slot, serve, cached>>
       ELSE /\ cached' = IF row = NoCred THEN cached ELSE row
            /\ Settle(i, "idle")
  /\ UNCHANGED <<row, logins, grant, aged, login, flights, capture, spoilt>>

\* The exchange succeeded: persist, remember, answer.
Persist(i) ==
  /\ flight[i].at = "granted"
  /\ row' = flight[i].out
  /\ cached' = flight[i].out
  /\ Settle(i, "idle")
  /\ UNCHANGED <<logins, grant, aged, login, flights, capture, spoilt>>

\* The store takes the rotated credential and fails to write its file: it is
\* not remembered, and the callers serve what they had read.
PersistFails(i) ==
  /\ flight[i].at = "granted"
  /\ row' = flight[i].out
  /\ Settle(i, "idle")
  /\ UNCHANGED <<logins, grant, aged, login, flights, cached, capture, spoilt>>

\* A failure that condemns nothing: every caller serves what it had read.
FailSoftly(i) ==
  /\ flight[i].at = "lost"
  /\ Settle(i, "idle")
  /\ UNCHANGED <<row, logins, grant, aged, login, flights, cached, capture,
                 spoilt>>

Reject(i) ==
  /\ flight[i].at = "rejected"
  /\ Settle(i, "rejected")
  /\ UNCHANGED <<row, logins, grant, aged, login, flights, cached, capture,
                 spoilt>>

\* Mutant: whatever is stored goes.
RemovesAnything(t) == row # NoCred

\* removeIfAccess: only the credential that was named.
RemovesAccess(t) == row = t

\* Mutant: forget() evicts the refresh under way, too.
EvictsTheFlight(s) ==
  /\ serve[s].at = "rejected"
  /\ row' = IF RemovesAccess(serve[s].cred) THEN NoCred ELSE row
  /\ cached' = NoCred
  /\ slot' = 0
  /\ serve' = [serve EXCEPT ![s] = IdleServe]
  /\ UNCHANGED <<logins, grant, aged, login, flight, flights, capture, spoilt>>

\* disconnectRejectedCredential, with the credential this serve had read.
DisconnectRejected(s) ==
  /\ serve[s].at = "rejected"
  /\ row' = IF RemovesAccess(serve[s].cred) THEN NoCred ELSE row
  /\ cached' = NoCred
  /\ serve' = [serve EXCEPT ![s] = IdleServe]
  /\ UNCHANGED <<logins, grant, aged, login, flight, flights, slot, capture,
                 spoilt>>

\* A runtime reports a token that the provider has revoked.
ReportRevoked(t) ==
  /\ t.fam <= logins
  /\ grant[t.fam] = 0
  /\ RemovesAccess(t)
  /\ row' = NoCred
  /\ UNCHANGED <<logins, grant, aged, login, flight, flights, slot, cached,
                 capture, serve, spoilt>>

-----------------------------------------------------------------------------
(* Time, and the OAuth server.                                             *)

Age ==
  /\ row \notin aged \cup {NoCred}
  /\ aged' = aged \cup {row}
  /\ UNCHANGED <<row, logins, grant, login, flight, flights, slot, cached,
                 capture, serve, spoilt>>

ResultExpires ==
  /\ cached # NoCred
  /\ cached' = NoCred
  /\ UNCHANGED <<row, logins, grant, aged, login, flight, flights, slot,
                 capture, serve, spoilt>>

\* The refresh token the server knows is exchanged for the next one, and the
\* answer arrives.
Grant(i) ==
  /\ flight[i].at = "sent"
  /\ Alive(flight[i].tok)
  /\ grant' = [grant EXCEPT ![flight[i].tok.fam] = @ + 1]
  /\ flight' = [flight EXCEPT ![i].at = "granted",
                              ![i].out = Rotated(flight[i].tok)]
  /\ UNCHANGED <<row, logins, aged, login, flights, slot, cached, capture,
                 serve, spoilt>>

\* Any other is refused.
Refuse(i) ==
  /\ flight[i].at = "sent"
  /\ ~ Alive(flight[i].tok)
  /\ flight' = [flight EXCEPT ![i].at = "rejected"]
  /\ UNCHANGED <<row, logins, grant, aged, login, flights, slot, cached, capture,
                 serve, spoilt>>

\* The answer of an exchange that was carried out is lost.
LoseAnswer(i) ==
  /\ flight[i].at = "sent"
  /\ Alive(flight[i].tok)
  /\ grant' = [grant EXCEPT ![flight[i].tok.fam] = @ + 1]
  /\ flight' = [flight EXCEPT ![i].at = "lost"]
  /\ spoilt' = spoilt \cup {flight[i].tok.fam}
  /\ UNCHANGED <<row, logins, aged, login, flights, slot, cached, capture, serve>>

Unreachable(i) ==
  /\ flight[i].at = "sent"
  /\ flight' = [flight EXCEPT ![i].at = "lost"]
  /\ UNCHANGED <<row, logins, grant, aged, login, flights, slot, cached, capture,
                 serve, spoilt>>

Revoke(f) ==
  /\ grant[f] # 0
  /\ grant' = [grant EXCEPT ![f] = 0]
  /\ spoilt' = spoilt \cup {f}
  /\ UNCHANGED <<row, logins, aged, login, flight, flights, slot, cached,
                 capture, serve>>

-----------------------------------------------------------------------------
Answer(i) == Grant(i) \/ Refuse(i) \/ LoseAnswer(i) \/ Unreachable(i)
Finish(i) == Persist(i) \/ PersistFails(i) \/ FailSoftly(i) \/ Reject(i)
User == LogIn \/ Export \/ Capture \/ Scrub \/ ForgetCredential

Next ==
  \/ User
  \/ \E s \in Serves : Refresh(s) \/ DisconnectRejected(s)
  \/ \E i \in Flights : Load(i) \/ Answer(i) \/ Finish(i)
  \/ \E t \in Tokens : ReportRevoked(t)
  \/ Age
  \/ ResultExpires
  \/ \E f \in Families : Revoke(f)

Spec == Init /\ [][Next]_vars

\* The store answers, an exchange is answered or times out, and the callers go
\* on.
FairSpec ==
  /\ Spec
  /\ \A i \in Flights : WF_vars(Load(i)) /\ WF_vars(Answer(i)) /\ WF_vars(Finish(i))
  /\ \A s \in Serves : WF_vars(DisconnectRejected(s))

-----------------------------------------------------------------------------
(* Properties.                                                             *)

FlightStates ==
  {"none", "loading", "sent", "granted", "lost", "rejected", "settled"}

\* Every variable stays within its type: no refresh outlives the generations
\* and the slot names a refresh that was started.
TypeOK ==
  /\ row \in Creds
  /\ logins \in 0..MaxLogins
  /\ grant \in [Families -> 0..(MaxFlights + 1)]
  /\ aged \subseteq Tokens
  /\ login \in Creds
  /\ flight \in [Flights -> [at : FlightStates, tok : Creds, out : Creds]]
  /\ flights \in 0..MaxFlights
  /\ slot \in 0..flights
  /\ cached \in Creds
  /\ capture \in [at : {"idle", "exported", "stored"}, tok : Creds]
  /\ serve \in [Serves -> [at : {"idle", "waiting", "rejected"}, cred : Creds,
                           joined : 0..MaxFlights]]
  /\ spoilt \subseteq Families

Live(i) == flight[i].at \notin {"none", "settled"}

\* The host is the single rotator of the credential (refresh-coalescer.ts): two
\* refreshes never run at once, and the one that runs is the one later callers
\* join - a settling refresh never evicts its successor.
OneExchange == \A i \in Flights : Live(i) => slot = i

\* No serve waits for a refresh that is over.
WaitsForLive ==
  \A s \in Serves : serve[s].at = "waiting" => Live(serve[s].joined)

\* The burst of serves at the start of a turn never costs the user the login:
\* the server refuses a refresh token only when the provider revoked it, an
\* answer was lost, or a spent login was captured over it - never because of
\* the host's own refreshing (refresh-coalescer.ts: every loser gets
\* invalid_grant and the user is disconnected).
RefreshingNeverSpoils ==
  \A i \in Flights : flight[i].at = "rejected" => flight[i].tok.fam \in spoilt

\* A rejection signs the user out of the credential that was rejected only
\* (disconnect.ts): when the serve had read the one the refresh exchanged, what
\* it deletes is dead.  A serve that joined the refresh of an older credential
\* is excepted: it deletes the one it had read.
SignsOutOnlyTheDead ==
  [][\A s \in Serves :
       /\ serve[s].at = "rejected"
       /\ serve'[s].at = "idle"
       /\ serve[s].cred = flight[serve[s].joined].tok
       /\ row' # row
       => ~ Alive(row)]_vars

\* Every serve that waits for a refresh is answered.
EveryServeIsAnswered ==
  \A s \in Serves : serve[s].at # "idle" ~> serve[s].at = "idle"

\* What the coalescer says of a disconnect during a refresh, refresh-coalescer
\* .ts:53-57: the row the user deleted is not recreated.
NoRowRecreated == [][\A i \in Flights : Persist(i) => row # NoCred]_vars

=============================================================================
