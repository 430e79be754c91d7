------------------------ MODULE CredentialRefreshProofs ------------------------
(***************************************************************************)
(* Proofs about CredentialRefresh, for any set of serves and any number of *)
(* logins and refreshes: the types, that one refresh runs at a time and no *)
(* serve is stranded, that the host's own refreshing spoils no login, and  *)
(* that a rejection signs the user out of nothing that lives.              *)
(***************************************************************************)
EXTENDS CredentialRefresh, TLAPS

-----------------------------------------------------------------------------
(* One refresh at a time.                                                  *)

\* The slot holds the refresh that runs, the latest; the refreshes are counted
\* by the generations they made.
FlightInv ==
  /\ \A i \in Flights : i > flights => flight[i].at = "none"
  /\ slot # 0 => slot = flights /\ Live(slot)
  /\ OneExchange
  /\ WaitsForLive
  /\ \A s \in Serves : serve[s].at # "idle" => serve[s].joined \in 1..flights
  /\ \A f \in Families :
       /\ grant[f] <= flights + 1
       /\ slot # 0 /\ flight[slot].at \in {"loading", "sent"} => grant[f] <= flights

FlightTokens ==
  \A i \in Flights :
    /\ flight[i].at \in {"sent", "granted", "lost", "rejected"}
         => flight[i].tok \in Tokens
    /\ flight[i].at = "granted" => flight[i].out = Rotated(flight[i].tok)
                                   /\ flight[i].out \in Tokens

\* What was exported is a token, and so is what was sent; a refresh that
\* succeeded rotated the token it had sent.
OutInv ==
  /\ capture.at # "idle" => capture.tok \in Tokens
  /\ FlightTokens

LEMMA TokensAre ==
  ASSUME NEW t \in Creds
  PROVE  t # NoCred <=> t \in Tokens
BY DEF Creds, Tokens, NoCred, Families

\* What the end of a refresh does.
LEMMA SettleIs ==
  ASSUME TypeOK, FlightInv, NEW i \in Flights, Live(i),
         NEW next \in {"idle", "rejected"}, Settle(i, next)
  PROVE  /\ flight' = [flight EXCEPT ![i].at = "settled"]
         /\ slot' = 0
         /\ \A j \in Flights : ~ Live(j)'
         /\ \A s \in Serves : serve[s].at # "waiting" => serve'[s] = serve[s]
         /\ \A s \in Serves :
              serve[s].at = "waiting" =>
                /\ serve[s].joined = i
                /\ next = "idle" => serve'[s] = IdleServe
                /\ next = "rejected" => serve'[s] = [serve[s] EXCEPT !.at = "rejected"]
<1>1. slot = i /\ flight' = [flight EXCEPT ![i].at = "settled"] /\ slot' = 0
  BY DEF Settle, FlightInv, OneExchange
<1>2. \A j \in Flights : ~ Live(j)'
  BY <1>1 DEF FlightInv, OneExchange, Live, TypeOK
<1>3. ASSUME NEW s \in Serves, serve[s].at = "waiting" PROVE serve[s].joined = i
  <2>1. Live(serve[s].joined) /\ serve[s].joined \in Flights
    BY <1>3 DEF FlightInv, WaitsForLive, Flights, TypeOK
  <2> QED BY <1>1, <2>1 DEF FlightInv, OneExchange
<1>4. \A s \in Serves :
        serve'[s] = IF s \notin Joined(i) THEN serve[s]
                    ELSE IF next = "idle" THEN IdleServe
                    ELSE [serve[s] EXCEPT !.at = next]
  BY DEF Settle
<1> QED BY <1>1, <1>2, <1>3, <1>4 DEF Joined

\* The end of a refresh keeps the types of what it changes.
LEMMA SettleType ==
  ASSUME TypeOK, NEW i \in Flights, NEW next \in {"idle", "rejected"}, Settle(i, next)
  PROVE  /\ flight' \in [Flights -> [at : FlightStates, tok : Creds, out : Creds]]
         /\ slot' \in 0..flights
         /\ serve' \in [Serves -> [at : {"idle", "waiting", "rejected"}, cred : Creds,
                                   joined : 0..MaxFlights]]
<1>1. flight' \in [Flights -> [at : FlightStates, tok : Creds, out : Creds]]
  BY DEF Settle, TypeOK, FlightStates
<1>2. slot' \in 0..flights
  BY DEF Settle, TypeOK
<1>3. IdleServe \in [at : {"idle", "waiting", "rejected"}, cred : Creds,
                     joined : 0..MaxFlights]
  BY CredentialAssumption DEF IdleServe, Creds
<1>4. serve' \in [Serves -> [at : {"idle", "waiting", "rejected"}, cred : Creds,
                             joined : 0..MaxFlights]]
  BY <1>3 DEF Settle, TypeOK
<1> QED BY <1>1, <1>2, <1>4

\* What the start of a refresh does.
LEMMA StartType ==
  ASSUME TypeOK, StartOrJoin
  PROVE  /\ flight' \in [Flights -> [at : FlightStates, tok : Creds, out : Creds]]
         /\ flights' \in 0..MaxFlights
         /\ slot' \in 0..flights' /\ slot' # 0
<1>1. CASE slot # 0
  BY <1>1 DEF StartOrJoin, TypeOK
<1>2. CASE slot = 0
  <2>1. /\ flights' = flights + 1 /\ slot' = flights + 1
        /\ flight' = [flight EXCEPT ![flights + 1].at = "loading"]
        /\ flights' \in 0..MaxFlights
    BY <1>2, CredentialAssumption DEF StartOrJoin, TypeOK
  <2>2. flight' \in [Flights -> [at : FlightStates, tok : Creds, out : Creds]]
    BY <2>1 DEF TypeOK, FlightStates
  <2>3. slot' \in 0..flights' /\ slot' # 0
    BY <2>1, CredentialAssumption DEF TypeOK
  <2> QED BY <2>1, <2>2, <2>3
<1> QED BY <1>1, <1>2

LEMMA TypeStep == TypeOK /\ FlightInv /\ OutInv /\ [Next]_vars => TypeOK'
<1> SUFFICES ASSUME TypeOK, FlightInv, OutInv, [Next]_vars PROVE TypeOK'
  OBVIOUS
<1>a. NoCred \in Creds /\ Tokens \subseteq Creds
  BY DEF Creds
<1>1. CASE LogIn
  <2>1. logins + 1 \in Families /\ 1 \in 1..(MaxFlights + 1)
    BY <1>1, CredentialAssumption DEF LogIn, Families, TypeOK
  <2>2. [fam |-> logins + 1, gen |-> 1] \in Tokens
    BY <2>1 DEF Tokens
  <2>3. grant' \in [Families -> 0..(MaxFlights + 1)]
    BY <1>1, <2>1, CredentialAssumption DEF LogIn, TypeOK
  <2>4. logins' \in 0..MaxLogins
    BY <1>1, CredentialAssumption DEF LogIn, TypeOK
  <2> QED BY <1>1, <1>a, <2>2, <2>3, <2>4 DEF LogIn, TypeOK
<1>2. CASE Export \/ Capture \/ Scrub \/ ForgetCredential
  <2>1. CASE Export
    BY <2>1 DEF Export, TypeOK
  <2>2. CASE Capture
    <3>1. spoilt' \subseteq Families
      <4>1. capture.tok.fam \in Families
        BY <2>2 DEF Capture, OutInv, Tokens
      <4> QED BY <2>2, <4>1 DEF Capture, TypeOK
    <3> QED BY <2>2, <3>1 DEF Capture, TypeOK
  <2>3. CASE Scrub \/ ForgetCredential
    BY <1>a, <2>3 DEF Scrub, ForgetCredential, NoCapture, TypeOK
  <2> QED BY <1>2, <2>1, <2>2, <2>3
<1>3. ASSUME NEW s \in Serves, Refresh(s) PROVE TypeOK'
  <2>1. slot' \in 0..MaxFlights
    BY <1>3, StartType, CredentialAssumption DEF Refresh, TypeOK
  <2>2. serve' \in [Serves -> [at : {"idle", "waiting", "rejected"}, cred : Creds,
                               joined : 0..MaxFlights]]
    BY <1>3, <2>1 DEF Refresh, TypeOK
  <2> QED BY <1>3, <1>a, <2>2, StartType DEF Refresh, TypeOK
<1>4. ASSUME NEW s \in Serves, DisconnectRejected(s) PROVE TypeOK'
  <2>1. IdleServe \in [at : {"idle", "waiting", "rejected"}, cred : Creds,
                       joined : 0..MaxFlights]
    BY <1>a, CredentialAssumption DEF IdleServe
  <2> QED BY <1>4, <1>a, <2>1 DEF DisconnectRejected, TypeOK
<1>5. ASSUME NEW i \in Flights, Load(i) PROVE TypeOK'
  <2>1. CASE row \in aged
    BY <1>5, <1>a, <2>1 DEF Load, TypeOK, FlightStates
  <2>2. CASE row \notin aged
    BY <1>5, <2>2, SettleType DEF Load, TypeOK
  <2> QED BY <2>1, <2>2
<1>6. ASSUME NEW i \in Flights, Finish(i) PROVE TypeOK'
  BY <1>6, SettleType DEF Finish, Persist, PersistFails, FailSoftly, Reject, TypeOK
<1>7. ASSUME NEW i \in Flights, Grant(i) \/ LoseAnswer(i) PROVE TypeOK'
  <2>1. flight[i].tok \in Tokens /\ flight[i].at = "sent"
    BY <1>7 DEF Grant, LoseAnswer, OutInv, FlightTokens
  <2>2. grant[flight[i].tok.fam] = flight[i].tok.gen
    BY <1>7 DEF Grant, LoseAnswer, Alive
  <2>3. flight[i].tok.fam \in Families /\ slot = i
    BY <2>1 DEF Tokens, FlightInv, OneExchange, Live
  <2>4. grant[flight[i].tok.fam] <= flights /\ flights <= MaxFlights
    BY <2>1, <2>3, CredentialAssumption DEF FlightInv, TypeOK, Flights
  <2>5. Rotated(flight[i].tok) \in Tokens
    BY <2>1, <2>2, <2>4, CredentialAssumption DEF Rotated, Tokens, TypeOK
  <2>6. grant' \in [Families -> 0..(MaxFlights + 1)]
    BY <1>7, <2>3, <2>4, CredentialAssumption DEF Grant, LoseAnswer, TypeOK
  <2>7. flight' \in [Flights -> [at : FlightStates, tok : Creds, out : Creds]]
    BY <1>7, <1>a, <2>5 DEF Grant, LoseAnswer, TypeOK, FlightStates
  <2>8. spoilt' \subseteq Families
    BY <1>7, <2>3 DEF Grant, LoseAnswer, TypeOK
  <2> QED BY <1>7, <2>6, <2>7, <2>8 DEF Grant, LoseAnswer, TypeOK
<1>8. ASSUME NEW i \in Flights, Refuse(i) \/ Unreachable(i) PROVE TypeOK'
  BY <1>8 DEF Refuse, Unreachable, TypeOK, FlightStates
<1>9. ASSUME NEW t \in Tokens, ReportRevoked(t) PROVE TypeOK'
  BY <1>9, <1>a DEF ReportRevoked, TypeOK
<1>10. CASE Age
  <2>1. row \in Tokens
    BY <1>10, TokensAre DEF Age, TypeOK
  <2> QED BY <1>10, <2>1 DEF Age, TypeOK
<1>11. CASE ResultExpires
  BY <1>11, <1>a DEF ResultExpires, TypeOK
<1>12. ASSUME NEW f \in Families, Revoke(f) PROVE TypeOK'
  BY <1>12, CredentialAssumption DEF Revoke, TypeOK
<1>13. CASE UNCHANGED vars
  BY <1>13 DEF vars, TypeOK
<1> QED BY <1>1, <1>2, <1>3, <1>4, <1>5, <1>6, <1>7, <1>8, <1>9, <1>10, <1>11,
           <1>12, <1>13 DEF Next, User, Answer

\* What the exchange changes, of the flight.
LEMMA AnswerIs ==
  ASSUME TypeOK, FlightInv, OutInv, NEW i \in Flights, Answer(i)
  PROVE  /\ flight[i].at = "sent" /\ slot = i /\ flight[i].tok \in Tokens
         /\ UNCHANGED <<slot, flights, serve, row, login, logins, capture>>
         /\ \A j \in Flights : j # i => flight'[j] = flight[j]
         /\ flight'[i].tok = flight[i].tok
         /\ flight'[i].at \in {"granted", "lost", "rejected"}
         /\ \/ grant' = grant /\ spoilt' = spoilt
            \/ /\ grant[flight[i].tok.fam] = flight[i].tok.gen
               /\ grant' = [grant EXCEPT ![flight[i].tok.fam] = @ + 1]
<1>1. flight[i].at = "sent"
  BY DEF Answer, Grant, Refuse, LoseAnswer, Unreachable
<1>2. slot = i /\ flight[i].tok \in Tokens
  BY <1>1 DEF FlightInv, OneExchange, Live, OutInv, FlightTokens
<1>3. UNCHANGED <<slot, flights, serve, row, login, logins, capture>>
  BY DEF Answer, Grant, Refuse, LoseAnswer, Unreachable
<1>4. /\ \A j \in Flights : j # i => flight'[j] = flight[j]
      /\ flight'[i].tok = flight[i].tok
      /\ flight'[i].at \in {"granted", "lost", "rejected"}
  BY DEF Answer, Grant, Refuse, LoseAnswer, Unreachable, TypeOK
<1>5. \/ grant' = grant /\ spoilt' = spoilt
      \/ /\ grant[flight[i].tok.fam] = flight[i].tok.gen
         /\ grant' = [grant EXCEPT ![flight[i].tok.fam] = @ + 1]
  BY DEF Answer, Grant, Refuse, LoseAnswer, Unreachable, Alive
<1> QED BY <1>1, <1>2, <1>3, <1>4, <1>5

\* The end of a refresh keeps the invariant of the flights.
LEMMA SettleFlightInv ==
  ASSUME TypeOK, FlightInv, NEW i \in Flights, Live(i),
         NEW next \in {"idle", "rejected"}, Settle(i, next),
         UNCHANGED <<flights, grant>>
  PROVE  FlightInv'
<1>1. /\ flight' = [flight EXCEPT ![i].at = "settled"]
      /\ slot' = 0
      /\ \A j \in Flights : ~ Live(j)'
  BY SettleIs
<1>2. ASSUME NEW s \in Serves
      PROVE  /\ serve'[s].at # "waiting"
             /\ serve'[s].at # "idle" => serve'[s].joined \in 1..flights'
  <2>1. serve[s].at # "idle" => serve[s].joined \in 1..flights
    BY DEF FlightInv
  <2>2. serve[s] \in [at : {"idle", "waiting", "rejected"}, cred : Creds,
                      joined : 0..MaxFlights]
    BY DEF TypeOK
  <2>3. \/ serve[s].at # "waiting" /\ serve'[s] = serve[s]
        \/ serve[s].at = "waiting" /\ serve'[s] = IdleServe
        \/ serve[s].at = "waiting" /\ serve'[s] = [serve[s] EXCEPT !.at = "rejected"]
    BY SettleIs
  <2> QED BY <2>1, <2>2, <2>3 DEF IdleServe
<1>4. \A j \in Flights : j > flights' => flight'[j].at = "none"
  BY <1>1 DEF FlightInv, Live, TypeOK
<1> QED BY <1>1, <1>2, <1>4 DEF FlightInv, OneExchange, WaitsForLive

LEMMA FlightStep ==
  TypeOK /\ FlightInv /\ OutInv /\ [Next]_vars => FlightInv'
<1> SUFFICES ASSUME TypeOK, FlightInv, OutInv, [Next]_vars PROVE FlightInv'
  OBVIOUS
<1>1. CASE LogIn
  <2>1. UNCHANGED <<flight, flights, slot, serve>>
    BY <1>1 DEF LogIn
  <2>2. ASSUME NEW f \in Families
        PROVE  grant'[f] = grant[f] \/ grant'[f] = 1
    BY <1>1 DEF LogIn, TypeOK
  <2>3. slot # 0 => 1 <= flights
    BY DEF TypeOK, FlightInv
  <2>4. flights \in Nat
    BY CredentialAssumption DEF TypeOK
  <2> QED BY <2>1, <2>2, <2>3, <2>4 DEF FlightInv, OneExchange, WaitsForLive, Live
<1>2. CASE UNCHANGED <<grant, flight, flights, slot, serve>>
  BY <1>2 DEF FlightInv, OneExchange, WaitsForLive, Live
<1>3. ASSUME NEW s \in Serves, Refresh(s) PROVE FlightInv'
  <2>1. /\ StartOrJoin /\ grant' = grant
        /\ serve' = [serve EXCEPT ![s] = [at |-> "waiting", cred |-> row,
                                          joined |-> slot']]
    BY <1>3 DEF Refresh
  <2>2. CASE slot # 0
    <3>1. UNCHANGED <<flight, flights, slot>>
      BY <2>1, <2>2 DEF StartOrJoin
    <3>2. Live(slot) /\ slot \in 1..flights
      BY <2>2 DEF FlightInv, TypeOK
    <3>3. \A t \in Serves : \/ serve'[t] = serve[t]
                            \/ serve'[t].at = "waiting" /\ serve'[t].joined = slot
      BY <2>1, <3>1 DEF TypeOK
    <3> QED BY <2>1, <3>1, <3>2, <3>3 DEF FlightInv, OneExchange, WaitsForLive, Live
  <2>3. CASE slot = 0
    <3>1. /\ flights < MaxFlights
          /\ flights' = flights + 1 /\ slot' = flights + 1
          /\ flight' = [flight EXCEPT ![flights + 1].at = "loading"]
      BY <2>1, <2>3 DEF StartOrJoin
    <3>2. flights \in Nat /\ flights + 1 \in Flights
      BY <3>1, CredentialAssumption DEF TypeOK, Flights
    <3>3. \A i \in Flights : ~ Live(i)
      BY <2>3 DEF FlightInv, OneExchange, Flights
    <3>4. \A i \in Flights : i # flights + 1 => flight'[i] = flight[i]
      BY <3>1 DEF TypeOK
    <3>5. flight'[flights + 1].at = "loading"
      BY <3>1, <3>2 DEF TypeOK
    <3>6. \A i \in Flights : Live(i)' <=> i = flights + 1
      BY <3>3, <3>4, <3>5 DEF Live
    <3>7. \A t \in Serves : t # s => serve'[t] = serve[t]
      BY <2>1 DEF TypeOK
    <3>8. serve'[s].at = "waiting" /\ serve'[s].joined = flights + 1
      BY <2>1, <3>1 DEF TypeOK
    <3>9. \A t \in Serves : t # s => serve[t].at # "waiting"
      BY <3>3, CredentialAssumption DEF FlightInv, WaitsForLive, Flights, TypeOK
    <3>10. WaitsForLive'
      BY <3>2, <3>6, <3>7, <3>8, <3>9 DEF WaitsForLive
    <3>11. \A t \in Serves : serve'[t].at # "idle" => serve'[t].joined \in 1..flights'
      BY <3>1, <3>2, <3>7, <3>8 DEF FlightInv
    <3>12. \A f \in Families : grant'[f] <= flights' /\ grant'[f] <= flights' + 1
      BY <2>1, <3>1, <3>2, CredentialAssumption DEF FlightInv, TypeOK
    <3>13. OneExchange'
      BY <3>1, <3>6 DEF OneExchange
    <3>14. \A i \in Flights : i > flights' => flight'[i].at = "none"
      BY <3>1, <3>2, <3>4 DEF FlightInv, Flights
    <3> QED BY <3>1, <3>2, <3>6, <3>10, <3>11, <3>12, <3>13, <3>14 DEF FlightInv
  <2> QED BY <2>2, <2>3
<1>4. ASSUME NEW s \in Serves, DisconnectRejected(s) PROVE FlightInv'
  <2>1. UNCHANGED <<grant, flight, flights, slot>>
    BY <1>4 DEF DisconnectRejected
  <2>2. \A t \in Serves : serve'[t] = serve[t] \/ serve'[t].at = "idle"
    BY <1>4 DEF DisconnectRejected, IdleServe, TypeOK
  <2> QED BY <2>1, <2>2 DEF FlightInv, OneExchange, WaitsForLive, Live
<1>5. ASSUME NEW i \in Flights, Load(i) PROVE FlightInv'
  <2>1. Live(i) /\ flight[i].at = "loading"
    BY <1>5 DEF Load, Live
  <2>2. CASE row \in aged
    <3>1. UNCHANGED <<grant, flights, slot, serve>>
      BY <1>5, <2>2 DEF Load
    <3>2. \A j \in Flights : j # i => flight'[j] = flight[j]
      BY <1>5, <2>2 DEF Load, TypeOK
    <3>3. flight'[i].at = "sent"
      BY <1>5, <2>2 DEF Load, TypeOK
    <3>4. \A j \in Flights : Live(j)' <=> Live(j)
      BY <2>1, <3>2, <3>3 DEF Live
    <3>5. i <= flights
      BY <2>1, CredentialAssumption DEF FlightInv, TypeOK, Flights
    <3>6. slot = i
      BY <2>1 DEF FlightInv, OneExchange
    <3>7. OneExchange'
      BY <3>1, <3>4 DEF FlightInv, OneExchange
    <3>8. \A s \in Serves : serve[s].at # "idle" => serve[s].joined \in Flights
      BY CredentialAssumption DEF FlightInv, TypeOK, Flights
    <3>9. WaitsForLive'
      BY <3>1, <3>4, <3>8 DEF FlightInv, WaitsForLive
    <3>10. \A j \in Flights : j > flights' => flight'[j].at = "none"
      BY <3>1, <3>2, <3>5, CredentialAssumption DEF FlightInv, Flights, TypeOK
    <3>11. \A f \in Families : grant'[f] <= flights' /\ grant'[f] <= flights' + 1
      BY <2>1, <3>1, <3>6 DEF FlightInv, Flights
    <3> QED BY <3>1, <3>4, <3>6, <3>7, <3>9, <3>10, <3>11 DEF FlightInv
  <2>3. CASE row \notin aged
    <3>1. Settle(i, "idle") /\ UNCHANGED <<flights, grant>>
      BY <1>5, <2>3 DEF Load
    <3> QED BY <2>1, <3>1, SettleFlightInv
  <2> QED BY <2>2, <2>3
<1>6. ASSUME NEW i \in Flights, Finish(i) PROVE FlightInv'
  <2>1. Live(i)
    BY <1>6 DEF Finish, Persist, PersistFails, FailSoftly, Reject, Live
  <2>2. /\ Settle(i, "idle") \/ Settle(i, "rejected")
        /\ UNCHANGED <<flights, grant>>
    BY <1>6 DEF Finish, Persist, PersistFails, FailSoftly, Reject
  <2> QED BY <2>1, <2>2, SettleFlightInv
<1>7. ASSUME NEW i \in Flights, Answer(i) PROVE FlightInv'
  <2>1. /\ flight[i].at = "sent" /\ slot = i /\ UNCHANGED <<slot, flights, serve>>
        /\ \A j \in Flights : j # i => flight'[j] = flight[j]
        /\ flight'[i].at \in {"granted", "lost", "rejected"}
    BY <1>7, AnswerIs
  <2>2. \A j \in Flights : Live(j)' <=> Live(j)
    BY <2>1 DEF Live
  <2>3. \A f \in Families : grant[f] <= flights /\ grant[f] \in Nat
    BY <2>1, CredentialAssumption DEF FlightInv, TypeOK, Flights
  <2>4. \A f \in Families : grant'[f] <= flights + 1
    <3>1. CASE grant' = grant
      BY <2>3, <3>1 DEF FlightInv
    <3>2. CASE grant' = [grant EXCEPT ![flight[i].tok.fam] = @ + 1]
      BY <2>3, <3>2, CredentialAssumption DEF TypeOK
    <3> QED BY <1>7, <3>1, <3>2, AnswerIs
  <2>5. OneExchange'
    BY <2>1, <2>2 DEF FlightInv, OneExchange
  <2>6. \A s \in Serves : serve[s].at # "idle" => serve[s].joined \in Flights
    BY CredentialAssumption DEF FlightInv, TypeOK, Flights
  <2>7. WaitsForLive'
    BY <2>1, <2>2, <2>6 DEF FlightInv, WaitsForLive
  <2>8. \A j \in Flights : j > flights' => flight'[j].at = "none"
    BY <2>1, CredentialAssumption DEF FlightInv, Flights, TypeOK
  <2> QED BY <2>1, <2>2, <2>4, <2>5, <2>7, <2>8 DEF FlightInv
<1>8. ASSUME NEW f \in Families, Revoke(f) PROVE FlightInv'
  <2>1. UNCHANGED <<flight, flights, slot, serve>>
    BY <1>8 DEF Revoke
  <2>2. \A g \in Families : grant'[g] = grant[g] \/ grant'[g] = 0
    BY <1>8 DEF Revoke, TypeOK
  <2>3. flights \in Nat
    BY CredentialAssumption DEF TypeOK
  <2> QED BY <2>1, <2>2, <2>3 DEF FlightInv, OneExchange, WaitsForLive, Live
<1>9. CASE Export \/ Capture \/ Scrub \/ ForgetCredential \/ Age \/ ResultExpires
  BY <1>2, <1>9 DEF Export, Capture, Scrub, ForgetCredential, Age, ResultExpires
<1>10. ASSUME NEW t \in Tokens, ReportRevoked(t) PROVE FlightInv'
  BY <1>2, <1>10 DEF ReportRevoked
<1>11. CASE UNCHANGED vars
  BY <1>2, <1>11 DEF vars
<1> QED BY <1>1, <1>3, <1>4, <1>5, <1>6, <1>7, <1>8, <1>9, <1>10, <1>11
        DEF Next, User

LEMMA OutStep == TypeOK /\ FlightInv /\ OutInv /\ [Next]_vars => OutInv'
<1> SUFFICES ASSUME TypeOK, FlightInv, OutInv, [Next]_vars PROVE OutInv'
  OBVIOUS
<1>1. capture'.at # "idle" => capture'.tok \in Tokens
  <2>1. CASE Export
    BY <2>1, TokensAre DEF Export, TypeOK
  <2>2. CASE Capture \/ Scrub
    BY <2>2 DEF Capture, Scrub, NoCapture, OutInv, TypeOK
  <2>3. CASE capture' = capture
    BY <2>3 DEF OutInv
  <2>4. Export \/ Capture \/ Scrub \/ capture' = capture
    BY DEF Next, User, LogIn, ForgetCredential, Refresh, DisconnectRejected, Load,
           Answer, Grant, Refuse, LoseAnswer, Unreachable, Finish, Persist,
           PersistFails, FailSoftly, Reject, ReportRevoked, Age, ResultExpires,
           Revoke, vars
  <2> QED BY <2>1, <2>2, <2>3, <2>4
<1>2. FlightTokens'
  <2>1. CASE UNCHANGED flight
    BY <2>1 DEF OutInv, FlightTokens
  <2>2. ASSUME NEW s \in Serves, Refresh(s) PROVE FlightTokens'
    <3>1. CASE slot # 0
      BY <2>1, <2>2, <3>1 DEF Refresh, StartOrJoin
    <3>2. CASE slot = 0
      <4>1. flight' = [flight EXCEPT ![flights + 1].at = "loading"]
        BY <2>2, <3>2 DEF Refresh, StartOrJoin
      <4>2. \A j \in Flights : flight'[j] = flight[j] \/ flight'[j].at = "loading"
        BY <4>1 DEF TypeOK
      <4> QED BY <4>2 DEF OutInv, FlightTokens
    <3> QED BY <3>1, <3>2
  <2>3. ASSUME NEW i \in Flights, Settle(i, "idle") \/ Settle(i, "rejected")
        PROVE  FlightTokens'
    <3>1. \A j \in Flights : flight'[j] = flight[j] \/ flight'[j].at = "settled"
      BY <2>3 DEF Settle, TypeOK
    <3> QED BY <3>1 DEF OutInv, FlightTokens
  <2>4. ASSUME NEW i \in Flights, Load(i) PROVE FlightTokens'
    <3>1. CASE row \in aged
      <4>1. row \in Tokens
        BY <3>1 DEF TypeOK
      <4>2. \A j \in Flights : \/ flight'[j] = flight[j]
                               \/ flight'[j].at = "sent" /\ flight'[j].tok = row
        BY <2>4, <3>1 DEF Load, TypeOK
      <4> QED BY <4>1, <4>2 DEF OutInv, FlightTokens
    <3>2. CASE row \notin aged
      BY <2>3, <2>4, <3>2 DEF Load
    <3> QED BY <3>1, <3>2
  <2>5. ASSUME NEW i \in Flights, Answer(i) PROVE FlightTokens'
    <3>1. CASE Grant(i)
      <4>1. /\ flight'[i].out = Rotated(flight[i].tok)
            /\ flight' \in [Flights -> [at : FlightStates, tok : Creds, out : Creds]]
        BY <3>1, TypeStep DEF Grant, TypeOK
      <4>2. flight'[i].out \in Creds /\ flight'[i].out # NoCred
        BY <4>1, <2>5, AnswerIs DEF Rotated, NoCred, Tokens, Families
      <4>3. flight'[i].out \in Tokens
        BY <4>2, TokensAre
      <4> QED BY <2>5, <4>1, <4>3, AnswerIs DEF OutInv, FlightTokens
    <3>2. CASE Refuse(i) \/ LoseAnswer(i) \/ Unreachable(i)
      <4>1. flight'[i].at # "granted"
        BY <3>2 DEF Refuse, LoseAnswer, Unreachable, TypeOK
      <4> QED BY <2>5, <4>1, AnswerIs DEF OutInv, FlightTokens
    <3> QED BY <2>5, <3>1, <3>2 DEF Answer
  <2>6. ASSUME NEW i \in Flights, Finish(i) PROVE FlightTokens'
    BY <2>3, <2>6 DEF Finish, Persist, PersistFails, FailSoftly, Reject
  <2>7. CASE User \/ Age \/ ResultExpires \/ UNCHANGED vars
    BY <2>1, <2>7 DEF User, LogIn, Export, Capture, Scrub, ForgetCredential, Age,
                      ResultExpires, vars
  <2>8. ASSUME NEW s \in Serves, DisconnectRejected(s) PROVE FlightTokens'
    BY <2>1, <2>8 DEF DisconnectRejected
  <2>9. ASSUME NEW t \in Tokens, ReportRevoked(t) PROVE FlightTokens'
    BY <2>1, <2>9 DEF ReportRevoked
  <2>10. ASSUME NEW f \in Families, Revoke(f) PROVE FlightTokens'
    BY <2>1, <2>10 DEF Revoke
  <2> QED BY <2>2, <2>4, <2>5, <2>6, <2>7, <2>8, <2>9, <2>10 DEF Next
<1> QED BY <1>1, <1>2 DEF OutInv

-----------------------------------------------------------------------------
(* No refresh is refused but for a reason of the user's or the provider's. *)

\* Was it handed out by the server?
Issued(t) ==
  t # NoCred => /\ t \in Tokens
                /\ t.fam <= logins
                /\ grant[t.fam] = 0 \/ t.gen <= grant[t.fam]

\* It was, and will never be exchanged again.
Dead(t) ==
  /\ t \in Tokens
  /\ t.fam <= logins
  /\ grant[t.fam] = 0 \/ t.gen < grant[t.fam]

\* Every token the host holds was handed out.
IssuedInv ==
  /\ Issued(row)
  /\ Issued(login)
  /\ Issued(capture.tok)
  /\ \A i \in Flights :
       /\ Issued(flight[i].tok)
       /\ flight[i].at = "granted" => Issued(flight[i].out)

\* Is it the token whose successor the host is about to store?
BeingReplaced(t) == \E i \in Flights : flight[i].at = "granted" /\ flight[i].tok = t

\* Unless spoilt, the stored token is good or being replaced, the one that was
\* sent is good, and so is the one that came back.
SpoilInv ==
  /\ row # NoCred /\ row.fam \notin spoilt => Alive(row) \/ BeingReplaced(row)
  /\ \A i \in Flights :
       /\ flight[i].at = "sent" /\ flight[i].tok.fam \notin spoilt
            => Alive(flight[i].tok)
       /\ flight[i].at = "granted" /\ flight[i].tok.fam \notin spoilt
            => Alive(flight[i].out)
  /\ RefreshingNeverSpoils

\* What was refused is dead, and stays what it was.
DeadInv ==
  /\ \A i \in Flights : flight[i].at = "rejected" => Dead(flight[i].tok)
  /\ \A s \in Serves : serve[s].at = "rejected" =>
       /\ flight[serve[s].joined].at = "settled"
       /\ Dead(flight[serve[s].joined].tok)

IInv ==
  TypeOK /\ FlightInv /\ OutInv /\ IssuedInv /\ SpoilInv /\ DeadInv

LEMMA BaseStep ==
  TypeOK /\ FlightInv /\ OutInv /\ [Next]_vars => (TypeOK /\ FlightInv /\ OutInv)'
BY TypeStep, FlightStep, OutStep

\* Logins are never forgotten; the grant of one is kept, rotated or revoked.
Follows(f) ==
  /\ f <= logins'
  /\ \/ grant'[f] = grant[f]
     \/ grant[f] # 0 /\ grant'[f] = grant[f] + 1
     \/ grant'[f] = 0

LEMMA GrantStep ==
  ASSUME TypeOK, FlightInv, OutInv, [Next]_vars, NEW f \in Families, f <= logins
  PROVE  Follows(f)
<1>1. CASE UNCHANGED <<logins, grant>>
  BY <1>1 DEF Follows
<1>2. CASE LogIn
  BY <1>2, CredentialAssumption DEF LogIn, TypeOK, Families, Follows
<1>3. ASSUME NEW i \in Flights, Answer(i) PROVE Follows(f)
  <2>1. CASE grant' = grant
    BY <1>1, <1>3, <2>1, AnswerIs
  <2>2. CASE /\ grant[flight[i].tok.fam] = flight[i].tok.gen
             /\ grant' = [grant EXCEPT ![flight[i].tok.fam] = @ + 1]
    <3>1. flight[i].tok.gen # 0 /\ logins' = logins
      BY <1>3, AnswerIs DEF Tokens
    <3> QED BY <2>2, <3>1 DEF TypeOK, Follows
  <2> QED BY <1>3, <2>1, <2>2, AnswerIs
<1>4. ASSUME NEW g \in Families, Revoke(g) PROVE Follows(f)
  BY <1>4 DEF Revoke, TypeOK, Follows
<1>5. LogIn \/ (\E i \in Flights : Answer(i)) \/ (\E g \in Families : Revoke(g))
        \/ UNCHANGED <<logins, grant>>
  BY DEF Next, User, Export, Capture, Scrub, ForgetCredential, Refresh,
         DisconnectRejected, Load, Finish, Persist, PersistFails, FailSoftly, Reject,
         ReportRevoked, Age, ResultExpires, vars
<1> QED BY <1>1, <1>2, <1>3, <1>4, <1>5

\* What was handed out stays so, and nothing revives what is dead.
LEMMA IssuedStays ==
  ASSUME TypeOK, FlightInv, OutInv, [Next]_vars, NEW t \in Tokens, t.fam <= logins
  PROVE  /\ t.fam <= logins'
         /\ grant[t.fam] = 0 \/ t.gen <= grant[t.fam]
              => grant'[t.fam] = 0 \/ t.gen <= grant'[t.fam]
         /\ grant[t.fam] = 0 \/ t.gen < grant[t.fam]
              => grant'[t.fam] = 0 \/ t.gen < grant'[t.fam]
<1>1. t.fam \in Families /\ t.gen \in Nat /\ grant[t.fam] \in Nat
  BY CredentialAssumption DEF Tokens, TypeOK
<1>2. Follows(t.fam)
  BY <1>1, GrantStep
<1> QED BY <1>1, <1>2 DEF Follows

LEMMA IssuedStep ==
  TypeOK /\ FlightInv /\ OutInv /\ IssuedInv /\ [Next]_vars => IssuedInv'
<1> SUFFICES ASSUME TypeOK, FlightInv, OutInv, IssuedInv, [Next]_vars
             PROVE  IssuedInv'
  OBVIOUS
<1> DEFINE Still(t) == t # NoCred =>
                         /\ t \in Tokens
                         /\ t.fam <= logins'
                         /\ grant'[t.fam] = 0 \/ t.gen <= grant'[t.fam]
<1>0. Still(NoCred) /\ \A t : Issued(t) => Still(t)
  BY IssuedStays DEF Issued
<1>1. Still(row) /\ Still(login) /\ Still(capture.tok)
  BY <1>0 DEF IssuedInv
<1>2. \A j \in Flights : /\ Still(flight[j].tok)
                         /\ flight[j].at = "granted" => Still(flight[j].out)
  BY <1>0 DEF IssuedInv
<1>3. SUFFICES /\ Still(row') /\ Still(login') /\ Still(capture'.tok)
               /\ \A j \in Flights :
                    /\ Still(flight'[j].tok)
                    /\ flight'[j].at = "granted" => Still(flight'[j].out)
  BY DEF IssuedInv, Issued
<1>4. Still(row')
  <2>1. \/ row' \in {row, NoCred, capture.tok}
        \/ \E i \in Flights : flight[i].at = "granted" /\ row' = flight[i].out
    BY DEF Next, User, LogIn, Export, Capture, Scrub, ForgetCredential, Refresh,
           DisconnectRejected, Load, Answer, Grant, Refuse, LoseAnswer, Unreachable,
           Finish, Persist, PersistFails, FailSoftly, Reject, ReportRevoked, Age,
           ResultExpires, Revoke, vars
  <2> HIDE DEF Still
  <2> QED BY <1>0, <1>1, <1>2, <2>1
<1>5. Still(login')
  <2>1. CASE LogIn
    <3>1. login' = [fam |-> logins + 1, gen |-> 1] /\ logins' = logins + 1
      BY <2>1 DEF LogIn
    <3>2. logins + 1 \in Families
      BY <2>1, CredentialAssumption DEF LogIn, TypeOK, Families
    <3>3. grant'[logins + 1] = 1
      BY <2>1, <3>2 DEF LogIn, TypeOK
    <3>4. logins + 1 <= logins' /\ 1 \in 1..(MaxFlights + 1)
      BY <3>1, CredentialAssumption DEF TypeOK
    <3> QED BY <3>1, <3>2, <3>3, <3>4 DEF Tokens
  <2>2. LogIn \/ login' \in {login, NoCred}
    BY DEF Next, User, Export, Capture, Scrub, ForgetCredential, Refresh,
           DisconnectRejected, Load, Answer, Grant, Refuse, LoseAnswer, Unreachable,
           Finish, Persist, PersistFails, FailSoftly, Reject, ReportRevoked, Age,
           ResultExpires, Revoke, vars
  <2> HIDE DEF Still
  <2> QED BY <1>0, <1>1, <2>1, <2>2
<1>6. Still(capture'.tok)
  <2>1. capture' = capture \/ Export \/ Capture \/ Scrub
    BY DEF Next, User, LogIn, ForgetCredential, Refresh, DisconnectRejected, Load,
           Answer, Grant, Refuse, LoseAnswer, Unreachable, Finish, Persist,
           PersistFails, FailSoftly, Reject, ReportRevoked, Age, ResultExpires,
           Revoke, vars
  <2>2. Export => capture'.tok = login
    BY DEF Export
  <2>3. Capture => capture'.tok = capture.tok
    BY DEF Capture, TypeOK
  <2>4. Scrub => capture'.tok = NoCred
    BY DEF Scrub, NoCapture
  <2> HIDE DEF Still
  <2> QED BY <1>0, <1>1, <2>1, <2>2, <2>3, <2>4
<1>7. ASSUME NEW j \in Flights
      PROVE  /\ Still(flight'[j].tok)
             /\ flight'[j].at = "granted" => Still(flight'[j].out)
  <2>1. CASE flight'[j] = flight[j]
    BY <1>2, <2>1
  <2>2. CASE flight'[j].tok \in {flight[j].tok, row} /\ flight'[j].at # "granted"
    <3> HIDE DEF Still
    <3> QED BY <1>1, <1>2, <2>2
  <2>3. CASE Grant(j)
    <3>1. /\ flight'[j].tok = flight[j].tok /\ flight[j].tok \in Tokens
          /\ logins' = logins
      BY <2>3, AnswerIs DEF Answer
    <3>2. flight[j].tok # NoCred
      BY <3>1, TokensAre DEF Creds
    <3>3. /\ flight'[j].out = Rotated(flight[j].tok)
          /\ flight'[j].at = "granted"
          /\ grant'[flight[j].tok.fam] = grant[flight[j].tok.fam] + 1
          /\ grant[flight[j].tok.fam] = flight[j].tok.gen
      BY <2>3, <3>1 DEF Grant, TypeOK, Alive, Tokens
    <3>4. flight'[j].out \in Tokens
      BY <3>3, BaseStep DEF OutInv, FlightTokens
    <3>5. /\ flight'[j].out.fam = flight[j].tok.fam
          /\ flight'[j].out.gen = flight[j].tok.gen + 1
      BY <3>1, <3>3 DEF Rotated, Tokens
    <3>6. flight[j].tok.fam <= logins'
      BY <3>1, <3>2 DEF IssuedInv, Issued
    <3>7. grant'[flight'[j].out.fam] = flight'[j].out.gen
      BY <3>3, <3>5
    <3>8. flight'[j].out.gen \in Nat
      BY <3>4, CredentialAssumption DEF Tokens
    <3>9. Still(flight'[j].out)
      BY <3>4, <3>5, <3>6, <3>7, <3>8
    <3> QED BY <1>2, <3>1, <3>9
  <2> DEFINE Known == \/ flight'[j] = flight[j]
                      \/ flight'[j].tok \in {flight[j].tok, row}
                           /\ flight'[j].at # "granted"
                      \/ Grant(j)
  <2>4. Known
    <3>1. ASSUME NEW i \in Flights, Answer(i) PROVE Known
      BY <3>1, AnswerIs DEF Answer, Refuse, LoseAnswer, Unreachable, TypeOK
    <3>2. ASSUME NEW i \in Flights, Load(i) PROVE Known
      BY <3>2 DEF Load, Settle, TypeOK
    <3>3. ASSUME NEW i \in Flights, Finish(i) PROVE Known
      BY <3>3 DEF Finish, Persist, PersistFails, FailSoftly, Reject, Settle, TypeOK
    <3>4. ASSUME NEW s \in Serves, Refresh(s) PROVE Known
      BY <3>4 DEF Refresh, StartOrJoin, TypeOK
    <3>5. CASE flight' = flight
      BY <3>5
    <3>6. \/ \E i \in Flights : Answer(i) \/ Load(i) \/ Finish(i)
          \/ \E s \in Serves : Refresh(s)
          \/ flight' = flight
      BY DEF Next, User, LogIn, Export, Capture, Scrub, ForgetCredential,
             DisconnectRejected, ReportRevoked, Age, ResultExpires, Revoke, vars
    <3> HIDE DEF Known
    <3> QED BY <3>1, <3>2, <3>3, <3>4, <3>5, <3>6
  <2> QED BY <2>1, <2>2, <2>3, <2>4
<1> HIDE DEF Still
<1> QED BY <1>4, <1>5, <1>6, <1>7

\* A refresh that ends condemns nothing that was good.
LEMMA SettleSpoil ==
  ASSUME TypeOK, FlightInv, SpoilInv, NEW i \in Flights, Live(i),
         NEW next \in {"idle", "rejected"}, Settle(i, next),
         UNCHANGED <<grant, spoilt>>,
         row' # NoCred /\ row'.fam \notin spoilt => Alive(row')
  PROVE  SpoilInv'
<1>1. \A j \in Flights : ~ Live(j)'
  BY SettleIs
<1>2. \A j \in Flights : flight'[j].at \notin {"sent", "granted", "rejected"}
  BY <1>1 DEF Live
<1> QED BY <1>2 DEF SpoilInv, Alive, RefreshingNeverSpoils

LEMMA SpoilStep ==
  TypeOK /\ FlightInv /\ OutInv /\ IssuedInv /\ SpoilInv /\ [Next]_vars => SpoilInv'
<1> SUFFICES ASSUME TypeOK, FlightInv, OutInv, IssuedInv, SpoilInv, [Next]_vars
             PROVE  SpoilInv'
  OBVIOUS
<1>a. OutInv'
  BY BaseStep
<1>1. CASE /\ UNCHANGED <<grant, flight, spoilt>>
           /\ row' \in {row, NoCred}
  BY <1>1 DEF SpoilInv, Alive, BeingReplaced, RefreshingNeverSpoils
<1>2. CASE LogIn
  <2>1. UNCHANGED <<row, flight, spoilt>>
    BY <1>2 DEF LogIn
  <2>2. ASSUME NEW t, Issued(t), Alive(t) PROVE Alive(t)'
    <3>1. t.fam # logins + 1 /\ t.fam \in Families
      BY <2>2, CredentialAssumption DEF Issued, Alive, Tokens, Families, TypeOK
    <3>2. grant'[t.fam] = grant[t.fam]
      BY <1>2, <3>1 DEF LogIn, TypeOK
    <3> QED BY <2>2, <3>2 DEF Alive
  <2> QED BY <2>1, <2>2 DEF SpoilInv, IssuedInv, BeingReplaced, RefreshingNeverSpoils
<1>3. CASE Capture
  <2>1. UNCHANGED <<grant, flight>> /\ spoilt \subseteq spoilt'
    BY <1>3 DEF Capture
  <2>2. row'.fam \notin spoilt' => Alive(row')
    BY <1>3 DEF Capture
  <2> QED BY <2>1, <2>2 DEF SpoilInv, Alive, RefreshingNeverSpoils
<1>4. ASSUME NEW s \in Serves, Refresh(s) PROVE SpoilInv'
  <2>1. UNCHANGED <<row, grant, spoilt>> /\ StartOrJoin
    BY <1>4 DEF Refresh
  <2>2. CASE slot # 0
    BY <1>1, <2>1, <2>2 DEF StartOrJoin
  <2>3. CASE slot = 0
    <3>1. flight' = [flight EXCEPT ![flights + 1].at = "loading"]
      BY <2>1, <2>3 DEF StartOrJoin
    <3>2. \A j \in Flights : ~ Live(j)
      BY <2>3 DEF FlightInv, OneExchange, Flights
    <3>3. \A j \in Flights : flight'[j] = flight[j] \/ flight'[j].at = "loading"
      BY <3>1 DEF TypeOK
    <3>4. \A j \in Flights : flight'[j].at \notin {"sent", "granted", "rejected"}
      BY <3>2, <3>3 DEF Live
    <3>5. row # NoCred /\ row.fam \notin spoilt => Alive(row)
      BY <3>2 DEF SpoilInv, BeingReplaced, Live
    <3> QED BY <2>1, <3>4, <3>5 DEF SpoilInv, Alive, RefreshingNeverSpoils
  <2> QED BY <2>2, <2>3
<1>5. ASSUME NEW i \in Flights, Load(i) PROVE SpoilInv'
  <2>1. Live(i) /\ flight[i].at = "loading" /\ UNCHANGED <<row, grant, spoilt>>
    BY <1>5 DEF Load, Live
  <2>2. \A j \in Flights : Live(j) => j = i
    BY <2>1 DEF FlightInv, OneExchange
  <2>3. row # NoCred /\ row.fam \notin spoilt => Alive(row)
    BY <2>1, <2>2 DEF SpoilInv, BeingReplaced, Live
  <2>4. CASE row \in aged
    <3>1. \A j \in Flights : j # i => flight'[j] = flight[j] /\ ~ Live(j)
      BY <1>5, <2>2, <2>4 DEF Load, TypeOK
    <3>2. flight'[i].at = "sent" /\ flight'[i].tok = row
      BY <1>5, <2>4 DEF Load, TypeOK
    <3>3. row # NoCred
      BY <2>4, TokensAre DEF TypeOK, Creds
    <3> QED BY <2>1, <2>3, <3>1, <3>2, <3>3
            DEF SpoilInv, Alive, Live, RefreshingNeverSpoils
  <2>5. CASE row \notin aged
    <3>1. Settle(i, "idle")
      BY <1>5, <2>5 DEF Load
    <3> QED BY <2>1, <2>3, <3>1, SettleSpoil
  <2> QED BY <2>4, <2>5
<1>6. ASSUME NEW i \in Flights, Finish(i) PROVE SpoilInv'
  <2>1. Live(i) /\ UNCHANGED <<grant, spoilt>>
    BY <1>6 DEF Finish, Persist, PersistFails, FailSoftly, Reject, Live
  <2>2. Settle(i, "idle") \/ Settle(i, "rejected")
    BY <1>6 DEF Finish, Persist, PersistFails, FailSoftly, Reject
  <2>3. row' # NoCred /\ row'.fam \notin spoilt => Alive(row')
    <3>1. CASE flight[i].at = "granted" /\ row' = flight[i].out
      <4>1. /\ flight[i].tok \in Tokens
            /\ flight[i].out = Rotated(flight[i].tok)
        BY <3>1 DEF OutInv, FlightTokens
      <4>2. row'.fam = flight[i].tok.fam
        BY <3>1, <4>1 DEF Rotated, Tokens
      <4> QED BY <3>1, <4>2 DEF SpoilInv
    <3>2. CASE flight[i].at # "granted" /\ row' = row
      <4>1. \A j \in Flights : flight[j].at # "granted"
        BY <2>1, <3>2 DEF FlightInv, OneExchange, Live
      <4> QED BY <3>2, <4>1 DEF SpoilInv, BeingReplaced
    <3> QED BY <1>6, <3>1, <3>2
            DEF Finish, Persist, PersistFails, FailSoftly, Reject
  <2> QED BY <2>1, <2>2, <2>3, SettleSpoil
<1>7. ASSUME NEW i \in Flights, Answer(i) PROVE SpoilInv'
  <2>1. /\ flight[i].at = "sent" /\ flight[i].tok \in Tokens /\ row' = row
        /\ \A j \in Flights : j # i => flight'[j] = flight[j]
        /\ flight'[i].tok = flight[i].tok
        /\ flight'[i].at \in {"granted", "lost", "rejected"}
    BY <1>7, AnswerIs
  <2>2. \A j \in Flights : j # i => ~ Live(j)
    BY <2>1 DEF FlightInv, OneExchange, Live
  <2>3. row # NoCred /\ row.fam \notin spoilt => Alive(row)
    BY <2>1, <2>2 DEF SpoilInv, BeingReplaced, Live
  <2>4. \A j \in Flights : j # i =>
          flight'[j].at \notin {"sent", "granted", "rejected"}
    BY <2>1, <2>2 DEF Live
  <2>5. CASE Refuse(i) \/ Unreachable(i)
    <3>1. UNCHANGED <<grant, spoilt>> /\ flight'[i].at # "granted"
      BY <2>5 DEF Refuse, Unreachable, TypeOK
    <3>2. flight'[i].at = "rejected" => flight[i].tok.fam \in spoilt
      BY <2>1, <2>5 DEF Refuse, Unreachable, SpoilInv, TypeOK
    <3> QED BY <2>1, <2>3, <2>4, <3>1, <3>2
            DEF SpoilInv, Alive, RefreshingNeverSpoils
  <2>6. CASE LoseAnswer(i)
    <3>1. /\ spoilt' = spoilt \cup {flight[i].tok.fam}
          /\ grant' = [grant EXCEPT ![flight[i].tok.fam] = @ + 1]
          /\ flight'[i].at = "lost"
      BY <2>6 DEF LoseAnswer, TypeOK
    <3>2. row # NoCred /\ row.fam \notin spoilt' => Alive(row)'
      BY <2>1, <2>3, <3>1 DEF Alive, TypeOK, Creds, Tokens
    <3> QED BY <2>1, <2>4, <3>1, <3>2 DEF SpoilInv, RefreshingNeverSpoils
  <2>7. CASE Grant(i)
    <3>1. /\ spoilt' = spoilt
          /\ grant' = [grant EXCEPT ![flight[i].tok.fam] = @ + 1]
          /\ grant[flight[i].tok.fam] = flight[i].tok.gen
          /\ flight'[i].at = "granted"
      BY <2>7 DEF Grant, Alive, TypeOK
    <3>2. /\ flight'[i].out = Rotated(flight[i].tok)
          /\ flight'[i].out \in Tokens
      BY <1>a, <2>1, <3>1 DEF OutInv, FlightTokens
    <3>3. /\ flight'[i].out.fam = flight[i].tok.fam
          /\ flight'[i].out.gen = flight[i].tok.gen + 1
      BY <2>1, <3>2 DEF Rotated, Tokens
    <3>4. Alive(flight[i].out)'
      <4>1. flight'[i].out # NoCred
        BY <3>2, TokensAre DEF Creds
      <4>2. grant'[flight[i].tok.fam] = flight[i].tok.gen + 1
        BY <2>1, <3>1 DEF TypeOK, Tokens
      <4> QED BY <3>3, <4>1, <4>2 DEF Alive
    <3>5. row # NoCred /\ row.fam \notin spoilt => Alive(row)' \/ row = flight[i].tok
      <4>1. CASE row # NoCred /\ row.fam = flight[i].tok.fam /\ Alive(row)
        <5>1. row \in Tokens /\ row.gen = flight[i].tok.gen
          BY <4>1, <3>1, TokensAre DEF TypeOK, Alive
        <5> QED BY <2>1, <4>1, <5>1 DEF Tokens
      <4>2. CASE row # NoCred /\ row.fam # flight[i].tok.fam /\ Alive(row)
        <5>1. row \in Tokens
          BY <4>2, TokensAre DEF TypeOK
        <5> QED BY <2>1, <4>2, <5>1, <3>1 DEF Alive, TypeOK, Tokens
      <4> QED BY <2>3, <4>1, <4>2
    <3>6. row # NoCred /\ row.fam \notin spoilt
            => Alive(row)' \/ BeingReplaced(row)'
      BY <2>1, <3>1, <3>5 DEF BeingReplaced
    <3> QED BY <2>1, <2>4, <3>1, <3>4, <3>6 DEF SpoilInv, RefreshingNeverSpoils
  <2> QED BY <1>7, <2>5, <2>6, <2>7 DEF Answer
<1>8. ASSUME NEW f \in Families, Revoke(f) PROVE SpoilInv'
  <2>1. /\ UNCHANGED <<row, flight>> /\ spoilt' = spoilt \cup {f}
        /\ \A g \in Families : g # f => grant'[g] = grant[g]
    BY <1>8 DEF Revoke, TypeOK
  <2>2. ASSUME NEW t \in Creds, Alive(t), t.fam \notin spoilt' PROVE Alive(t)'
    BY <2>1, <2>2 DEF Alive, Creds, Tokens
  <2>3. row \in Creds /\ \A j \in Flights : flight[j].tok \in Creds
                                            /\ flight[j].out \in Creds
    BY DEF TypeOK
  <2>4. \A j \in Flights : flight[j].at = "granted" =>
          flight[j].out.fam = flight[j].tok.fam
    BY DEF OutInv, FlightTokens, Rotated, Tokens
  <2> QED BY <2>1, <2>2, <2>3, <2>4
          DEF SpoilInv, BeingReplaced, RefreshingNeverSpoils
<1>9. CASE UNCHANGED <<row, grant, flight, spoilt>>
  BY <1>1, <1>9
<1>10. CASE Export \/ Scrub \/ Age \/ ResultExpires \/ UNCHANGED vars
  BY <1>9, <1>10 DEF Export, Scrub, Age, ResultExpires, vars
<1>11. CASE ForgetCredential
  BY <1>1, <1>11 DEF ForgetCredential
<1>12. ASSUME NEW s \in Serves, DisconnectRejected(s) PROVE SpoilInv'
  BY <1>1, <1>12 DEF DisconnectRejected
<1>13. ASSUME NEW t \in Tokens, ReportRevoked(t) PROVE SpoilInv'
  BY <1>1, <1>13 DEF ReportRevoked
<1> QED BY <1>2, <1>3, <1>4, <1>5, <1>6, <1>7, <1>8, <1>10, <1>11, <1>12, <1>13
        DEF Next, User

LEMMA DeadStep ==
  TypeOK /\ FlightInv /\ OutInv /\ IssuedInv /\ DeadInv /\ [Next]_vars => DeadInv'
<1> SUFFICES ASSUME TypeOK, FlightInv, OutInv, IssuedInv, DeadInv, [Next]_vars
             PROVE  DeadInv'
  OBVIOUS
<1>1. \A t : Dead(t) => Dead(t)'
  BY IssuedStays DEF Dead
<1>2. CASE UNCHANGED <<flight, serve>>
  <2> HIDE DEF Dead
  <2>1. \A t \in Creds : Dead(t) => Dead(t)'
    BY <1>1
  <2> QED BY <1>1, <1>2, <2>1 DEF DeadInv
<1>3. ASSUME NEW i \in Flights, NEW next \in {"idle", "rejected"}, Live(i),
             Settle(i, next), next = "rejected" => flight[i].at = "rejected"
      PROVE  DeadInv'
  <2>1. /\ flight' = [flight EXCEPT ![i].at = "settled"]
        /\ \A j \in Flights : ~ Live(j)'
    BY <1>3, SettleIs
  <2>2. \A j \in Flights : flight'[j].tok = flight[j].tok
    BY <2>1 DEF TypeOK
  <2>3. flight'[i].at = "settled"
    BY <2>1 DEF TypeOK
  <2>4. \A j \in Flights : j # i => flight'[j] = flight[j]
    BY <2>1 DEF TypeOK
  <2>5. ASSUME NEW s \in Serves, serve'[s].at = "rejected"
        PROVE  /\ flight'[serve'[s].joined].at = "settled"
               /\ Dead(flight[serve'[s].joined].tok)
               /\ serve'[s].joined \in Flights
    <3>1. CASE serve[s].at = "waiting"
      <4>1. next = "rejected" /\ serve'[s] = [serve[s] EXCEPT !.at = "rejected"]
            /\ serve[s].joined = i
        BY <1>3, <2>5, <3>1, SettleIs DEF IdleServe
      <4>2. serve'[s].joined = i
        BY <4>1 DEF TypeOK
      <4> QED BY <1>3, <2>3, <4>1, <4>2 DEF DeadInv
    <3>2. CASE serve[s].at # "waiting"
      <4>1. serve'[s] = serve[s]
        BY <1>3, <3>2, SettleIs
      <4>2. serve[s].joined \in Flights /\ flight[serve[s].joined].at = "settled"
            /\ Dead(flight[serve[s].joined].tok)
        BY <2>5, <4>1, CredentialAssumption DEF DeadInv, FlightInv, Flights, TypeOK
      <4> QED BY <2>3, <2>4, <4>1, <4>2
    <3> QED BY <3>1, <3>2
  <2>6. \A j \in Flights : flight'[j].at # "rejected"
    BY <2>1 DEF Live
  <2> HIDE DEF Dead
  <2> QED BY <1>1, <2>2, <2>5, <2>6 DEF DeadInv
<1>4. ASSUME NEW s \in Serves, Refresh(s) PROVE DeadInv'
  <2>1. StartOrJoin /\ serve' = [serve EXCEPT ![s] = [at |-> "waiting", cred |-> row,
                                                     joined |-> slot']]
    BY <1>4 DEF Refresh
  <2>2. \A t \in Serves : serve'[t] = serve[t] \/ serve'[t].at = "waiting"
    BY <2>1 DEF TypeOK
  <2>3. \/ flight' = flight
        \/ /\ slot = 0 /\ flights < MaxFlights
           /\ flight' = [flight EXCEPT ![flights + 1].at = "loading"]
    BY <2>1 DEF StartOrJoin
  <2>4. \A j \in Flights : /\ flight'[j].tok = flight[j].tok
                           /\ \/ flight'[j] = flight[j]
                              \/ flight[j].at = "none" /\ flight'[j].at = "loading"
    <3>1. CASE flight' = flight
      BY <3>1
    <3>2. CASE slot = 0 /\ flights < MaxFlights
               /\ flight' = [flight EXCEPT ![flights + 1].at = "loading"]
      <4>1. flights + 1 \in Flights /\ flight[flights + 1].at = "none"
        BY <3>2, CredentialAssumption DEF TypeOK, FlightInv, Flights
      <4>2. \A j \in Flights : j # flights + 1 => flight'[j] = flight[j]
        BY <3>2 DEF TypeOK
      <4>3. /\ flight'[flights + 1].at = "loading"
            /\ flight'[flights + 1].tok = flight[flights + 1].tok
        BY <3>2, <4>1 DEF TypeOK
      <4> QED BY <4>1, <4>2, <4>3
    <3> QED BY <2>3, <3>1, <3>2
  <2>5. \A t \in Serves : serve[t].at = "rejected" => serve[t].joined \in Flights
    BY CredentialAssumption DEF FlightInv, Flights, TypeOK
  <2> HIDE DEF Dead
  <2> QED BY <1>1, <2>2, <2>4, <2>5 DEF DeadInv
<1>5. ASSUME NEW s \in Serves, DisconnectRejected(s) PROVE DeadInv'
  <2>1. flight' = flight
    BY <1>5 DEF DisconnectRejected
  <2>2. \A t \in Serves : serve'[t] = serve[t] \/ serve'[t].at = "idle"
    BY <1>5 DEF DisconnectRejected, IdleServe, TypeOK
  <2> HIDE DEF Dead
  <2> QED BY <1>1, <2>1, <2>2 DEF DeadInv
<1>6. ASSUME NEW i \in Flights, Load(i) PROVE DeadInv'
  <2>1. CASE row \in aged
    <3>1. serve' = serve /\ flight[i].at = "loading"
      BY <1>6, <2>1 DEF Load
    <3>2. \A j \in Flights : \/ flight'[j] = flight[j]
                             \/ flight[j].at = "loading" /\ flight'[j].at = "sent"
      BY <1>6, <2>1 DEF Load, TypeOK
    <3>3. \A t \in Serves : serve[t].at = "rejected" => serve[t].joined \in Flights
      BY CredentialAssumption DEF FlightInv, Flights, TypeOK
    <3> HIDE DEF Dead
    <3> QED BY <1>1, <3>1, <3>2, <3>3 DEF DeadInv
  <2>2. CASE row \notin aged
    BY <1>3, <1>6, <2>2 DEF Load, Live
  <2> QED BY <2>1, <2>2
<1>7. ASSUME NEW i \in Flights, Finish(i) PROVE DeadInv'
  BY <1>3, <1>7 DEF Finish, Persist, PersistFails, FailSoftly, Reject, Live
<1>8. ASSUME NEW i \in Flights, Answer(i) PROVE DeadInv'
  <2>1. /\ flight[i].at = "sent" /\ flight[i].tok \in Tokens /\ serve' = serve
        /\ \A j \in Flights : j # i => flight'[j] = flight[j]
        /\ flight'[i].tok = flight[i].tok
    BY <1>8, AnswerIs
  <2>2. flight'[i].at = "rejected" => Dead(flight[i].tok)
    <3>1. flight'[i].at = "rejected" => Refuse(i)
      BY <1>8 DEF Answer, Grant, LoseAnswer, Unreachable, TypeOK
    <3>2. flight[i].tok # NoCred
      BY <2>1, TokensAre DEF Creds
    <3>3. flight[i].tok.gen \in Nat /\ grant[flight[i].tok.fam] \in Nat
      BY <2>1, CredentialAssumption DEF Tokens, TypeOK
    <3> QED BY <3>1, <3>2, <3>3 DEF IssuedInv, Issued, Refuse, Alive, Dead
  <2>3. \A t \in Serves : serve[t].at = "rejected" => serve[t].joined \in Flights
    BY CredentialAssumption DEF FlightInv, Flights, TypeOK
  <2> HIDE DEF Dead
  <2> QED BY <1>1, <2>1, <2>2, <2>3 DEF DeadInv
<1>9. CASE User \/ Age \/ ResultExpires \/ UNCHANGED vars
  BY <1>2, <1>9 DEF User, LogIn, Export, Capture, Scrub, ForgetCredential, Age,
                    ResultExpires, vars
<1>10. ASSUME NEW t \in Tokens, ReportRevoked(t) PROVE DeadInv'
  BY <1>2, <1>10 DEF ReportRevoked
<1>11. ASSUME NEW f \in Families, Revoke(f) PROVE DeadInv'
  BY <1>2, <1>11 DEF Revoke
<1> QED BY <1>4, <1>5, <1>6, <1>7, <1>8, <1>9, <1>10, <1>11 DEF Next

-----------------------------------------------------------------------------
(* The theorems.                                                           *)

\* Every reachable state of the credential satisfies the invariant.
THEOREM Invariant == Spec => []IInv
<1>1. Init => IInv
  <2> SUFFICES ASSUME Init PROVE IInv
    OBVIOUS
  <2>1. TypeOK
    BY CredentialAssumption
       DEF Init, TypeOK, Creds, NoFlight, NoCapture, IdleServe, FlightStates
  <2>2. FlightInv
    BY CredentialAssumption
       DEF Init, FlightInv, OneExchange, WaitsForLive, Live, NoFlight, IdleServe
  <2>3. OutInv /\ SpoilInv /\ DeadInv
    BY DEF Init, OutInv, FlightTokens, SpoilInv, DeadInv, RefreshingNeverSpoils,
           NoFlight, NoCapture, IdleServe
  <2>4. IssuedInv
    BY DEF Init, IssuedInv, Issued, NoFlight, NoCapture
  <2> QED BY <2>1, <2>2, <2>3, <2>4 DEF IInv
<1>2. IInv /\ [Next]_vars => IInv'
  BY BaseStep, IssuedStep, SpoilStep, DeadStep DEF IInv
<1> QED BY <1>1, <1>2, PTL DEF Spec

\* Every variable stays within its type, for any number of serves, logins and
\* refreshes.
THEOREM TypeCorrect == Spec => []TypeOK
BY Invariant, PTL DEF IInv

\* Two refreshes of the credential never run at once, however many serves come
\* and whatever fails: the one that runs is the one the coalescer hands out.
THEOREM OneExchangeAlways == Spec => []OneExchange
BY Invariant, PTL DEF IInv, FlightInv

\* No serve waits for a refresh that is over.
THEOREM NoServeIsStranded == Spec => []WaitsForLive
BY Invariant, PTL DEF IInv, FlightInv

\* The host's own refreshing never costs the user the login: a refused refresh
\* token was revoked, its answer lost, or captured when it was spent.
THEOREM RefreshingSpoilsNothing == Spec => []RefreshingNeverSpoils
BY Invariant, PTL DEF IInv, SpoilInv

\* A serve whose refresh was refused deletes, of what it had itself sent, only
\* what the provider will never take again.
THEOREM OnlyTheDeadAreSignedOut == Spec => SignsOutOnlyTheDead
<1> DEFINE Right == \A s \in Serves :
                      /\ serve[s].at = "rejected"
                      /\ serve'[s].at = "idle"
                      /\ serve[s].cred = flight[serve[s].joined].tok
                      /\ row' # row
                      => ~ Alive(row)
<1>1. IInv /\ [Next]_vars => [Right]_vars
  <2> SUFFICES ASSUME IInv, Next, NEW s \in Serves,
                      serve[s].at = "rejected", serve'[s].at = "idle",
                      serve[s].cred = flight[serve[s].joined].tok, row' # row
               PROVE  ~ Alive(row)
    BY DEF vars
  <2>1. DisconnectRejected(s)
    <3>1. ASSUME NEW t \in Serves, t # s, DisconnectRejected(t) PROVE FALSE
      BY <3>1 DEF DisconnectRejected, IInv, TypeOK
    <3>2. ASSUME NEW i \in Flights, Settle(i, "idle") PROVE FALSE
      BY <3>2 DEF Settle, Joined
    <3>3. \/ row' = row
          \/ serve' = serve
          \/ \E i \in Flights : Settle(i, "idle")
          \/ \E t \in Serves : DisconnectRejected(t)
      BY DEF Next, User, LogIn, Export, Capture, Scrub, ForgetCredential, Refresh,
             Load, Answer, Grant, Refuse, LoseAnswer, Unreachable, Finish, Persist,
             PersistFails, FailSoftly, Reject, ReportRevoked, Age, ResultExpires,
             Revoke
    <3> QED BY <3>1, <3>2, <3>3
  <2>2. row = serve[s].cred
    BY <2>1 DEF DisconnectRejected, RemovesAccess
  <2>3. Dead(row)
    BY <2>2 DEF IInv, DeadInv
  <2> QED BY <2>3 DEF Dead, Alive, IInv, TypeOK, Tokens
<1> QED BY <1>1, Invariant, PTL DEF Spec, SignsOutOnlyTheDead
=============================================================================
