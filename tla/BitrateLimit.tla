---------------------------- MODULE BitrateLimit ----------------------------
(***************************************************************************)
(* What the SFU promises about bandwidth: the bitrate it asks the sender   *)
(* of some tracks for is the lowest of what the present receivers of these *)
(* tracks have last reported.  There is no cache here: BitrateEstimators   *)
(* (server/remb.go) keeps one and is shown to implement this module.       *)
(***************************************************************************)
EXTENDS Naturals, FiniteSetsExt, GoMaps

CONSTANTS
  Receivers, \* clients
  SSRCs,     \* tracks
  Rates,     \* bitrates that a receiver may report
  MaxRate    \* math.MaxUint64

VARIABLES
  reported, \* reported[s][c]: what receiver c last reported for track s
  answer    \* what the last report was answered with

Reports(s) == IF s \in DOMAIN reported THEN reported[s] ELSE EmptyMap

\* The rates that limit the tracks in S.
Limits(rep, S) ==
  {MaxRate} \cup UNION {{rep[s][c] : c \in DOMAIN rep[s]} : s \in S}

Init ==
  /\ reported = EmptyMap
  /\ answer = MaxRate

Report(c, S, rate) ==
  /\ reported' = [s \in DOMAIN reported \cup S |->
                    IF s \in S THEN Put(Reports(s), c, rate) ELSE reported[s]]
  /\ answer' = Min(Limits(reported', S))

Leave(c) ==
  /\ reported' = [s \in DOMAIN reported |-> Delete(reported[s], c)]
  /\ UNCHANGED answer

EndTrack(s) ==
  /\ reported' = Delete(reported, s)
  /\ UNCHANGED answer

Next ==
  \/ \E c \in Receivers, S \in SUBSET SSRCs, rate \in Rates : Report(c, S, rate)
  \/ \E c \in Receivers : Leave(c)
  \/ \E s \in SSRCs : EndTrack(s)

Spec == Init /\ [][Next]_<<reported, answer>>
=============================================================================
