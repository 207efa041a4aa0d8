------------------------- MODULE BitrateEstimators -------------------------
(***************************************************************************)
(* TrackBitrateEstimators (server/remb.go): for every track, the bitrates  *)
(* that its receivers estimated (REMB) and a cached minimum of them.       *)
(*                                                                         *)
(* TrackBitrateEstimators.mu is held for the whole of every call, so a     *)
(* call is one step.  The slice ssrcs is a set here: the estimators of     *)
(* different tracks are independent, and a second call of                  *)
(* BitrateEstimator.Estimate with the same arguments changes nothing.      *)
(***************************************************************************)
EXTENDS Naturals, FiniteSetsExt, GoMaps

CONSTANTS
  Receivers, \* clients
  SSRCs,     \* tracks
  Rates,     \* bitrates that a receiver may report
  MaxRate    \* math.MaxUint64

ASSUME RatesAssumption ==
  /\ Rates \subseteq Nat
  /\ MaxRate \in Nat
  /\ \A r \in Rates : r <= MaxRate

VARIABLES
  estimators, \* TrackBitrateEstimators.estimators, by SSRC
  answer      \* the value that TrackBitrateEstimators.Estimate returned last

estimatorVars == <<estimators, answer>>

\* NewBitrateEstimator
NewBitrateEstimator == [bitrate |-> MaxRate, estimates |-> EmptyMap]

EstimatorOf(s) ==
  IF s \in DOMAIN estimators THEN estimators[s] ELSE NewBitrateEstimator

LowestWithOwn(estimates, c, rate) ==
  Min({rate} \cup {estimates[d] : d \in DOMAIN estimates})

\* The loop over r.estimates: the lowest of rate and the other receivers' rates.
Lowest(estimates, c, rate) ==
  Min({rate} \cup {estimates[d] : d \in DOMAIN estimates \ {c}})

\* BitrateEstimator.Estimate: it returns the new value of r.bitrate.
EstimateTrack(e, c, rate) ==
  [bitrate   |-> IF rate <= e.bitrate THEN rate ELSE Lowest(e.estimates, c, rate),
   estimates |-> Put(e.estimates, c, rate)]

RemoveAndReset(e, c) == [bitrate |-> MaxRate, estimates |-> Delete(e.estimates, c)]

\* BitrateEstimator.RemoveEstimation: the cached bitrate stays.
RemoveEstimation(e, c) == [e EXCEPT !.estimates = Delete(@, c)]

InitEstimators ==
  /\ estimators = EmptyMap
  /\ answer = MaxRate

EstimateFromZero(c, ssrcs, rate) ==
  /\ estimators' = [s \in DOMAIN estimators \cup ssrcs |->
                      IF s \in ssrcs THEN EstimateTrack(EstimatorOf(s), c, rate)
                                     ELSE estimators[s]]
  /\ answer' = Min({0} \cup {estimators'[s].bitrate : s \in ssrcs})

\* TrackBitrateEstimators.Estimate
Estimate(c, ssrcs, rate) ==
  /\ estimators' = [s \in DOMAIN estimators \cup ssrcs |->
                      IF s \in ssrcs THEN EstimateTrack(EstimatorOf(s), c, rate)
                                     ELSE estimators[s]]
  /\ answer' = Min({MaxRate} \cup {estimators'[s].bitrate : s \in ssrcs})

RemoveReceiverEstimations(c) ==
  /\ estimators' = [s \in DOMAIN estimators |-> RemoveEstimation(estimators[s], c)]
  /\ UNCHANGED answer

Remove(s) ==
  /\ estimators' = Delete(estimators, s)
  /\ UNCHANGED answer

NextEstimators ==
  \/ \E c \in Receivers, ssrcs \in SUBSET SSRCs, rate \in Rates : Estimate(c, ssrcs, rate)
  \/ \E c \in Receivers : RemoveReceiverEstimations(c)
  \/ \E s \in SSRCs : Remove(s)

EstimatorsSpec == InitEstimators /\ [][NextEstimators]_estimatorVars

-----------------------------------------------------------------------------

\* The state is well formed.
EstimatorsTypeOK ==
  /\ DOMAIN estimators \subseteq SSRCs
  /\ estimators = [s \in DOMAIN estimators |->
                    [bitrate   |-> estimators[s].bitrate,
                     estimates |-> estimators[s].estimates]]
  /\ \A s \in DOMAIN estimators :
       /\ estimators[s].bitrate \in Rates \cup {MaxRate}
       /\ IsMap(estimators[s].estimates, Receivers, Rates)
  /\ answer \in Rates \cup {MaxRate}

(***************************************************************************)
(* The cached bitrate of a track is never above an estimate of one of its  *)
(* receivers, whatever was reported, removed and reported again.  This is  *)
(* what makes the shortcut of BitrateEstimator.Estimate (return the new    *)
(* rate if it is not above the cache) right although RemoveEstimation does *)
(* not recompute the cache.                                                *)
(***************************************************************************)
CacheIsLowerBound ==
  \A s \in DOMAIN estimators : \A c \in DOMAIN estimators[s].estimates :
    estimators[s].bitrate <= estimators[s].estimates[c]

(***************************************************************************)
(* BitrateEstimators implements BitrateLimit: the answer to every report   *)
(* is the lowest of the current reports, so a stale cache never lets a     *)
(* track exceed a receiver's bandwidth nor holds it below all of them.     *)
(***************************************************************************)
Limit == INSTANCE BitrateLimit
           WITH reported <- [s \in DOMAIN estimators |-> estimators[s].estimates]
ImplementsLimit == Limit!Spec
=============================================================================
