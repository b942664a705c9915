------------------------------ MODULE MCMarket ------------------------------
(* Instances of ScanFrames, with its RateLimiter, and of EntryEvidence for  *)
(* TLC.  They share no state: one moves and the other stays as it began.    *)
EXTENDS ScanFrames, EntryEvidence, TLC

EvidenceUntouched == time = 0 /\ ticks = <<>> /\ arriving = <<>> /\ signals = 0

FramesUntouched == clock = 0

MarketInit == Init /\ EvidenceInit

MarketNext == \/ EvidenceUntouched /\ Next /\ UNCHANGED evidenceVars
              \/ FramesUntouched /\ EvidenceNext /\ UNCHANGED framesVars

MarketSpec == MarketInit /\ [][MarketNext]_<<framesVars, evidenceVars>>

PoolSymmetry == Permutations(Pool)

=============================================================================
