---------------------------- MODULE MCGovernance ----------------------------
(* Two of the keepers, one of which the registration script leaves out.    *)
EXTENDS Governance

MCStrategies == {"boundary", "levels"}
MCKeepers == <<"boundary", "levels">>
MCRegistered == <<"boundary">>
MCFirstTables == {[s \in MCStrategies |-> IF s = "boundary" THEN "BENCH" ELSE "none"]}
MCRequests ==
  {[to |-> "PILOT", todo |-> MCKeepers], [to |-> "RETIRED", todo |-> <<"levels">>]}
MCNameOrder == [s \in MCStrategies |-> IF s = "boundary" THEN 1 ELSE 2]
MCTier == [s \in MCStrategies |-> IF s = "boundary" THEN 2 ELSE 1]
MCFits ==
  [s \in MCStrategies |->
     IF s = "boundary" THEN [trending |-> 30, ranging |-> 100, quiet |-> 70]
     ELSE [trending |-> 100, ranging |-> 50, quiet |-> 20]]
MCBuckets ==
  [s \in MCStrategies |->
     IF s = "boundary" THEN {} ELSE {[from |-> 480, to |-> 720, readable |-> FALSE]}]
MCPnls == {-450, 100}
MCMinutes == {500}

\* Every branch of the classifier, on either side of its bounds.
MCReadings ==
  [adx : {14, 22, 26}, move : {"flat"}, atr : {84, 91, 181}, width : {10, 60},
   hurst : {45, 51}, volume : {60}, momentum : {60}, blackout : BOOLEAN]
  \cup [adx : {41}, move : {"rising"}, atr : {91}, width : {60}, hurst : {60},
        volume : {Missing, 140}, momentum : {Missing, 40}, blackout : {FALSE}]
  \cup [adx : {Missing}, move : {"flat"}, atr : {91}, width : {60}, hurst : {51},
        volume : {Missing}, momentum : {Missing}, blackout : BOOLEAN]
=============================================================================
