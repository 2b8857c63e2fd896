---------------------------- MODULE MCOracleChain ----------------------------
(***************************************************************************)
(* The quote service with what the chain has accepted, kept as a history   *)
(* variable: what the documents promise about the prices on the chain,     *)
(* against what the interleavings of the service let through.              *)
(***************************************************************************)
EXTENDS OracleService

VARIABLE relayed        \* symbol -> the last price the chain accepted, or NoPrice

Far == {100, 112}

MCInit == Init /\ relayed = [s \in Symbols |-> NoPrice]

Relays ==
    /\ FlushSucceeds
    /\ relayed' = [s \in Symbols |-> IF s \in Flushed THEN flushing[s] ELSE relayed[s]]

NothingRelayed ==
    /\ \/ BecomeReady \/ Polls \/ PollFailed \/ QuoteSource \/ Collect("cex")
       \/ \E s \in Symbols, quote \in QuotePrices : ReceiveQuote(s, quote)
       \/ \E o \in Oracles : ReceivesOraclePrice(o) \/ OracleStep(o)
       \/ \E w \in Switchers : StartsSwitch(w) \/ SwitchStep(w)
       \/ Restart \/ StartFlush \/ FlushFails
    /\ UNCHANGED relayed

MCNext == Relays \/ NothingRelayed

MCSpec == MCInit /\ [][MCNext]_<<vars, relayed>>

-----------------------------------------------------------------------------

(* After a data source switch the prices of the new source pass the 5 % check before
   any of them is pushed: the flow chart of the technical design sends every price
   after a switch through it.  A restart forgets the last price and with it the check,
   so it is stated of a process that does not restart. *)
SwitchIsChecked ==
    [][ \A s \in Symbols :
            /\ relayed[s] # NoPrice /\ TRUE \notin Restarts
            /\ relayed'[s].source # relayed[s].source
            => Rules!ValidateSwitchDiff(relayed[s].price, relayed'[s].price) ]_<<vars, relayed>>

(* No price of 0 reaches the chain: every pushed price has passed the check that it is
   positive. *)
OnlyPositivePricesRelayed ==
    \A s \in Symbols : relayed[s] # NoPrice => relayed[s].price > 0

=============================================================================
