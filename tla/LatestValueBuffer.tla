-------------------------- MODULE LatestValueBuffer --------------------------
(***************************************************************************)
(* What the price collector promises the rest of the service: a buffer     *)
(* that keeps the newest price of every symbol, and hands the whole buffer *)
(* over, as one batch, to a consumer that works on it for as long as it    *)
(* wants.  A price leaves the buffer only by being superseded by a newer   *)
(* price of its symbol or by being handed over, and it is handed over once.*)
(*                                                                         *)
(* A price stands for its arrival: it is the number of the AddPrice call   *)
(* that brought it, so that two prices are told apart and ordered.         *)
(***************************************************************************)
EXTENDS Integers

CONSTANTS
    Symbols,
    MaxAdds             \* bound: prices added in a behaviour

NoPrice == 0

VARIABLES
    prices,             \* symbol -> its newest price, or NoPrice
    added,              \* how many prices have been added
    handed              \* the batches handed over and still worked on

bufferVars == <<prices, added, handed>>

Empty == [s \in Symbols |-> NoPrice]

Batches == [Symbols -> 0 .. MaxAdds]

BufferInit == prices = Empty /\ added = 0 /\ handed = {}

Put(s) ==
    /\ added < MaxAdds
    /\ added' = added + 1
    /\ prices' = [prices EXCEPT ![s] = added + 1]
    /\ UNCHANGED handed

Take ==
    /\ prices # Empty
    /\ handed' = handed \cup {prices}
    /\ prices' = Empty
    /\ UNCHANGED added

Finish(batch) ==
    /\ batch \in handed
    /\ handed' = handed \ {batch}
    /\ UNCHANGED <<prices, added>>

BufferNext ==
    \/ \E s \in Symbols : Put(s)
    \/ Take
    \/ \E batch \in handed : Finish(batch)

BufferSpec == BufferInit /\ [][BufferNext]_bufferVars

-----------------------------------------------------------------------------

BufferTypeOK ==
    /\ prices \in Batches
    /\ added \in 0 .. MaxAdds
    /\ handed \subseteq Batches

(* No price is in two places: neither in the buffer and in a batch, nor in two
   batches. *)
HandedOverOnce ==
    \A s \in Symbols :
        /\ \A b \in handed : b[s] # NoPrice => b[s] # prices[s]
        /\ \A b, c \in handed : b[s] = c[s] /\ b[s] # NoPrice => b = c

(* The buffered price of a symbol is newer than every price of the symbol that is
   being worked on. *)
BufferIsNewest ==
    \A s \in Symbols, b \in handed : prices[s] # NoPrice => b[s] < prices[s]

=============================================================================
