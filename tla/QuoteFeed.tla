----------------------------- MODULE QuoteFeed -----------------------------
(***************************************************************************)
(* What a caller of stream_quotes may rely on: a channel of its own.  A    *)
(* quote published while it is subscribed is put in it once, at once and   *)
(* in the order of the hub; a quote whose contract the hub does not name   *)
(* goes to everybody or, at worst, to nobody.                              *)
(*                                                                         *)
(* MarketMux, the hub connection shared by threads, implements it.         *)
(***************************************************************************)
EXTENDS Naturals, Sequences

CONSTANTS
  Consumers,    \* tasks that iterate over stream_quotes
  Contracts,
  ContractOf    \* the contract each of them asks for

VARIABLES
  joined,       \* consumers that are subscribed
  channel,      \* quotes published to a consumer and not taken yet
  latest        \* the last quote published: its number and what it names

feed == <<joined, channel, latest>>

NoQuote == [number |-> 0, names |-> {}]

Init ==
  /\ joined = {} /\ latest = NoQuote
  /\ channel = [c \in Consumers |-> <<>>]

Join(c) ==
  /\ c \notin joined /\ joined' = joined \cup {c}
  /\ UNCHANGED <<channel, latest>>

Leave(c) ==
  /\ c \in joined /\ joined' = joined \ {c}
  /\ channel' = [channel EXCEPT ![c] = <<>>]
  /\ UNCHANGED latest

Audience(names) ==
  IF names = {} THEN {joined, {}} ELSE {{c \in joined : ContractOf[c] \in names}}

Publish(names) ==
  /\ latest' = [number |-> latest.number + 1, names |-> names]
  /\ \E audience \in Audience(names) :
       channel' = [c \in Consumers |-> IF c \in audience
                                       THEN Append(channel[c], latest'.number)
                                       ELSE channel[c]]
  /\ UNCHANGED joined

Take(c) ==
  /\ channel[c] # <<>>
  /\ channel' = [channel EXCEPT ![c] = Tail(@)]
  /\ UNCHANGED <<joined, latest>>

Next ==
  \/ \E c \in Consumers : Join(c) \/ Leave(c) \/ Take(c)
  \/ \E names \in {{}} \cup {{contract} : contract \in Contracts} : Publish(names)

Spec == Init /\ [][Next]_feed
=============================================================================
