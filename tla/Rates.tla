-------------------------------- MODULE Rates --------------------------------
(***************************************************************************)
(* Exchange rates: services/currency.py.  A call takes the time, waits for *)
(* the one lock of the process, and answers from the rates kept for its    *)
(* base currency or fetches new ones while it holds the lock.  Rates are   *)
(* named by the time of the fetch; 0 is no conversion: no rate is known,   *)
(* or the service answered without the currency that is asked for.         *)
(***************************************************************************)
EXTENDS Integers

CONSTANTS
    Bases, Askers,
    TTL,          \* exchange_rate_cache_seconds
    MaxTime       \* bound: ticks of the clock

ASSUME RatesAssumption == TTL \in Nat \ {0} /\ MaxTime \in Nat

VARIABLES
    time,        \* the clock
    cache,       \* cache[b]: _RATE_CACHE, the rates and their stamp; 0: never fetched
    asker,       \* asker[a]: the call a is in
    ratesPast    \* observed only; see RatesObserved below

ratesVars == <<time, cache, asker, ratesPast>>

Empty == [rates |-> 0, at |-> 0]
NoAsk  == [pc |-> "idle", base |-> CHOOSE b \in Bases : TRUE, now |-> 0]

(* told[b]: the newest rates told; ok: no fetch came within TTL of one     *)
(* that succeeded, and no answer was older than one before it, but for the *)
(* no conversion of a service that answered so.                            *)
RatesObserved == [told |-> [b \in Bases |-> 0], ok |-> TRUE]

RatesInit ==
    /\ time = 1
    /\ cache = [b \in Bases |-> Empty]
    /\ asker = [a \in Askers |-> NoAsk]
    /\ ratesPast = RatesObserved

-----------------------------------------------------------------------------
AskRate(a, b) ==
    /\ asker[a].pc = "idle"
    /\ asker' = [asker EXCEPT ![a] = [pc |-> "waiting", base |-> b, now |-> time]]
    /\ UNCHANGED <<time, cache, ratesPast>>

(* Faulty variant of LockFree: nothing is locked.                          *)
NoLock == TRUE

LockFree == \A a \in Askers : asker[a].pc # "fetching"

Young(c) == cache[c.base].at # 0 /\ c.now - cache[c.base].at < TTL

AnsweredSo(kept) == kept.rates = 0 /\ kept.at # 0

(* The call of a ends and answers from what is kept.                       *)
Answer(a, kept, fine) ==
    LET b == asker[a].base  newer == kept.rates >= ratesPast.told[b] IN
    /\ asker' = [asker EXCEPT ![a] = NoAsk]
    /\ ratesPast' = [told |-> IF newer THEN [ratesPast.told EXCEPT ![b] = kept.rates] ELSE ratesPast.told,
                     ok |-> ratesPast.ok /\ fine /\ (newer \/ AnsweredSo(kept))]

Enter(a) ==
    /\ asker[a].pc = "waiting" /\ LockFree
    /\ IF Young(asker[a]) THEN Answer(a, cache[asker[a].base], TRUE)
       ELSE asker' = [asker EXCEPT ![a].pc = "fetching"] /\ UNCHANGED ratesPast
    /\ UNCHANGED <<time, cache>>

(* The stamp is the time the call was made, not that of the answer.  An    *)
(* answer without rates replaces those that were kept.                     *)
Fetched(a) ==
    LET c == asker[a]  old == cache[c.base] IN
    /\ c.pc = "fetching"
    /\ \E rates \in {time, 0} :
          LET new == [rates |-> rates, at |-> c.now] IN
          /\ cache' = [cache EXCEPT ![c.base] = new]
          /\ Answer(a, new, old.at # 0 => c.now - old.at >= TTL)
    /\ UNCHANGED time

(* The rates kept, however old, or no conversion; nothing is stamped anew. *)
FetchFails(a) ==
    /\ asker[a].pc = "fetching"
    /\ Answer(a, cache[asker[a].base], TRUE)
    /\ UNCHANGED <<time, cache>>

Later == time < MaxTime /\ time' = time + 1 /\ UNCHANGED <<cache, asker, ratesPast>>

RatesNext ==
    \/ \E a \in Askers : (\E b \in Bases : AskRate(a, b)) \/ Enter(a) \/ Fetched(a) \/ FetchFails(a)
    \/ Later

RatesSpec == RatesInit /\ [][RatesNext]_ratesVars

-----------------------------------------------------------------------------
(* Properties.                                                             *)

(* However calls overlap and fail, one fetch serves all calls of a period: *)
(* two that succeed lie TTL apart; once rates were told of a currency, it  *)
(* never goes back to older ones, and to no conversion only while what is  *)
(* kept is an answer of the service without that currency; and the stamp   *)
(* never makes rates younger than they are (currency.py:36-66).            *)
RatesTrue ==
    /\ ratesPast.ok
    /\ \A b \in Bases : (cache[b].rates # 0 => cache[b].at <= cache[b].rates) /\ ratesPast.told[b] <= time
=============================================================================
