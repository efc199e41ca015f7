------------------------------ MODULE Service ------------------------------
(***************************************************************************)
(* What watershedOracle --json promises to the process that runs it, and   *)
(* what main.js of the bot relies on: requests go into its standard input, *)
(* one result for each comes out of its standard output, in that order.    *)
(* The service may end at any time.  It then owes nothing; the results     *)
(* already printed can still be read.                                      *)
(*                                                                         *)
(* Oracle implements this; TelegramBot is a client of it.                  *)
(***************************************************************************)
EXTENDS Sequences

CONSTANT Request

VARIABLES pending,   \* requests without a result, in the order they came
          results,   \* results not read yet: the request each is about
          up         \* does the service run?

vars == <<pending, results, up>>

Init == /\ pending = <<>>
        /\ results = <<>>
        /\ up = TRUE

Submit(r) == /\ up
             /\ pending' = Append(pending, r)
             /\ UNCHANGED <<results, up>>

(* The oldest request gets its result.                                     *)
Answer == /\ up
          /\ pending # <<>>
          /\ pending' = Tail(pending)
          /\ results' = Append(results, Head(pending))
          /\ UNCHANGED up

Read == /\ results # <<>>
        /\ results' = Tail(results)
        /\ UNCHANGED <<pending, up>>

Stop == /\ up
        /\ up' = FALSE
        /\ pending' = <<>>
        /\ UNCHANGED results

(* The client is gone: the pipes are, and the service sees its input end.  *)
Abandon == /\ up' = FALSE
           /\ pending' = <<>>
           /\ results' = <<>>

(* Another process is started.                                             *)
Start == /\ ~up
         /\ up' = TRUE
         /\ UNCHANGED <<pending, results>>

Next == \/ \E r \in Request : Submit(r)
        \/ Answer
        \/ Read
        \/ Stop
        \/ Abandon
        \/ Start

Spec == Init /\ [][Next]_vars

(* No request waits for ever: again and again there is none, or one is     *)
(* answered, or the service ends.  (Weak fairness of the two, with the     *)
(* condition that enables them written out.)                               *)
Responsive == []<>(pending = <<>>) \/ []<><<Answer \/ Stop>>_vars

FairSpec == Spec /\ Responsive
=============================================================================
