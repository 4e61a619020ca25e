----------------------------- MODULE ImageBuild -----------------------------
(* domain::images::build_handler and the execute() of its instructions: one *)
(* connection that orders builds, each of which becomes stages, each a      *)
(* queue of instructions that is executed by calls that nest, on the io     *)
(* thread; only what RUN posts is executed by another.                      *)
EXTENDS Integers, SequencesExt

CONSTANTS
  Ids,        \* the identifiers uuid4 may draw, in the order of stages
  Orders,     \* what may be ordered: stages, each the kinds of its steps in the
              \* order of their arguments
  MaxOrders,  \* bound: orders of one connection
  MaxFolders, \* bound: folders named alike inside each other
  StackDepth  \* bound: nested calls of run_stage

ASSUME BuildAssumption ==
  /\ Ids \subseteq Nat \ {0}
  /\ MaxOrders \in Nat /\ MaxFolders \in Nat
  /\ StackDepth \in Nat /\ StackDepth > MaxFolders

\* The steps of an order.  WORKDIR is one to a folder inside the current one, or
\* one to the same folder wherever it is executed.  What is odd has words that make
\* the daemon throw: a COPY of three of which the first is shorter than seven
\* characters, or a name that is too long to be looked up, or a loop of links.
Odd == {"COPY odd", "WORKDIR odd"}
Steps == {"FROM", "COPY", "RUN", "WORKDIR inside", "WORKDIR same"} \cup Odd
Kinds == Steps \cup {"MOUNT", "UNMOUNT", "ARCHIVE", "CLEANUP"}

ASSUME OrdersAssumption == Orders \subseteq Seq(Seq(Steps))

VARIABLES
  status,   \* "up" or "dead"
  stages,   \* by identifier: the queue, and the resolver its instructions use
  orders,   \* how many orders there were; the last one's resolver is alive
  current,  \* the stage that run_stage is in, 0 for none
  depth,    \* how often run_stage has called itself
  posted,   \* RUN has posted its two functions
  answer,   \* history: what the last order was answered, "twice" if more
  unbuilt   \* history: the instructions that were ordered and have not completed,
            \* each with how many of its stage were left when its turn came

buildvars == <<status, stages, orders, current, depth, posted, answer, unbuilt>>

BuildInit ==
  /\ status = "up"
  /\ stages = << >> /\ orders = 0
  /\ current = 0 /\ depth = 0
  /\ posted = FALSE
  /\ answer = "none" /\ unbuilt = {}

AnswerOrder(what) == answer' = IF answer = "waiting" THEN what ELSE "twice"

----------------------------------------------------------------------------
(* An order                                                                 *)

Instructions(step) == IF step = "FROM" THEN <<"FROM", "MOUNT">> ELSE <<step>>

\* setup_stages; a stage that equals the last counts as the last.
Batch(order, stage) ==
  FlattenSeq([i \in DOMAIN stage |-> Instructions(stage[i])])
    \o <<"UNMOUNT">>
    \o (IF stage = Last(order) THEN <<"ARCHIVE", "CLEANUP">> ELSE << >>)

\* Faulty variant (mutation check): the resolver is made after the stages.
ResolverBefore == orders

\* The resolver that the stages of the next order refer to.
Resolver == orders + 1

\* try_emplace of each stage, under an identifier that is new.
WithStages(order, ids) ==
  LET added == {ids[i] : i \in DOMAIN ids} IN
  [id \in DOMAIN stages \cup added |->
     IF id \in added
     THEN [batch |-> Batch(order, order[CHOOSE i \in DOMAIN ids : ids[i] = id]),
           resolver |-> Resolver]
     ELSE stages[id]]

(* on_order_received: the stages of earlier orders are still there, and     *)
(* whichever stage is the first of all is run.                              *)
Order(order) ==
  /\ status = "up" /\ current = 0 /\ orders < MaxOrders
  /\ orders' = orders + 1
  /\ \E ids \in [DOMAIN order -> Ids \ DOMAIN stages] :
       /\ IsInjective(ids)
       /\ stages' = WithStages(order, ids)
       /\ unbuilt' = unbuilt \cup
            UNION {{ids[i]} \X DOMAIN Batch(order, order[i]) : i \in DOMAIN ids}
  /\ IF DOMAIN stages' = {}
     THEN current' = 0 /\ answer' = "complete"
     ELSE current' = Min(DOMAIN stages') /\ answer' = "waiting"
  /\ depth' = 0
  /\ UNCHANGED <<status, posted>>

----------------------------------------------------------------------------
(* An instruction                                                           *)

\* What execute() of each comes to.

(* The order or the registry may be wrong, and a client that was just made  *)
(* has authorized no session; for an image that is there, its folder is     *)
(* looked for where the daemon runs, which throws, or finds no layer by its *)
(* extension.                                                               *)
FromOutcomes == {"fails", "silent", "dies"}

(* The resolver, which has no folder for the stage, knows no destination.   *)
(* Of three words the first, if it has any of the characters of --from=, is *)
(* taken from its eighth on, which it may be too short for; and an origin   *)
(* with ./ in it is looked up as it is.  Nobody catches what either throws. *)
CopyOutcomes(kind, dangling) ==
  IF dangling \/ kind = "COPY odd" THEN {"fails", "dies"} ELSE {"fails"}

\* The folder is there or not, or cannot be looked up; one inside itself is there so
\* many times.
WorkDirOutcomes(kind) ==
  CASE kind = "WORKDIR odd" -> {"dies"}
    [] kind = "WORKDIR inside" ->
         IF depth < MaxFolders THEN {"completes", "fails"} ELSE {"fails"}
    [] kind = "WORKDIR same" ->
         IF depth = 0 THEN {"completes", "fails"} ELSE {"completes"}

\* What there was is commented out.
MountOutcomes == {"silent"}

\* The two at the end are not reached past UNMOUNT.
Outcomes(kind, dangling) ==
  CASE kind = "FROM" -> FromOutcomes
    [] kind \in {"COPY", "COPY odd"} -> CopyOutcomes(kind, dangling)
    [] kind = "RUN" -> {"posts"}
    [] kind \in {"WORKDIR inside", "WORKDIR same", "WORKDIR odd"} -> WorkDirOutcomes(kind)
    [] kind \in {"MOUNT", "UNMOUNT"} -> MountOutcomes
    [] kind \in {"ARCHIVE", "CLEANUP"} -> {"completes", "fails"}

\* Faulty variant (mutation check): a stage that failed is forgotten.
FailsForgets ==
  /\ AnswerOrder("error")
  /\ current' = 0
  /\ stages' = [id \in DOMAIN stages \ {current} |-> stages[id]]
  /\ UNCHANGED <<status, depth, posted, unbuilt>>

\* Faulty variant (mutation check): the error is logged, and not sent.
FailsUntold ==
  /\ current' = 0
  /\ UNCHANGED <<status, stages, depth, posted, answer, unbuilt>>

\* on_instruction_complete with an error: the stage stays as it is.
Fails ==
  /\ AnswerOrder("error")
  /\ current' = 0
  /\ UNCHANGED <<status, stages, depth, posted, unbuilt>>

(* on_instruction_complete without one: what is popped is a copy of the     *)
(* queue, and run_stage executes the same instruction again, unless the     *)
(* stage had no other.  Each call is one of the last's.                     *)
Completes ==
  /\ unbuilt' = unbuilt \ {<<current, Len(stages[current].batch)>>}
  /\ IF Tail(stages[current].batch) # << >>
     THEN /\ depth' = depth + 1
          /\ status' = IF depth' > StackDepth THEN "dead" ELSE status
          /\ UNCHANGED <<stages, current>>
     ELSE /\ stages' = [id \in DOMAIN stages \ {current} |-> stages[id]]
          /\ current' = 0
          /\ UNCHANGED <<status, depth>>
  /\ UNCHANGED <<posted, answer>>

\* run_stage
Execute ==
  /\ status = "up" /\ current # 0
  /\ LET stage == stages[current]
         outcomes == Outcomes(Head(stage.batch), stage.resolver # orders) IN
     \/ /\ "fails" \in outcomes /\ Fails
     \/ /\ "completes" \in outcomes /\ Completes
     \/ /\ outcomes \cap {"silent", "posts"} # {}
        /\ current' = 0
        /\ posted' = (posted \/ "posts" \in outcomes)
        /\ UNCHANGED <<status, stages, depth, answer, unbuilt>>
     \/ /\ "dies" \in outcomes
        /\ status' = "dead"
        /\ UNCHANGED <<stages, current, depth, posted, answer, unbuilt>>
  /\ UNCHANGED orders

\* What RUN posted waits on a stream that initialize(), which nobody calls, would
\* have made.
Posted ==
  /\ status = "up" /\ posted
  /\ status' = "dead"
  /\ UNCHANGED <<stages, orders, current, depth, posted, answer, unbuilt>>

\* The connection ends, or orders something else: the handler goes with its
\* stages, and the next build has another.
Leave ==
  /\ status = "up" /\ current = 0
  /\ stages' = << >> /\ orders' = 0
  /\ answer' = "none" /\ unbuilt' = {}
  /\ depth' = 0
  /\ UNCHANGED <<status, current, posted>>

BuildNext == (\E order \in Orders : Order(order)) \/ Execute \/ Posted \/ Leave

\* The calls nest within one handler, which goes on until it returns; the other
\* thread runs what it was given.
Fairness == WF_buildvars(Execute) /\ WF_buildvars(Posted)

BuildSpec == BuildInit /\ [][BuildNext]_buildvars /\ Fairness

----------------------------------------------------------------------------

\* The variables are of their types, and no order is answered twice.
BuildTypeOK ==
  /\ status \in {"up", "dead"}
  /\ DOMAIN stages \subseteq Ids
  /\ \A id \in DOMAIN stages :
       stages[id].batch \in Seq(Kinds) /\ stages[id].resolver \in 0 .. orders
  /\ orders \in 0 .. MaxOrders
  /\ current \in DOMAIN stages \cup {0}
  /\ depth \in 0 .. StackDepth + 1
  /\ posted \in BOOLEAN
  /\ answer \in {"none", "waiting", "error", "complete"}
  /\ unbuilt \subseteq Ids \X Nat

(* A client that is told "image build complete" (build_handler.cc:55) has   *)
(* every instruction it ever ordered over the connection executed to its    *)
(* end: no failure or silence of an earlier order leaves a stage that this  *)
(* answer passes over.  Nor is an order answered twice.                     *)
CompleteIsBuilt ==
  BuildTypeOK /\ (answer = "complete" => unbuilt = {})

(* The first build order of a connection, if it is one of COPY, and of      *)
(* WORKDIR to folders inside each other, whatever its stages and their      *)
(* order, leaves the daemon alive: instructions of its own find the         *)
(* resolver, and the repetition of an instruction that completed comes to   *)
(* an end.  This is not so of words that are odd (copy_instruction.cc:86,   *)
(* work_dir_instruction.cc:24): one of those can end the daemon at once.    *)
PlainOrderIsSurvived ==
  (/\ orders <= 1 /\ ~posted
   /\ \A id \in DOMAIN stages :
        ToSet(stages[id].batch) \cap ({"FROM", "WORKDIR same"} \cup Odd) = {})
    => status = "up"

(* Every order is answered, or the daemon dies, or the stage that was run   *)
(* begins with the FROM of an image that is there, with a RUN, or with      *)
(* nothing to do: however completions nest, and whatever earlier orders     *)
(* have left, the handler returns, and leaves no other order in silence.    *)
ToldOrSilent ==
  LET Silent == current = 0 /\ Head(stages[Min(DOMAIN stages)].batch)
                                 \in {"FROM", "RUN", "UNMOUNT"} IN
  answer = "waiting" ~> (answer # "waiting" \/ status = "dead" \/ Silent)
=============================================================================
