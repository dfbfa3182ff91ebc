-------------------------- MODULE MCPlanExecution --------------------------
(* Small instances of PlanExecution and Evaluation for TLC.                               *)
EXTENDS Evaluation

CONSTANTS o1, o2, q1, q2

\* A part of a question: the topics of its words, and the order it names.
Part(topics, order) ==
  [topics |-> topics, order |-> order, product |-> FALSE, ticket |-> FALSE,
   refund |-> FALSE]

Asked(parts, condition, session) ==
  [parts |-> parts, condition |-> condition, session |-> session,
   injection |-> FALSE]

Refund == Part({"after_sales"}, None)
Recommend == Part({"recommendation", "product_search"}, None)
Stock == [Part({"stock_query"}, None) EXCEPT !.product = TRUE]
Logistics == Part({"order_query"}, o1)

MCRoutes ==
  [i \in {"order_query", "after_sales", "recommendation", "stock_query"} |->
     CASE i = "order_query" -> "order_agent"
       [] i = "after_sales" -> "after_sales_agent"
       [] OTHER -> "product_agent"]

\* "check the order o1 ..." while the session remembers the order o2.
Conditional == Asked(<<Logistics, Refund>>, "not shipped", o2)

\* "check my orders, ..."
AllOrders == Asked(<<Part({"order_query"}, None), Refund>>, "not shipped", None)

StockConditional == Asked(<<Stock, Recommend>>, "in stock", None)

Unclear == Asked(<<Logistics, Refund>>, "customer in a hurry", None)

\* One part more than a plan may have.
Parallel == Asked(<<Recommend, Logistics, Refund>>, None, None)

Polite == Asked(<<Part({"greeting"}, None), Refund>>, None, None)

Singles == {Asked(<<p>>, None, None) :
              p \in {Refund, Part({"greeting"}, None), Part({}, None),
                     Part({"sales_policy"}, None)}}

Injected == [Asked(<<Refund>>, None, None) EXCEPT !.injection = TRUE]

\* q2 is there for the slots it holds and the faults it meets.
MCQuestions ==
  [r \in {q1, q2} |->
     IF r = q1
     THEN {Injected, Conditional, AllOrders, StockConditional, Unclear, Parallel}
          \cup Singles
     ELSE {Polite, Asked(<<Refund>>, None, None)}]

MCModelAnswers == {[intent |-> "order_query", confidence |-> 80]}

\* A label of the checked-in dataset's kinds.
Label(intent, agent, handoff, tools) ==
  [intent |-> intent, agent |-> agent, handoff |-> handoff, tools |-> tools]

MCLabels ==
  {Label("after_sales", "after_sales_agent", FALSE, {"after_sales_agent"}),
   Label("after_sales", "after_sales_agent", TRUE, {}),
   Label("order_query", "multi_agent", FALSE, {"order_agent", "after_sales_agent"}),
   Label("greeting", None, FALSE, {}),
   Label("unknown", None, TRUE, {})}

=============================================================================
