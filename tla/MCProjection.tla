----------------------------- MODULE MCProjection -----------------------------
(* Customers under shops, and orders under customers.                       *)
EXTENDS Projection

SubjectAncestors == [shop |-> <<>>, customer |-> <<"shop">>, order |-> <<"customer", "shop">>]

Says(type, seals, shops, customers, orders, id) ==
    LET carries == [shop |-> shops, customer |-> customers, order |-> orders]
    IN  [type |-> type, seals |-> seals, carries |-> carries,
         with |-> [id |-> <<id>>,
                   text |-> IF seals = NoSubject THEN None ELSE <<seals, carries[seals][1]>>]]

Signed(c, s)    == Says("signed", "customer", <<s>>, <<c>>, <<>>, c)
Noted(c, s)     == Says("noted", "customer", <<s>>, <<c>>, <<>>, c)
Left(c)         == Says("left", NoSubject, <<>>, <<c>>, <<>>, c)
Moved(c, s, t)  == Says("signed", "customer", <<s, t>>, <<c>>, <<>>, c)
OrderRows(o, c, s) == Says("ordered", "order", <<s>>, <<c>>, <<o>>, c)

MCEntities == [Buyer |-> [key |-> "id", columns |->
                    [id    |-> [opt |-> FALSE, zero |-> <<"zero">>],
                     email |-> [opt |-> TRUE, zero |-> None],
                     last  |-> [opt |-> TRUE, zero |-> None],
                     count |-> [opt |-> FALSE, zero |-> <<0>>]]],
               Strict |-> [key |-> "id", columns |->
                    [id    |-> [opt |-> FALSE, zero |-> <<"zero">>],
                     email |-> [opt |-> FALSE, zero |-> <<"zero">>]]]]

F(f) == [src |-> "field", of |-> f]
K(v) == [src |-> "const", of |-> v]
Old(c) == [src |-> "stored", of |-> c]
Count(c) == [src |-> "count", of |-> c]

Put(entity, fields) == [do |-> "put", entity |-> entity, fields |-> fields]
Change(how, fields) == [do |-> how, entity |-> "Buyer", key |-> F("id"), fields |-> fields]
Gives == [id |-> F("id"), email |-> F("text"), last |-> K(None), count |-> K(<<0>>)]

MCProjectors == {
    <<[on |-> "signed", body |-> <<Put("Buyer", Gives)>>],
      [on |-> "noted", body |-> <<Change("patch", [last |-> Old("email"), email |-> F("text"), count |-> Count("count")])>>],
      [on |-> "left", body |-> <<Change("delete", <<>>)>>]>>,
    <<[on |-> "noted", body |-> <<Change("update", [last |-> F("text")]), Change("update", [count |-> Count("count")])>>],
      [on |-> "signed", body |-> <<Change("patch", [email |-> F("text")])>>],
      [on |-> "left", body |-> <<Change("delete", <<>>), Change("patch", [count |-> Count("count")])>>]>>,
    <<[on |-> "noted", body |-> <<Change("patch", [count |-> Count("count")]),
                                  Put("Strict", [id |-> F("id"), email |-> F("text")])>>],
      [on |-> "ordered", body |-> <<Change("patch", [last |-> F("text")])>>]>> }

MCLanding == {Signed("c1", "s1"), Signed("c2", "s1"), Noted("c1", "s1"), Noted("c1", "s2"),
              Left("c1"), OrderRows("o1", "c2", "s1")}

MovingOn == {Signed("c1", "s1"), Moved("c1", "s1", "s2")}
===============================================================================
