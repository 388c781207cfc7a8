-------------------------- MODULE MCResourceServer ---------------------------
(***************************************************************************)
(* Routes on two networks for the model checker: prices that share an      *)
(* extra map, prices that have their own or none, decimal amounts, money,  *)
(* and prices that must be refused; and money parsers that make a map for  *)
(* each answer, or keep one.                                               *)
(***************************************************************************)
EXTENDS Amounts, MCRequests

Main == "casper:main"
Test == "casper:test"

MCPriceMaps ==
  [m \in {"shared", "own", "unnamed", "parsed", "kept"} |->
     [name |-> IF m = "unnamed" THEN "" ELSE "Cep18x402", version |-> "1", feePayer |-> ""]]

Whole(n) == Text(IntegerText(n), FALSE, <<>>)
OneAndAHalf == Text(<<1>>, TRUE, <<5>>)

Asked(amount, asset, extra) == [amount |-> amount, asset |-> asset, extra |-> extra]
Explicit(asked) == [kind |-> "explicit", isString |-> TRUE, asked |-> asked]
Money(readable) == [kind |-> "money", readable |-> readable]

Route(network, price) ==
  [network |-> network, payTo |-> Account("shop"), maxTimeout |-> 3, price |-> price]

SharedPrice == Explicit(Asked(OneAndAHalf, "cep18", "shared"))
OwnPrice == Explicit(Asked(Whole(7), "cep18", "own"))

MCRoutes ==
  { Route(Main, SharedPrice), Route(Test, SharedPrice), Route(Test, OwnPrice),
    Route(Main, Money(TRUE)), Route(Test, Money(TRUE)), Route(Test, Money(FALSE)),
    Route(Test, [OwnPrice EXCEPT !.isString = FALSE]),
    Route(Test, [OwnPrice EXCEPT !.asked.asset = "none"]),
    Route(Test, [OwnPrice EXCEPT !.asked.extra = "unnamed"]),
    Route(Test, [OwnPrice EXCEPT !.asked.extra = "none"]),
    Route(Test, [OwnPrice EXCEPT !.asked.amount = Text(<<>>, TRUE, <<5>>)]),
    Route(Test, [OwnPrice EXCEPT !.asked.amount = Text(<<0>>, TRUE, <<0, 0, 1>>)]),
    [Route(Test, OwnPrice) EXCEPT !.payTo.kind = "text"] }

Parser(onMain, onTest, amount, extra) ==
  [outcome |-> [n \in {Main, Test} |-> IF n = Main THEN onMain ELSE onTest],
   answer |-> Asked(amount, "cep18", extra)]

MCParsers ==
  { Parser("answers", "skips", OneAndAHalf, "parsed"),
    Parser("errs", "answers", Whole(5), "parsed"),
    Parser("answers", "answers", Whole(5), "kept"), Parser("skips", "errs", Whole(5), "kept") }

MCRegistrable == {<<Main, "cep18">>, <<Test, "cep18">>}

MCSupportedExtra ==
  [n \in {Main, Test} |-> [feePayer |-> IF n = Main THEN "main.payer" ELSE "test.payer"]]

\* Every decimal of up to three digits.
MCAmountTexts ==
  [t \in {Text(s, FALSE, <<>>) : s \in UNION {[1..k -> Digit] : k \in 1..3}} |->
     DigitsValue(t.whole)]
=============================================================================
