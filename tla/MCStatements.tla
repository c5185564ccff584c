---------------------------- MODULE MCStatements ----------------------------
(* Three entries over two years: capital, a loan, a purchase and a sale on
   credit with IVA and cost of sales; a machine, its depreciation, a
   purchase, more capital and a collection that exceeds the receivable; dividends as a nota de ajuste. *)
EXTENDS Statements, TLC

L(f, c, d, h) == [cuenta |-> c, debito |-> d, credito |-> h, fecha |-> f, tercero |-> 1, tipoIva |-> "gravado"]
MCTx == 1..3
MCAjustes == {3}
MCAsiento == <<
  {L(1, 111005, 300, 0), L(1, 310505, 0, 200), L(1, 210510, 0, 100),
   L(2, 143505, 50, 0), L(2, 240802, 10, 0), L(2, 220505, 0, 60), L(2, 130505, 120, 0),
   L(2, 413505, 0, 100), L(2, 240805, 0, 20), L(2, 613505, 40, 0), L(2, 143505, 0, 40)},
  {L(3, 152405, 80, 0), L(3, 111005, 0, 80), L(3, 516010, 10, 0), L(3, 159205, 0, 10),
   L(4, 143505, 30, 0), L(4, 240802, 5, 0), L(4, 233505, 0, 35),
   L(4, 111005, 150, 0), L(4, 130505, 0, 150), L(4, 111005, 50, 0), L(4, 310505, 0, 50)},
  {L(4, 370505, 20, 0), L(4, 111005, 0, 20)} >>
MCLote == <<1, 1, 2>>
MCPeriodos == {[ini |-> 1, fin |-> 2, frec |-> "annual"], [ini |-> 3, fin |-> 4, frec |-> "annual"],
               [ini |-> 2, fin |-> 2, frec |-> "monthly"]}
MCNaturaleza == (240802 :> "D") @@ (159205 :> "C")
=============================================================================
