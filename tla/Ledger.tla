------------------------------- MODULE Ledger -------------------------------
(***************************************************************************)
(* The books of one company and what the application reads out of them:    *)
(* the queries of db_service over journal_entry_lines, the report          *)
(* builders, and the pure computations of financial_statement_service      *)
(* (NIC 7 cash flow, changes in equity, notes).                            *)
(*                                                                         *)
(* A line is a record [cuenta, debito, credito, fecha, tercero, tipoIva].  *)
(* A PUC code is the number its digits spell, money is in whole pesos and  *)
(* a date is a month.  A set of lines stands for the posted lines of the   *)
(* company: every TransactionPosted row is created POSTED and no code      *)
(* changes that status, so the status filter of the queries keeps them all.*)
(***************************************************************************)
EXTENDS Integers, FiniteSets, FiniteSetsExt

CONSTANT Naturaleza \* catalogue cuentas_puc: code -> "D" or "C", for some codes

(* Codes, a PUC code having eight digits at most; "code starts with p", both
   read as digit strings. *)
Codigos == {c \in Nat : 1 <= c /\ c < 1000000000}
Potencias == {1, 10, 100, 1000, 10000, 100000, 1000000, 10000000, 100000000}
Starts(code, p) == \E q \in Potencias : code \div q = p
StartsAny(code, P) == \E p \in P : Starts(code, p)
Clase(code) == CHOOSE d \in 1..9 : Starts(code, d)
(* The six-digit level, and the group such an account belongs to. *)
Subcuenta(code) == 100000 <= code /\ code <= 999999
Grupo(code) == code \div 10000

EsLineas(L) ==
  IsFiniteSet(L) /\ \A l \in L : l.cuenta \in Codigos /\ l.debito \in Int /\ l.credito \in Int /\ l.fecha \in Nat
Debitos(L)  == SumFunction([l \in L |-> l.debito])
Creditos(L) == SumFunction([l \in L |-> l.credito])
DebitNature(L)  == Debitos(L) - Creditos(L)
CreditNature(L) == Creditos(L) - Debitos(L)
Absolute(x) == IF x < 0 THEN -x ELSE x

Cuentas(L) == {l.cuenta : l \in L}
DeCuenta(L, c) == {l \in L : l.cuenta = c}
DeClase(L, k) == {l \in L : Clase(l.cuenta) = k}
ConPrefijo(L, p) == {l \in L : Starts(l.cuenta, p)}

----------------------------------------------------------------------------
(* Queries *)

get_daily_journal(L, ini, fin) == {l \in L : l.fecha >= ini /\ l.fecha <= fin}

get_general_ledger(L, ini, fin) ==
  LET en == get_daily_journal(L, ini, fin)
  IN [c \in Cuentas(en) |-> [debito  |-> Debitos(DeCuenta(en, c)),
                             credito |-> Creditos(DeCuenta(en, c))]]
Deudor(r) == r.debito - r.credito
Acreedor(r) == r.credito - r.debito

get_subsidiary_journal(L, c, ini, fin) == DeCuenta(get_daily_journal(L, ini, fin), c)

(* Credits of class 4 per IVA regime of the transaction. *)
get_revenue_by_tipo_iva(L, ini, fin) ==
  LET en == ConPrefijo(get_daily_journal(L, ini, fin), 4)
  IN [t \in {l.tipoIva : l \in en} |-> Creditos({l \in en : l.tipoIva = t})]

(* The catalogue's nature of an account, its own or its nearest parent's; it
   moves a few auxiliaries to the other side. *)
NaturalezaDe(c) ==
  LET padres == {p \in DOMAIN Naturaleza :
                   p = c \/ (Starts(c, p) /\ p \in 1000..9999 \cup 100000..999999)}
  IN {Naturaleza[p] : p \in {q \in padres : \A r \in padres : r <= q}}
PresentationClass(c) ==
  IF "D" \in NaturalezaDe(c) /\ Clase(c) \in {2, 3} THEN 1
  ELSE IF "C" \in NaturalezaDe(c) /\ Clase(c) = 1 THEN 2 ELSE Clase(c)

(* Totals per class 1..6, given the class each account rolls up to; an asset
   account with a credit balance is an advance from a customer, a liability. *)
SeReporta(c) == Clase(c) \in 1..6
DelBalance(L) == {c \in Cuentas(L) : SeReporta(c)}
Saldos(L, clase) ==
  [c \in DelBalance(L) |-> IF clase[c] \in {1, 5, 6} THEN DebitNature(DeCuenta(L, c))
                                                     ELSE CreditNature(DeCuenta(L, c))]
Totales(L, clase) ==
  LET saldo == Saldos(L, clase)
      anticipos == {c \in DelBalance(L) : clase[c] = 1 /\ saldo[c] < 0}
      total(k) == SumFunctionOnSet(saldo, {c \in DelBalance(L) \ anticipos : clase[c] = k})
      utilidad == total(4) - total(5) - total(6)
  IN [assets |-> total(1), liabilities |-> total(2) - SumFunctionOnSet(saldo, anticipos),
      equity |-> total(3), net_profit |-> utilidad, total_equity |-> total(3) + utilidad]
Presentacion(L) == [c \in Cuentas(L) |-> PresentationClass(c)]
PorClase(L) == [c \in Cuentas(L) |-> Clase(c)]
Hasta(L, corte) == {l \in L : l.fecha <= corte}

(* Mutant: an asset account with a credit balance counts on neither side. *)
get_balance_sheet_Lost(L, corte) ==
  LET quedan == {l \in Hasta(L, corte) :
                   Clase(l.cuenta) # 1 \/ DebitNature(DeCuenta(Hasta(L, corte), l.cuenta)) >= 0}
  IN Totales(quedan, Presentacion(quedan))

get_balance_sheet(L, corte) == Totales(Hasta(L, corte), Presentacion(Hasta(L, corte)))
get_balance_sheet_for_period(L, ini, fin) ==
  LET en == get_daily_journal(L, ini, fin) IN Totales(en, PorClase(en))
IsBalanced(b) == Absolute(b.assets - (b.liabilities + b.total_equity)) <= 1

get_pnl(L, ini, fin) ==
  LET en == get_daily_journal(L, ini, fin)
      bruta == CreditNature(DeClase(en, 4)) - DebitNature(DeClase(en, 6))
  IN [ingresos |-> CreditNature(DeClase(en, 4)), utilidad_bruta |-> bruta,
      utilidad_neta |-> bruta - DebitNature(DeClase(en, 5)),
      cuentas |-> [c \in {d \in Cuentas(en) : Clase(d) \in {4, 5, 6}} |->
                     IF Clase(c) = 4 THEN CreditNature(DeCuenta(en, c))
                                     ELSE DebitNature(DeCuenta(en, c))]]

get_period_comparison(L, p1, p2) ==
  LET a == get_general_ledger(L, p1.ini, p1.fin)
      b == get_general_ledger(L, p2.ini, p2.fin)
      valor(m, c) == IF c \in DOMAIN m THEN Deudor(m[c]) ELSE 0
  IN [c \in DOMAIN a \cup DOMAIN b |-> valor(b, c) - valor(a, c)]

(* One grouped query per prefix, and the batched one that replaced it. *)
get_monthly_trend(L, p, desde) ==
  LET en == {l \in ConPrefijo(L, p) : l.fecha >= desde}
  IN [m \in {l.fecha : l \in en} |-> DebitNature({l \in en : l.fecha = m})]
ClassMap == {1, 2, 3, 4, 5, 6, 11}
get_monthly_totals_by_class(L, desde) ==
  LET en == {l \in L : l.fecha >= desde}
      meses == {l.fecha : l \in en}
      neto(p, m) == SumFunction([l \in en |-> IF Starts(l.cuenta, p) /\ l.fecha = m
                                               THEN l.debito - l.credito ELSE 0])
  IN [p \in ClassMap |-> [m \in {n \in meses : \E l \in en : Starts(l.cuenta, p) /\ l.fecha = n}
                            |-> neto(p, m)]]

----------------------------------------------------------------------------
(* Report builders *)

(* The balance sheet report: totals of get_balance_sheet next to a detail in
   which an account of class 1 or 2 goes to the side of its actual balance. *)
build_balance(L, corte) ==
  LET mayor == get_general_ledger(L, 0, corte)
      de(k) == {c \in DOMAIN mayor : Clase(c) = k}
      activos == {c \in de(1) : Deudor(mayor[c]) >= 0} \cup {c \in de(2) : Acreedor(mayor[c]) < 0}
      pasivos == {c \in de(2) : Acreedor(mayor[c]) >= 0} \cup {c \in de(1) : Deudor(mayor[c]) < 0}
  IN [totales |-> get_balance_sheet(L, corte),
      activos_detalle |-> [c \in activos |-> Absolute(Deudor(mayor[c]))],
      pasivos_detalle |-> [c \in pasivos |-> Absolute(Deudor(mayor[c]))],
      patrimonio_detalle |-> [c \in de(3) |-> Acreedor(mayor[c])]]

build_pnl(L, ini, fin) ==
  LET mayor == get_general_ledger(L, ini, fin)
      de(k) == {c \in DOMAIN mayor : Clase(c) = k}
      ingresos == SumFunction([c \in de(4) |-> Acreedor(mayor[c])])
      gastos == SumFunction([c \in de(5) |-> Deudor(mayor[c])])
      costo == SumFunction([c \in de(6) |-> Deudor(mayor[c])])
  IN [utilidad_bruta |-> ingresos - costo, utilidad_neta |-> (ingresos - costo) - gastos]

build_cashflow(L, ini, fin) ==
  LET mayor == get_general_ledger(L, ini, fin)
  IN SumFunction([c \in {d \in DOMAIN mayor : Starts(d, 11)} |-> Deudor(mayor[c])])

(* Generated IVA is read off 240805 and the deductible one off 240802 and
   240810, each in gross; the parent 2408 counts on the side of its balance. *)
build_iva(L, ini, fin) ==
  LET mayor == get_general_ledger(L, ini, fin)
      parent(c, deudora) == c = 2408 /\ (Deudor(mayor[c]) > 0) = deudora
      g == SumFunction([c \in DOMAIN mayor |-> IF Starts(c, 240805) THEN mayor[c].credito
                                               ELSE IF parent(c, FALSE) THEN Acreedor(mayor[c]) ELSE 0])
      d == SumFunction([c \in DOMAIN mayor |-> IF StartsAny(c, {240802, 240810}) THEN mayor[c].debito
                                               ELSE IF parent(c, TRUE) THEN Deudor(mayor[c]) ELSE 0])
  IN [iva_generado |-> g, iva_descontable |-> d, iva_a_pagar |-> g - d]

(* Lines grouped per account, as the libro auxiliar report lists them. *)
build_libro_auxiliar(L, ini, fin) ==
  LET en == get_daily_journal(L, ini, fin)
  IN [c \in Cuentas(en) |-> [movimientos |-> DeCuenta(en, c), saldo |-> DebitNature(DeCuenta(en, c))]]

(* Subsidiary ledgers of a stored libro auxiliar: an account with neither an
   opening balance nor a movement is left out. *)
build_libro_auxiliar_cuentas(L, ini, fin) ==
  LET antes == {l \in L : l.fecha < ini}
      en == get_daily_journal(L, ini, fin)
      inicial(c) == DebitNature(DeCuenta(antes, c))
  IN [c \in {d \in Cuentas(antes) \cup Cuentas(en) : inicial(d) # 0 \/ d \in Cuentas(en)} |->
        [saldo_inicial |-> inicial(c), saldo_final |-> inicial(c) + DebitNature(DeCuenta(en, c))]]

----------------------------------------------------------------------------
(* First-level statements.  A statement's accounts are a function from codes
   to balances in the natural sign of the class. *)

SaldoNatural(L, c) == IF Clase(c) \in {1, 5, 6} THEN DebitNature(DeCuenta(L, c))
                                                ELSE CreditNature(DeCuenta(L, c))
Merge(F, G) == [c \in DOMAIN F \cup DOMAIN G |-> IF c \in DOMAIN F THEN F[c] ELSE G[c]]
UtilidadDelEjercicio == 360505

(* Mutant: the profit is not brought into the accounts of the balance. *)
build_bg_data_from_journal_NoProfit(L, corte) ==
  LET hasta == Hasta(L, corte)
  IN [total_patrimonio |-> get_balance_sheet(L, corte).total_equity,
      cuentas |-> [c \in Cuentas(hasta) |-> SaldoNatural(hasta, c)]]

(* Cumulative balance; the profit is put on class 36 when nobody closed it. *)
build_bg_data_from_journal(L, corte) ==
  LET b == get_balance_sheet(L, corte)
      hasta == Hasta(L, corte)
      cuentas == [c \in Cuentas(hasta) |-> SaldoNatural(hasta, c)]
      sintetica == b.net_profit # 0 /\ \A c \in DOMAIN cuentas : ~Starts(c, 36)
  IN [total_patrimonio |-> b.total_equity,
      cuentas |-> IF sintetica THEN Merge(cuentas, [c \in {UtilidadDelEjercicio} |-> b.net_profit])
                               ELSE cuentas]

libro_auxiliar_is_comprehensive(lineas) ==
  /\ {1, 2, 3} \subseteq {Clase(c) : c \in Cuentas(lineas)}
  /\ {4, 5, 6, 7} \cap {Clase(c) : c \in Cuentas(lineas)} # {}

synthesize_balance_from_libro_auxiliar(lineas) ==
  LET de == {c \in Cuentas(lineas) : Clase(c) \in {1, 2, 3}}
  IN [total_patrimonio |-> CreditNature(DeClase(lineas, 3)),
      cuentas |-> [c \in de |-> IF Clase(c) = 1 THEN DebitNature(DeCuenta(lineas, c))
                                                ELSE CreditNature(DeCuenta(lineas, c))]]

synthesize_income_statement_from_libro_auxiliar(lineas) ==
  LET de == {c \in Cuentas(lineas) : Clase(c) \in {4, 5, 6, 7}}
  IN [utilidad_neta |-> SumFunction([c \in de |-> CreditNature(DeCuenta(lineas, c))]),
      cuentas |-> [c \in de |-> IF Clase(c) = 4 THEN CreditNature(DeCuenta(lineas, c))
                                                ELSE DebitNature(DeCuenta(lineas, c))]]

----------------------------------------------------------------------------
(* Derived statements *)

(* Only the deepest level of each branch of codes counts. *)
leaf_accounts(F) ==
  [c \in {d \in DOMAIN F : d < 100000000 /\ ~\E e \in DOMAIN F : e # d /\ Starts(e, d)} |-> F[c]]

sum_leaves(H, P, X) ==
  SumFunctionOnSet(H, {c \in DOMAIN H : StartsAny(c, P) /\ ~StartsAny(c, X)})

(* Mutant: the input IVA and other taxes are left out of working capital. *)
compute_cash_flow_indirect_NoTaxes(bg, prior, er, lineas) ==
  LET ahora == leaf_accounts(bg.cuentas)
      antes == leaf_accounts(prior.cuentas)
      delta(P, X) == sum_leaves(ahora, P, X) - sum_leaves(antes, P, X)
      flujo == er.utilidad_neta + Absolute(delta({159}, {}))
               - delta({13, 14, 15, 16, 12}, {159}) + delta({22, 23, 25, 26, 21, 31}, {})
               - Debitos(ConPrefijo(lineas, 3705))
      fin == sum_leaves(ahora, {11}, {})
  IN [operacion |-> flujo, inversion |-> 0, financiacion |-> 0,
      inicio |-> sum_leaves(antes, {11}, {}), fin |-> fin,
      verificacion |-> 200 * Absolute(fin - sum_leaves(antes, {11}, {}) - flujo)
                         <= Max({Absolute(fin), 200})]

(* NIC 7, indirect method: bg and prior are balances, er an income statement,
   lineas the movements of the period ({} when no libro auxiliar is on file). *)
compute_cash_flow_indirect(bg, prior, er, lineas) ==
  LET ahora == leaf_accounts(bg.cuentas)
      antes == leaf_accounts(prior.cuentas)
      eh == leaf_accounts(er.cuentas)
      delta(P, X) == sum_leaves(ahora, P, X) - sum_leaves(antes, P, X)
      hayDepreciacion == sum_leaves(ahora, {159}, {}) # 0 \/ sum_leaves(antes, {159}, {}) # 0
      depreciacion == IF hayDepreciacion THEN Absolute(delta({159}, {}))
                                         ELSE sum_leaves(eh, {5160, 5260, 7560}, {})
      operacion == er.utilidad_neta + depreciacion + sum_leaves(eh, {519}, {})
                   - delta({13}, {}) - delta({14}, {}) + delta({22, 23, 24, 25, 26}, {})
      inversion == -delta({15}, {159}) - delta({16}, {}) - delta({12}, {})
      dividendos == Debitos(ConPrefijo(lineas, 3705))
      financiacion == delta({21}, {}) + delta({31}, {}) - dividendos
      fin == sum_leaves(ahora, {11}, {})
      inicio == sum_leaves(antes, {11}, {})
      diferencia == fin - (inicio + operacion + inversion + financiacion)
  IN [operacion |-> operacion, inversion |-> inversion, financiacion |-> financiacion,
      inicio |-> inicio, fin |-> fin,
      verificacion |-> 200 * Absolute(diferencia) <= Max({Absolute(fin), 200})]

EquityComponents == {31, 33, 36, 37, 38}

(* Changes in equity: each component with its balances and its movements; the
   result of the year also takes the profit of the income statement. *)
compute_equity_changes(bg, prior, er, lineas) ==
  LET ahora == leaf_accounts(bg.cuentas)
      antes == leaf_accounts(prior.cuentas)
      movimiento(p) == CreditNature(ConPrefijo(lineas, p)) + (IF p = 36 THEN er.utilidad_neta ELSE 0)
      componente(p) == [inicial |-> sum_leaves(antes, {p}, {}), final |-> sum_leaves(ahora, {p}, {}),
                        movimiento |-> movimiento(p)]
      total == SumFunction([p \in EquityComponents |-> componente(p).final])
  IN [componentes |-> [p \in EquityComponents |-> componente(p)],
      cuadre_patrimonio |-> 200 * Absolute(total - bg.total_patrimonio)
                              <= Max({Absolute(bg.total_patrimonio), 200})]

(* Notes 4 to 12: the leaves each note breaks down. *)
NoteSpecs == [n \in 4..12 |->
  CASE n = 4 -> {11} [] n = 5 -> {13} [] n = 6 -> {15, 16, 17} [] n = 7 -> {22, 23} [] n = 8 -> {24}
    [] n = 9 -> {25, 26} [] n = 10 -> {3} [] n = 11 -> {41, 42} [] n = 12 -> {51, 52, 53}]
compute_notes(bg, er) ==
  LET balance == leaf_accounts(bg.cuentas)
      resultado == leaf_accounts(er.cuentas)
      fuente(n) == IF n \in {11, 12} THEN resultado ELSE balance
      cifras(n) == {c \in DOMAIN fuente(n) : StartsAny(c, NoteSpecs[n])}
  IN [n \in {m \in 4..12 : cifras(m) # {}} |-> [c \in cifras(n) |-> fuente(n)[c]]]

----------------------------------------------------------------------------
(* What the reports of one set of lines have to say alike *)

(* What the screens of the same books say agrees.  Of one period: the balance
   sheet closes exactly when the entries do (those of classes 7 to 9 it leaves
   out), the income statement of the report, of the query and the profit of the
   balance are one number, the two ways of computing monthly trends give the
   same figures (the batched query replaced the others), and the generated and
   deductible IVA net to the movement of 2408, when each is on its side of the
   subaccounts the report reads. *)
IvaPorSuLado(L) ==
  \A l \in ConPrefijo(L, 2408) : \/ l.cuenta = 2408
                                 \/ Starts(l.cuenta, 240805) /\ l.debito = 0
                                 \/ StartsAny(l.cuenta, {240802, 240810}) /\ l.credito = 0
Cierra(L) == Absolute(DebitNature({l \in L : SeReporta(l.cuenta)})) <= 1
PeriodAgrees(L, ini, fin) ==
  LET en == get_daily_journal(L, ini, fin)
      balance == get_balance_sheet_for_period(L, ini, fin)
  IN /\ IsBalanced(balance) <=> Cierra(en)
     /\ build_pnl(L, ini, fin).utilidad_neta = get_pnl(L, ini, fin).utilidad_neta
     /\ build_pnl(L, ini, fin).utilidad_neta = balance.net_profit
     /\ IvaPorSuLado(en) => build_iva(L, ini, fin).iva_a_pagar = CreditNature(ConPrefijo(en, 2408))
     /\ SumFunction(get_revenue_by_tipo_iva(L, ini, fin)) = Creditos(DeClase(en, 4))
     /\ \A p \in ClassMap : get_monthly_totals_by_class(L, ini)[p] = get_monthly_trend(L, p, ini)

(* Of the books up to a date: accounts moved between assets and liabilities
   keep their difference; the detail and the totals of the balance sheet hold
   the same net worth, and the same equity when the catalogue moves no account
   of class 3. *)
BalanceAgrees(L, fin) ==
  LET b == build_balance(L, fin)
  IN /\ IsBalanced(b.totales) <=> Cierra(Hasta(L, fin))
     /\ b.totales.net_profit = get_pnl(L, 0, fin).utilidad_neta
     /\ SumFunction(b.activos_detalle) - SumFunction(b.pasivos_detalle) - SumFunction(b.patrimonio_detalle)
          = b.totales.assets - b.totales.liabilities - b.totales.equity
     /\ (\A c \in Cuentas(Hasta(L, fin)) : Clase(c) = 3 => PresentationClass(c) = 3) =>
          SumFunction(b.patrimonio_detalle) = b.totales.equity

(* Of consecutive periods: what an account closes with is what it opens with
   next, and what the cumulative ledger says of it, and the comparison of two
   periods adds up to the difference of their entries, nothing when each entry
   balances. *)
SubledgersChain(L, p, q) ==
  LET a == build_libro_auxiliar_cuentas(L, p.ini, p.fin)
      b == build_libro_auxiliar_cuentas(L, q.ini, q.fin)
      mayor == get_general_ledger(L, 0, p.fin)
      libro == build_libro_auxiliar(L, p.ini, p.fin)
  IN /\ p.ini <= p.fin + 1 =>
          /\ \A c \in DOMAIN a : c \in DOMAIN mayor /\ a[c].saldo_final = Deudor(mayor[c])
          /\ \A c \in DOMAIN mayor \ DOMAIN a : Deudor(mayor[c]) = 0
          /\ p.fin + 1 = q.ini => \A c \in DOMAIN a \cap DOMAIN b : b[c].saldo_inicial = a[c].saldo_final
     /\ \A c \in DOMAIN libro :
          /\ libro[c].movimientos = get_subsidiary_journal(L, c, p.ini, p.fin)
          /\ c \in DOMAIN a /\ libro[c].saldo = a[c].saldo_final - a[c].saldo_inicial
     /\ SumFunction(get_period_comparison(L, p, q))
          = DebitNature(get_daily_journal(L, q.ini, q.fin)) - DebitNature(get_daily_journal(L, p.ini, p.fin))

(* What the indirect method can explain: entries that balance, on six-digit
   accounts of the groups it adds up.  In equity only capital and dividends
   move; depreciation goes to 159, which does not shrink; and there are no
   provisions, which the method takes twice, as an expense without cash and as
   a change of the receivables. *)
MetodoExplica(L, ini, fin) ==
  LET en == get_daily_journal(L, ini, fin)
  IN /\ ini <= fin /\ Cierra(en)
     /\ \A c \in Cuentas(Hasta(L, fin)) : Subcuenta(c)
     /\ \A l \in en :
          \/ Grupo(l.cuenta) \in 11..16 \cup 21..26 \cup {31}
          \/ Starts(l.cuenta, 3705) /\ l.credito = 0
          \/ Clase(l.cuenta) \in {4, 5, 6} /\ ~Starts(l.cuenta, 519)
     /\ CreditNature(ConPrefijo(en, 159)) >= 0
     /\ (\E l \in en : StartsAny(l.cuenta, {5160, 5260})) => CreditNature(ConPrefijo(en, 159)) > 0

(* Equity is on six-digit accounts of its components, which the catalogue does
   not move elsewhere, and nobody has booked the result of the year. *)
PatrimonioEnComponentes(L, ini, fin) ==
  /\ ini <= fin
  /\ \A c \in Cuentas(Hasta(L, fin)) :
       Subcuenta(c) /\ (Clase(c) = 3 => Grupo(c) \in EquityComponents \ {36} /\ PresentationClass(c) = 3)
=============================================================================
