---------------------------- MODULE Declarations ----------------------------
(***************************************************************************)
(* The tax returns the application drafts: the casillas its builders fill  *)
(* from the books and from the tax tables, and the official forms whose    *)
(* subtotals follow from them.                                             *)
(*                                                                         *)
(* A form is [manual, formulas]: the casillas the accountant fills, and in *)
(* the order of the form its subtotals, each the largest of some sums.     *)
(* What a builder computes is a function from casillas to [valor, revisar].*)
(* L is the set of posted lines (with their concepto), T the tax tables.   *)
(***************************************************************************)
EXTENDS Taxes

Suma(mas, menos) == [mas |-> mas, menos |-> menos]
Cero == Suma({}, {})
Exacta(cas, mas, menos) == [cas |-> cas, sumas |-> {Suma(mas, menos)}]
ConPiso(cas, mas, menos) == [cas |-> cas, sumas |-> {Suma(mas, menos), Cero}]

F300 == [manual |-> {84, 85, 87, 90, 91, 92, 93},
  formulas |-> << Exacta(41, 27..40, {}), Exacta(43, {41}, {42}), Exacta(55, 44..54, {}), Exacta(57, {55}, {56}),
    Exacta(67, 58..66, {}), Exacta(77, 68..76, {}), Exacta(81, {77, 78, 79}, {80}),
    ConPiso(82, {67}, {81}), ConPiso(83, {81}, {67}), ConPiso(86, {82}, {84, 85}),
    ConPiso(88, {82, 87}, {84, 85}), ConPiso(89, {83, 84, 85}, {87}) >>]

RET_RENTA == 42..54 \cup 57..58 \cup 68..76 \cup 93..108 \cup 111..112 \cup 121..128
F350 == [manual |-> {129, 133, 137},
  formulas |-> << ConPiso(130, RET_RENTA, {129}), ConPiso(134, {131, 132}, {133}),
    Exacta(136, {130, 134, 135}, {}), Exacta(138, {136, 137}, {}) >>]

F110 == [manual |-> {74, 77, 78, 93, 109, 110, 112} \cup 100..104,
  formulas |-> << Exacta(44, 36..43, {}), Exacta(46, {44}, {45}), Exacta(58, 47..57, {}), Exacta(61, {58}, {59, 60}),
    Exacta(67, 62..66, {}), ConPiso(72, {61, 69, 70, 71}, 52..56 \cup {67, 68}),
    ConPiso(73, 52..56 \cup {67, 68}, {61, 69, 70, 71}), ConPiso(75, {72}, {74}),
    [cas |-> 79, sumas |-> {Suma({75, 78}, {77}), Suma({76, 78}, {77}), Cero}],
    ConPiso(83, {80}, {81, 82}), Exacta(91, 84..90, {}), ConPiso(94, {91, 92}, {93}), Exacta(96, {94, 95}, {}),
    ConPiso(99, {96, 97}, {98}), Exacta(107, {105, 106}, {}),
    ConPiso(111, {99, 108, 110}, 100..104 \cup {107, 109}),
    ConPiso(113, {99, 108, 110, 112}, 100..104 \cup {107, 109}),
    ConPiso(114, 100..104 \cup {107, 109}, {99, 108, 110, 112}) >>]

ICA == [manual |-> {2, 6, 9, 10, 11},
  formulas |-> << ConPiso(3, {1}, {2}), Exacta(7, {4, 5, 6}, {}),
    [cas |-> 12, sumas |-> {Suma({7, 10, 11}, {8, 9}), Suma({10, 11}, {})}] >>]

SinCatalogo == [manual |-> {}, formulas |-> <<>>]
get_catalog(forma) == CASE forma = "F300" -> F300 [] forma = "F350" -> F350 [] forma = "F110" -> F110
                        [] forma = "ICA" -> ICA [] OTHER -> SinCatalogo

En(v, cas) == IF cas \in DOMAIN v THEN v[cas] ELSE 0
SumaDe(v, S) == MapThenSumSet(LAMBDA c : v[c], S \cap DOMAIN v)
Evaluar(v, f) == Max({SumaDe(v, s.mas) - SumaDe(v, s.menos) : s \in f.sumas})

(* Subtotals in the order of the form; a computed casilla wins over the
   manual one, and only values other than zero are kept. *)
build_draft_from_catalog(forma, comp) ==
  LET previos == [c \in DOMAIN comp |-> comp[c].valor]
      v == FoldLeft(LAMBDA acc, f : Merge([c \in {f.cas} |-> Evaluar(acc, f)], acc), previos, forma.formulas)
  IN [valores |-> [c \in {d \in DOMAIN v : v[d] # 0} |-> v[c]],
      revisar |-> (forma.manual \ DOMAIN comp) \cup {c \in DOMAIN comp : comp[c].revisar}]

Cifra(valor) == [valor |-> valor, revisar |-> FALSE]
PorRevisar(valor) == [valor |-> valor, revisar |-> TRUE]
sum_credits(L, p) == Creditos(ConPrefijo(L, p))
sum_debits(L, p) == Debitos(ConPrefijo(L, p))
exact_credit(L, c) == Creditos(DeCuenta(L, c))
exact_debit(L, c) == Debitos(DeCuenta(L, c))

----------------------------------------------------------------------------
(* F300, IVA *)

(* The taxed share of the classified revenue, as a fraction. *)
compute_prorrateo_factor(porTipo) ==
  LET de(tipos) == MapThenSumSet(LAMBDA k : porTipo[k], tipos \cap DOMAIN porTipo)
      elegible == de({"gravado_19", "gravado_5", "exento", "exportacion"})
      total == elegible + de({"excluido"})
  IN IF total <= 0 THEN [num |-> 1, den |-> 1, revisar |-> de({"sin_clasificar"}) > 0]
     ELSE [num |-> elegible, den |-> total, revisar |-> elegible < total \/ de({"sin_clasificar"}) > 0]

build_f300(L, s, ini, fin) ==
  LET en == get_daily_journal(L, ini, fin)
      porTipo == get_revenue_by_tipo_iva(L, ini, fin)
      factor == compute_prorrateo_factor(porTipo)
      descontable == exact_debit(en, 240802)
      prorrateado == (2 * descontable * factor.num + factor.den) \div (2 * factor.den)
      casilla == [gravado_5 |-> 27, gravado_19 |-> 28, exportacion |-> 30, exento |-> 35, excluido |-> 39, no_gravado |-> 40]
      ingresos == [c \in {casilla[k] : k \in DOMAIN casilla} |->
                     Cifra(En(porTipo, CHOOSE k \in DOMAIN casilla : casilla[k] = c))]
      iva == [c \in {58, 59, 72} |->
                CASE c = 58 -> Cifra(exact_credit(en, 240807))
                  [] c = 59 -> Cifra(exact_credit(en, 240805))
                  [] c = 72 -> [valor |-> IF s.responsable THEN prorrateado ELSE descontable,
                                revisar |-> s.responsable /\ factor.revisar]]
  IN Merge(iva, ingresos)

----------------------------------------------------------------------------
(* F350, withholdings *)

CONCEPT_CASILLAS ==
  {<<"honorarios", "PJ", 29, 42>>, <<"honorarios", "PN", 79, 95>>, <<"comisiones", "PJ", 30, 43>>,
   <<"comisiones", "PN", 80, 96>>, <<"servicios", "PJ", 31, 44>>, <<"servicios", "PN", 81, 97>>,
   <<"arrendamiento", "PJ", 33, 46>>, <<"arrendamiento", "PN", 83, 99>>, <<"compras", "PJ", 36, 49>>,
   <<"compras", "PN", 86, 102>>, <<"salarios", "PN", 77, 93>>}
(* Where a concept goes; one the form does not name goes to other payments. *)
CasillasDe(c) ==
  LET suyas == {m \in CONCEPT_CASILLAS : m[1] = c.categoria /\ m[2] = c.aplica_a}
  IN IF suyas # {} THEN LET m == CHOOSE x \in suyas : TRUE IN [base |-> m[3], ret |-> m[4]]
     ELSE IF c.aplica_a = "PN" THEN [base |-> 92, ret |-> 108] ELSE [base |-> 41, ret |-> 54]

sum_retencion_by_concepto(en, c) ==
  CASE c.categoria = "salarios" -> sum_credits(en, 2365) + sum_credits(en, 2367)
    [] c.categoria = "ica"      -> sum_credits(en, 2368)
    [] OTHER -> Creditos({l \in ConPrefijo(en, 2365) : l.concepto = c.code})
(* Payroll is read off the staged transactions of the period, whatever became of them. *)
sum_nomina_retefuente(nominas, ini, fin) ==
  MapThenSumSet(LAMBDA n : n.retefuente, {n \in nominas : n.fecha >= ini /\ n.fecha <= fin})

(* Mutant: withholdings without a concept do not get to the form. *)
build_f350_NoGap(L, T, nominas, ini, fin) ==
  LET en == get_daily_journal(L, ini, fin)
      activos == {c \in list_tax_concepts(T.conceptos) : c.categoria \notin {"ica", "salarios"} /\ sum_retencion_by_concepto(en, c) > 0}
  IN [k \in {CasillasDe(c).ret : c \in activos} |->
        Cifra(MapThenSumSet(LAMBDA c : sum_retencion_by_concepto(en, c), {c \in activos : CasillasDe(c).ret = k}))]

(* Every active concept with an amount, its base estimated from its tariff;
   what 2365 holds beyond them goes to other payments, for review. *)
build_f350(L, T, nominas, ini, fin) ==
  LET en == get_daily_journal(L, ini, fin)
      monto(c) == IF c.categoria = "salarios" THEN sum_nomina_retefuente(nominas, ini, fin)
                                              ELSE sum_retencion_by_concepto(en, c)
      activos == {c \in list_tax_concepts(T.conceptos) : c.categoria # "ica" /\ monto(c) > 0}
      gap == exact_credit(en, 2365) - MapThenSumSet(monto, {c \in activos : c.categoria # "salarios"})
      base(c) == (monto(c) * 10000) \div c.tarifa
      conTarifa == {c \in activos : c.tarifa > 0}
      retiene(k) == {c \in activos : CasillasDe(c).ret = k}
      estima(k) == {c \in conTarifa : CasillasDe(c).base = k}
      retenidas == {CasillasDe(c).ret : c \in activos} \cup (IF gap > 0 THEN {54} ELSE {})
      bases == {CasillasDe(c).base : c \in conTarifa}
  IN [k \in retenidas \cup bases |->
        IF k \in retenidas
        THEN [valor |-> MapThenSumSet(monto, retiene(k)) + (IF k = 54 THEN Positivo(gap) ELSE 0),
              revisar |-> k = 54 /\ gap > 0]
        ELSE PorRevisar(MapThenSumSet(base, estima(k)))]

----------------------------------------------------------------------------
(* F2516, fiscal reconciliation *)

delta_ajustes(T, anio, seccion) ==
  MapThenSumSet(LAMBDA r : r.valor_fiscal - r.valor_contable, list_ajustes_fiscales(T.ajustes, anio, seccion))
Diferencia(T, anio, tipo) ==
  MapThenSumSet(LAMBDA r : r.valor_fiscal - r.valor_contable,
                {r \in T.ajustes : r.year = anio /\ r.tipo_diferencia = tipo})
SECCION == (191 :> "ESF_ACTIVO") @@ (241 :> "ESF_PASIVO") @@ (320 :> "ERI_INGRESO")
           @@ (410 :> "ERI_COSTO") @@ (520 :> "ERI_GASTO")

build_f2516(L, T, anio, ini, fin) ==
  LET en == get_daily_journal(L, ini, fin)
      deb(P) == MapThenSumSet(LAMBDA p : sum_debits(en, p), P)
      cred(P) == MapThenSumSet(LAMBDA p : sum_credits(en, p), P)
      ajuste(k) == delta_ajustes(T, anio, SECCION[k])
      activos == deb({1}) + ajuste(191)
      pasivos == cred({2}) + ajuste(241)
      ingresos == cred({4}) + ajuste(320)
      costos == deb({6}) + ajuste(410)
      gastos == deb({5}) + ajuste(520)
      imponible == Diferencia(T, anio, "temporaria_imponible")
      deducible == Diferencia(T, anio, "temporaria_deducible")
      sinAjustes == \A r \in T.ajustes : r.year # anio
      valores ==
        (100 :> deb({11, 12})) @@ (130 :> deb({13})) @@ (150 :> deb({14})) @@ (160 :> deb({15})) @@ (180 :> deb({16}))
        @@ (190 :> deb({1})) @@ (191 :> ajuste(191)) @@ (199 :> activos)
        @@ (200 :> cred({21, 22, 23})) @@ (220 :> cred(24..29)) @@ (240 :> cred({2})) @@ (241 :> ajuste(241))
        @@ (249 :> pasivos) @@ (290 :> activos - pasivos)
        @@ (300 :> cred({41})) @@ (310 :> cred({42})) @@ (320 :> ajuste(320)) @@ (329 :> ingresos)
        @@ (400 :> deb({6})) @@ (410 :> ajuste(410)) @@ (419 :> costos)
        @@ (500 :> deb({51, 52})) @@ (510 :> deb({53})) @@ (520 :> ajuste(520)) @@ (529 :> gastos)
        @@ (600 :> ingresos - costos - gastos)
        @@ (700 :> Diferencia(T, anio, "permanente")) @@ (710 :> imponible) @@ (720 :> deducible)
        @@ (730 :> Tarifa(imponible - deducible, 3500)) @@ (4 :> ingresos - costos - gastos)
      revisar(k) == CASE k \in DOMAIN SECCION        -> list_ajustes_fiscales(T.ajustes, anio, SECCION[k]) = {}
                      [] k \in {700, 710, 720, 4}    -> sinAjustes
                      [] OTHER                       -> k = 730
  IN [k \in DOMAIN valores |-> [valor |-> valores[k], revisar |-> revisar(k)]]

----------------------------------------------------------------------------
(* F110, income tax.  A draft is [forma, anio, status, valores, revisar];
   drafts is the sequence of them, the oldest first. *)

sum_retenciones_anio(L, anio) ==
  LET en == get_daily_journal(L, 12 * anio - 11, 12 * anio)
  IN exact_debit(en, 135515) + exact_debit(en, 135518)
Ultimo(drafts, P(_)) ==
  LET i == {k \in DOMAIN drafts : P(drafts[k])} IN IF i = {} THEN <<>> ELSE <<drafts[Max(i)]>>
UltimoF2516(drafts, anio) == Ultimo(drafts, LAMBDA d : d.forma = "F2516" /\ d.anio = anio)
(* A filed reconciliation is not looked at, only a reviewed one. *)
get_latest_f2516_reviewed(drafts, anio) ==
  Ultimo(drafts, LAMBDA d : d.forma = "F2516" /\ d.anio = anio /\ d.status = "reviewed")
(* Casilla 88 of the last F110 of the year, Nada without one. *)
get_impuesto_neto_anio(drafts, anio) ==
  LET d == Ultimo(drafts, LAMBDA x : x.forma = "F110" /\ x.anio = anio)
  IN IF d = <<>> THEN Nada ELSE En(d[1].valores, 88)

TarifaRenta(T, s, anio) == Elegir(get_tarifa_renta(T.tarifas, s.regimen, s.actividad, anio), s.renta)

(* Mutant: the losses of other years do not lower the taxable income. *)
impuesto_basico_NoLosses(T, s, anio, rlo) == Tarifa(Positivo(rlo), TarifaRenta(T, s, anio))

impuesto_basico(T, s, anio, rlo) ==
  Tarifa(Positivo(Positivo(rlo) - sum_perdidas_disponibles(T.perdidas, anio)), TarifaRenta(T, s, anio))

build_f110(L, T, s, drafts, anio, ini, fin) ==
  LET en == get_daily_journal(L, ini, fin)
      deb(P) == MapThenSumSet(LAMBDA p : sum_debits(en, p), P)
      conciliada == get_latest_f2516_reviewed(drafts, anio)
      rlo == sum_credits(en, 4) - deb({5, 6})
      perdidas == sum_perdidas_disponibles(T.perdidas, anio)
      impuesto == impuesto_basico(T, s, anio, rlo)
      anterior == get_impuesto_neto_anio(drafts, anio - 1)
      retenido == sum_retenciones_anio(L, anio - 1)
      anticipo == Positivo(Tarifa(impuesto, 7500) - retenido)
      promedio == IF anterior = Nada THEN 0 ELSE Positivo(Tarifa(impuesto + anterior, 3750) - retenido)
      cuenta == (36 :> {11}) @@ (37 :> {12}) @@ (38 :> {13}) @@ (39 :> {14}) @@ (40 :> {16}) @@ (42 :> {15})
                @@ (43 :> {17, 18, 19}) @@ (62 :> {6}) @@ (63 :> {51}) @@ (64 :> {52}) @@ (65 :> {53})
  IN [k \in DOMAIN cuenta |-> Cifra(deb(cuenta[k]))]
     @@ (45 :> Cifra(IF conciliada = <<>> THEN sum_credits(en, 2) ELSE En(conciliada[1].valores, 249)))
     @@ (47 :> Cifra(sum_credits(en, 41))) @@ (57 :> Cifra(sum_credits(en, 42)))
     @@ (66 :> Cifra(Positivo(deb({5}) - deb({51, 52, 53}))))
     @@ (74 :> [valor |-> perdidas, revisar |-> perdidas > 0])
     @@ (84 :> PorRevisar(impuesto)) @@ (106 :> Cifra(sum_retenciones_anio(L, anio)))
     @@ (108 :> PorRevisar(Max({anticipo, promedio})))

----------------------------------------------------------------------------
(* ICA and the reports of the tax API *)

(* The customers' ReteICA is looked for on the account of the own one. *)
build_ica(L, s, ini, fin) ==
  LET en == get_daily_journal(L, ini, fin)
      ica == Tarifa(sum_credits(en, 4), s.ica)
  IN (1 :> Cifra(sum_credits(en, 4))) @@ (4 :> Cifra(ica)) @@ (5 :> Cifra(Tarifa(ica, 1500)))
     @@ (8 :> Cifra(exact_debit(en, 2368)))

(* What the ICA screen shows. *)
get_ica_declaration(L, s, ini, fin) ==
  Tarifa(Creditos({l \in get_daily_journal(L, ini, fin) : Clase(l.cuenta) = 4}), s.ica)

----------------------------------------------------------------------------
(* The life of a draft *)

UVT_CONCILIACION == 45000
BajoElUmbral(L, T, anio) ==
  LET uvt == get_uvt(T.uvt, anio)
  IN uvt # {} /\ sum_credits(get_daily_journal(L, 12 * anio - 23, 12 * anio - 12), 4)
                   < (CHOOSE v \in uvt : TRUE) * UVT_CONCILIACION
(* An income tax return waits for its reconciliation, unless last year's
   revenue was small. *)
PuedeGenerar(L, T, drafts, forma, anio) ==
  forma = "F110" => \/ BajoElUmbral(L, T, anio)
                    \/ UltimoF2516(drafts, anio) # <<>> /\ UltimoF2516(drafts, anio)[1].status \in {"reviewed", "filed"}

builder(L, T, s, drafts, nominas, forma, ini, fin) ==
  CASE forma = "F300"  -> build_f300(L, s, ini, fin)
    [] forma = "F350"  -> build_f350(L, T, nominas, ini, fin)
    [] forma = "F110"  -> build_f110(L, T, s, drafts, ANIO(fin), ini, fin)
    [] forma = "ICA"   -> build_ica(L, s, ini, fin)
    [] forma = "F2516" -> build_f2516(L, T, ANIO(fin), ini, fin)
generate_declaration_draft(L, T, s, drafts, nominas, forma, ini, fin) ==
  LET d == build_draft_from_catalog(get_catalog(forma), builder(L, T, s, drafts, nominas, forma, ini, fin))
  IN [forma |-> forma, anio |-> ANIO(fin), status |-> "draft", valores |-> d.valores, revisar |-> d.revisar]

(* The casilla is set; the subtotals that follow from it are not. *)
update_draft_field(d, cas, valor) ==
  [d EXCEPT !.revisar = @ \ {cas},
            !.valores = [c \in (DOMAIN @ \ {cas}) \cup (IF valor = 0 THEN {} ELSE {cas}) |->
                           IF c = cas THEN valor ELSE @[c]]]
=============================================================================
