------------------------------ MODULE TaxTables ------------------------------
(***************************************************************************)
(* The tax tables of one company as db_service reads and writes them:      *)
(* settings, ReteICA tariffs, UVT and minimum bases, national rates and    *)
(* the company's overrides, special taxes with their accumulators, fiscal  *)
(* losses, income tax tariffs, withholding concepts and fiscal             *)
(* adjustments.                                                            *)
(*                                                                         *)
(* A table is a set of rows (records).  Rates are per ten thousand,        *)
(* minimum bases in UVT, dates are months counted from January of year 1,  *)
(* and Nada stands for a NULL column and for a row that is not there.      *)
(***************************************************************************)
EXTENDS Integers, FiniteSets, FiniteSetsExt

Nada == -1
ANIO(mes) == ((mes - 1) \div 12) + 1

(* The row of the key fields K that r carries is replaced or inserted. *)
Guardar(T, r, K) == {q \in T : \E k \in K : q[k] # r[k]} \cup {r}
LaFila(T, P(_)) == {q \in T : P(q)}
Vigente(r, dia) == (r.desde = Nada \/ r.desde <= dia) /\ (r.hasta = Nada \/ r.hasta >= dia)

----------------------------------------------------------------------------
(* Company settings *)

get_company_settings(T, nit) == {r \in T : r.nit = nit}
get_company_locked_pathway(T, nit) == {r.locked_pathway : r \in get_company_settings(T, nit)} \ {Nada}
get_cuenta_ica_propio(T, nit) ==
  LET suya == {r.cuenta_ica_propio : r \in get_company_settings(T, nit)} \ {Nada}
  IN IF suya = {} THEN 2368 ELSE CHOOSE c \in suya : TRUE
(* Only the columns of the request are written: the pathway lock stays. *)
upsert_company_settings(T, r) ==
  LET viejo == get_company_locked_pathway(T, r.nit)
  IN Guardar(T, [r EXCEPT !.locked_pathway = IF viejo = {} THEN @ ELSE CHOOSE v \in viejo : TRUE], {"nit"})
delete_company(T, nit) == {r \in T : r.nit # nit}

----------------------------------------------------------------------------
(* ReteICA tariffs: the city and section, the city, the country *)

Niveles(T, ciudad, seccion) ==
  <<{r \in T : seccion # "general" /\ r.municipio = ciudad /\ r.seccion = seccion},
    {r \in T : r.municipio = ciudad /\ r.seccion = "general"},
    {r \in T : r.municipio = "general" /\ r.seccion = "general"}>>
PrimerNivel(N, P(_)) ==
  LET sirven == {i \in DOMAIN N : \E r \in N[i] : P(r)}
  IN IF sirven = {} THEN {} ELSE {r \in N[Min(sirven)] : P(r)}

get_reteica_tarifa(T, ciudad, seccion) ==
  {r.tasa : r \in PrimerNivel(Niveles(T, ciudad, seccion), LAMBDA r : TRUE)}
(* A row without the column does not answer: the next level is asked. *)
get_reteica_base_minima_uvt(T, ciudad, seccion) ==
  {r.base_minima_uvt : r \in PrimerNivel(Niveles(T, ciudad, seccion),
                                         LAMBDA r : r.base_minima_uvt # Nada)}
upsert_reteica_tarifa(T, r) == Guardar(T, r, {"municipio", "seccion"})
delete_reteica_tarifa(T, r) == T \ {r}

----------------------------------------------------------------------------
(* UVT and minimum bases *)

get_uvt(T, anio) == {r.valor : r \in {q \in T : q.year = anio}}
upsert_uvt(T, r) == Guardar(T, r, {"year"})
(* Without a day any row of the year may be the first; with one, only rows
   whose window has a beginning. *)
get_base_minima(T, concepto, anio, dia) ==
  {r.uvt_units : r \in {q \in T : /\ q.concepto = concepto
                                  /\ q.year = anio
                                  /\ dia # Nada => /\ q.desde # Nada
                                                   /\ Vigente(q, dia)}}
(* The first row of the year gets the new value and keeps its window. *)
upsert_base_minima(T, concepto, uvt_units, anio) ==
  LET filas == {q \in T : q.concepto = concepto /\ q.year = anio}
      nueva == [concepto |-> concepto, uvt_units |-> uvt_units, year |-> anio, desde |-> Nada, hasta |-> Nada]
  IN IF filas = {} THEN {T \cup {nueva}}
                   ELSE {(T \ {q}) \cup {[q EXCEPT !.uvt_units = uvt_units]} : q \in filas}
(* What the settings page shows: one row per concept, the latest in force on
   the day, which is today in the current year and December in the others. *)
list_tax_constants(uvt, minimas, anio, hoy) ==
  LET dia == IF ANIO(hoy) = anio THEN hoy ELSE 12 * anio
      suyas == {q \in minimas : q.year = anio /\ Vigente(q, dia)}
  IN [uvt |-> get_uvt(uvt, anio),
      base_minima |-> [c \in {q.concepto : q \in suyas} |->
                         {q.uvt_units : q \in {x \in suyas : /\ x.concepto = c
                             /\ \A y \in suyas : y.concepto = c => y.desde <= x.desde}}]]

----------------------------------------------------------------------------
(* National rates and the company's overrides *)

upsert_national_rate(T, r) == Guardar(T, r, {"code"})
upsert_company_rate_override(T, r) == Guardar(T, r, {"code"})
(* Without a day only a rate with no end counts. *)
get_effective_rate(overrides, nacionales, code, dia) ==
  LET rige(r) == r.code = code /\ IF dia = Nada THEN r.hasta = Nada ELSE Vigente(r, dia)
      suya == LaFila(overrides, rige)
  IN {r.valor : r \in IF suya # {} THEN suya ELSE LaFila(nacionales, rige)}

----------------------------------------------------------------------------
(* Special taxes and their accumulators *)

create_special_tax(T, r) == T \cup {r}
update_special_tax(T, r) == {IF q.code = r.code THEN r ELSE q : q \in T}
delete_special_tax(T, code) == {IF r.code = code THEN [r EXCEPT !.activo = FALSE] ELSE r : r \in T}
list_active_special_taxes(T, doc_type, dia) ==
  {r \in T : /\ r.activo
             /\ r.desde = Nada \/ r.desde <= dia
             /\ r.hasta = Nada \/ r.hasta > dia
             /\ r.tipos = {} \/ doc_type \in r.tipos}
get_or_create_accumulator(T, code, mes) ==
  IF \E r \in T : r.code = code /\ r.mes = mes THEN T
  ELSE T \cup {[code |-> code, mes |-> mes, base |-> 0, impuesto |-> 0, liquidado |-> FALSE]}
(* A liquidated month keeps growing. *)
add_to_accumulator(T, code, mes, base, impuesto) ==
  {IF r.code = code /\ r.mes = mes THEN [r EXCEPT !.base = @ + base, !.impuesto = @ + impuesto] ELSE r
     : r \in get_or_create_accumulator(T, code, mes)}
liquidate_accumulator(T, code, mes) ==
  {IF r.code = code /\ r.mes = mes THEN [r EXCEPT !.liquidado = TRUE] ELSE r : r \in T}

----------------------------------------------------------------------------
(* Fiscal losses and the income tax tariff *)

get_perdidas_disponibles(T, anio) == {r \in T : r.year < anio /\ r.pendiente > 0}
sum_perdidas_disponibles(T, anio) ==
  MapThenSumSet(LAMBDA r : r.pendiente, get_perdidas_disponibles(T, anio))
(* What was already compensated is kept, so a smaller loss may be left with a
   negative balance. *)
upsert_perdida(T, anio, monto) ==
  LET vieja == {r \in T : r.year = anio}
      comp == IF vieja = {} THEN 0 ELSE (CHOOSE r \in vieja : TRUE).compensado
  IN Guardar(T, [year |-> anio, perdida |-> monto, compensado |-> comp, pendiente |-> monto - comp], {"year"})

(* The latest row of the regime and the activity, else of the regime alone. *)
get_tarifa_renta(T, regimen, actividad, anio) ==
  LET rigen(a) == {r \in T : r.regimen = regimen /\ r.actividad = a
                             /\ r.year_from <= anio /\ (r.year_to = Nada \/ r.year_to >= anio)}
      filas == IF rigen(actividad) # {} THEN rigen(actividad) ELSE rigen("")
  IN {r.tarifa_base + r.sobretasa : r \in {q \in filas : \A x \in filas : x.year_from <= q.year_from}}
upsert_tarifa_renta(T, r) == Guardar(T, r, {"regimen", "actividad", "year_from"})

----------------------------------------------------------------------------
(* Withholding concepts and fiscal adjustments *)

list_tax_concepts(T) == {r \in T : r.activo}
upsert_tax_concept(T, r) == Guardar(T, r, {"code"})
soft_delete_tax_concept(T, code) == {IF r.code = code THEN [r EXCEPT !.activo = FALSE] ELSE r : r \in T}

list_ajustes_fiscales(T, anio, seccion) == {r \in T : r.year = anio /\ r.seccion = seccion}
upsert_ajuste_fiscal(T, r) == Guardar(T, r, {"year", "seccion", "concepto"})
delete_ajuste_fiscal(T, r) == T \ {r}
=============================================================================
