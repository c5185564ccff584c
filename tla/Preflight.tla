------------------------------- MODULE Preflight -------------------------------
(***************************************************************************)
(* What the screen says before a return is generated.  A check is known by *)
(* its code; of a run only the failed ones are kept, those that block,     *)
(* those that warn and those that inform.  Messages and links are left out.*)
(***************************************************************************)
EXTENDS Declarations

UVT_PERIODICIDAD == 92000

gross_income_for_year(L, anio) == sum_credits(get_daily_journal(L, 12 * anio - 11, 12 * anio), 4)

settings_complete(s) == s.ciudad # "" /\ s.seccion # ""
(* Documents of the period whose processing waits for a person. *)
count_pending_hitl(enRevision, ini, fin) == Cardinality({d \in enRevision : d.fecha >= ini /\ d.fecha <= fin})

(* Only for a company that withholds ICA. *)
check_reteica_tarifa(T, s) == s.reteica > 0 => get_reteica_tarifa(T.reteicas, s.ciudad, s.seccion) # {}
check_base_minima_available(T, anio) == DOMAIN list_tax_constants(T.uvt, T.minimas, anio, Hoy).base_minima # {}
(* Every two months for who sold much the year before, every four for others. *)
check_iva_periodicidad(L, T, ini, fin) ==
  LET anio == ANIO(fin) - 1
  IN \A uvt \in get_uvt(T.uvt, anio) :
       fin - ini + 1 = IF gross_income_for_year(L, anio) >= uvt * UVT_PERIODICIDAD THEN 2 ELSE 4

(* Mutant: the threshold is applied to the revenue of the year itself. *)
check_f2516_reviewed_SameYear(L, T, drafts, anio) ==
  \E uvt \in get_uvt(T.uvt, anio) :
    gross_income_for_year(L, anio) < uvt * UVT_CONCILIACION \/ get_latest_f2516_reviewed(drafts, anio) # <<>>

(* Unlike the generation, it does not accept a filed reconciliation, and does
   not mind a newer one that is still a draft. *)
check_f2516_reviewed(L, T, drafts, anio) ==
  \E uvt \in get_uvt(T.uvt, anio) :
    gross_income_for_year(L, anio - 1) < uvt * UVT_CONCILIACION \/ get_latest_f2516_reviewed(drafts, anio) # <<>>

Faltan(reglas) == {c \in DOMAIN reglas : ~reglas[c]}
base_checks(L, T, s, anio, ini, fin) ==
  [COMPANY_SETTINGS_COMPLETE |-> \E r \in s : settings_complete(r),
   LEDGER_NOT_EMPTY |-> get_daily_journal(L, ini, fin) # {},
   UVT_YEAR_AVAILABLE |-> get_uvt(T.uvt, anio) # {}]
form_checks(L, T, r, drafts, forma, anio) ==
  CASE forma = "F300" -> [IVA_RESPONSABLE |-> r.responsable, TASA_IVA_GENERAL |-> r.iva > 0,
                          RETEICA_TARIFA_AVAILABLE |-> check_reteica_tarifa(T, r)]
    [] forma = "F350" -> [BASE_MINIMA_AVAILABLE |-> check_base_minima_available(T, anio)]
    [] forma = "F110" -> [F2516_REVIEWED |-> check_f2516_reviewed(L, T, drafts, anio),
                          TARIFAS_RENTA_AVAILABLE |-> get_tarifa_renta(T.tarifas, r.regimen, r.actividad, anio) # {}]
    [] forma = "ICA"  -> [RETEICA_TARIFA_AVAILABLE |-> check_reteica_tarifa(T, r)]
    [] OTHER          -> [c \in {} |-> TRUE]

run_preflight(L, T, nit, drafts, enRevision, forma, ini, fin) ==
  LET s == get_company_settings(T.settings, nit)
      anio == ANIO(fin)
  IN [blockers |-> Faltan(base_checks(L, T, s, anio, ini, fin))
                     \cup UNION {Faltan(form_checks(L, T, r, drafts, forma, anio)) : r \in s},
      warnings |-> Faltan([PERIOD_NOT_FUTURE |-> fin <= Hoy,
                           NO_PENDING_HITL |-> count_pending_hitl(enRevision, ini, fin) = 0,
                           IVA_PERIODICIDAD_VALID |-> (s # {} /\ forma = "F300") =>
                                                        check_iva_periodicidad(L, T, ini, fin)]),
      infos |-> Faltan([RETENCIONES_ANIO_ANTERIOR |-> (s # {} /\ forma = "F110") =>
                                                        sum_retenciones_anio(L, anio - 1) > 0])]
ready(resultado) == resultado.blockers = {}
=============================================================================
