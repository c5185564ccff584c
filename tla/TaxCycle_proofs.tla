--------------------------- MODULE TaxCycle_proofs ---------------------------
(***************************************************************************)
(* Proofs about the tax cycle, for any tables, documents, proposals, forms    *)
(* and bounds: which declarations change after their review; that the screen  *)
(* before the generation tells the truth; and that the entries balance, with  *)
(* their taxes and without.                                                   *)
(***************************************************************************)
EXTENDS TaxCycle, Ledger_proofs, SequenceTheorems, TLAPS

EstadosBorrador == {"draft", "reviewed", "filed"}
EsBorrador(d) ==
  /\ d = [forma |-> d.forma, anio |-> d.anio, status |-> d.status, valores |-> d.valores, revisar |-> d.revisar]
  /\ d.status \in EstadosBorrador

(* The drafts are a list; a field update under way read one of them as a draft
   with its casilla pending. *)
EsLista(s) == \E S : s \in Seq(S)
Borradores == EsLista(drafts) /\ \A i \in DOMAIN drafts : EsBorrador(drafts[i])
Ediciones ==
  \A e \in ediciones : /\ e.i \in DOMAIN drafts
                       /\ e.leido.status = "draft" /\ e.cas \in e.leido.revisar
(* One UVT per year, whatever was entered. *)
UnaUvt == "uvt" \in DOMAIN t /\ \A q, r \in t.uvt : q.year = r.year => q = r

TaxInv == Borradores /\ Ediciones /\ UnaUvt

(* A new draft goes to the end. *)
LEMMA AppendBorrador ==
  ASSUME Borradores, NEW d, EsBorrador(d), drafts' = Append(drafts, d)
  PROVE  /\ Borradores'
         /\ DOMAIN drafts \subseteq DOMAIN drafts'
         /\ \A i \in DOMAIN drafts : drafts'[i] = drafts[i]
<1>1. PICK S : drafts \in Seq(S)
  BY DEF Borradores, EsLista
<1> DEFINE U == S \cup {d}
<1>2. DOMAIN drafts = 1..Len(drafts) /\ Len(drafts) \in Nat
  BY <1>1, LenProperties
<1>3. drafts \in Seq(U) /\ d \in U
  BY <1>1, SeqMonotonic
<1> HIDE DEF U
<1>4. /\ Append(drafts, d) \in Seq(U)
      /\ Len(Append(drafts, d)) = Len(drafts) + 1
      /\ \A i \in 1..Len(drafts) : Append(drafts, d)[i] = drafts[i]
      /\ Append(drafts, d)[Len(drafts) + 1] = d
  BY <1>3, AppendProperties
<1>5. DOMAIN drafts' = 1..(Len(drafts) + 1)
  BY <1>4, LenProperties
<1>6. \A i \in DOMAIN drafts' : EsBorrador(drafts'[i])
  <2> SUFFICES ASSUME NEW i \in 1..(Len(drafts) + 1)
               PROVE  EsBorrador(drafts'[i])
    BY <1>5
  <2>1. i \in 1..Len(drafts) \/ i = Len(drafts) + 1
    BY <1>2
  <2> QED BY <1>2, <1>4, <2>1 DEF Borradores
<1> QED BY <1>2, <1>4, <1>5, <1>6 DEF Borradores, EsLista

(* A draft is replaced by another. *)
LEMMA CambiaBorrador ==
  ASSUME Borradores, NEW i \in DOMAIN drafts, NEW d, EsBorrador(d), drafts' = [drafts EXCEPT ![i] = d]
  PROVE  /\ Borradores' /\ DOMAIN drafts' = DOMAIN drafts
         /\ drafts'[i] = d
         /\ \A j \in DOMAIN drafts : j # i => drafts'[j] = drafts[j]
<1>1. PICK S : drafts \in Seq(S)
  BY DEF Borradores, EsLista
<1> DEFINE U == S \cup {d}
<1>2. DOMAIN drafts = 1..Len(drafts)
  BY <1>1, LenProperties
<1>3. drafts \in Seq(U) /\ d \in U
  BY <1>1, SeqMonotonic
<1> HIDE DEF U
<1>4. drafts' \in Seq(U)
  BY <1>2, <1>3, ExceptSeq
<1> QED BY <1>4 DEF Borradores, EsLista

----------------------------------------------------------------------------
(***************************************************************************)
(* The declarations.                                                         *)
(***************************************************************************)

(* A draft that keeps its status, changed by an update or not at all. *)
LEMMA MismoEstado ==
  ASSUME Borradores, NEW i \in DOMAIN drafts, drafts'[i].status = drafts[i].status,
         \/ drafts'[i].valores = drafts[i].valores /\ drafts'[i].revisar = drafts[i].revisar
         \/ \E e \in ediciones : e.i = i /\ e.leido.status = "draft" /\ e.cas \in e.leido.revisar
  PROVE  Congelado(i)
BY DEF Congelado, Borradores, EsBorrador, EstadosBorrador

(* The steps that leave the declarations alone. *)
OtrosPasos ==
  \/ \E d \in Documentos : Start(d) \/ PostFromIngest(d)
  \/ Contador \/ Tributario \/ Approve \/ Reject \/ Confirm \/ Abandon \/ Persist
  \/ EditTables
  \/ UNCHANGED vars

LEMMA OtrosKeep ==
  ASSUME OtrosPasos
  PROVE  UNCHANGED <<drafts, ediciones>>
<1>1. ASSUME NEW d \in Documentos, Start(d) \/ PostFromIngest(d)
      PROVE  UNCHANGED <<drafts, ediciones>>
  BY <1>1 DEF Start, PostFromIngest
<1>2. CASE Contador \/ Approve \/ Reject \/ Confirm \/ Abandon
  BY <1>2 DEF Contador, Approve, Reject, Confirm, Abandon
<1>3. CASE Tributario
  BY <1>3 DEF Tributario
<1>4. CASE Persist
  BY <1>4 DEF Persist
<1>5. CASE EditTables
  BY <1>5 DEF EditTables
<1>6. CASE UNCHANGED vars
  BY <1>6 DEF vars
<1> QED BY <1>1, <1>2, <1>3, <1>4, <1>5, <1>6 DEF OtrosPasos

(* What happens to the declarations in a step. *)
DraftStep ==
  \/ \E p \in Periodos : Generate(p)
  \/ \E i \in DOMAIN drafts : \E c \in AlAlcance(drafts[i]), v \in Valores : ReadForUpdate(i, c, v)
  \/ \E e \in ediciones : WriteUpdate(e)
  \/ \E i \in DOMAIN drafts : Review(i) \/ File(i) \/ Reopen(i)

(* Action by action. *)
LEMMA GenerateStep ==
  ASSUME TaxInv, NEW p \in Periodos, Generate(p)
  PROVE  Borradores' /\ Ediciones' /\ \A i \in DOMAIN drafts : Congelado(i)
<1>1. PICK s \in get_company_settings(t.settings, Nit) :
        drafts' = Append(drafts, generate_declaration_draft(Lineas(libro), t, s, drafts, Nominas, p.forma, p.ini, p.fin))
  BY DEF Generate
<1> DEFINE d == generate_declaration_draft(Lineas(libro), t, s, drafts, Nominas, p.forma, p.ini, p.fin)
<1>2. EsBorrador(d)
  BY DEF generate_declaration_draft, EsBorrador, EstadosBorrador
<1>3. UNCHANGED ediciones /\ drafts' = Append(drafts, d)
  BY <1>1 DEF Generate
<1> HIDE DEF d
<1>4. /\ Borradores' /\ DOMAIN drafts \subseteq DOMAIN drafts'
      /\ \A i \in DOMAIN drafts : drafts'[i] = drafts[i]
  BY <1>2, <1>3, AppendBorrador DEF TaxInv
<1>5. Ediciones'
  BY <1>3, <1>4 DEF TaxInv, Ediciones
<1>6. \A i \in DOMAIN drafts : Congelado(i)
  BY <1>4, MismoEstado DEF TaxInv
<1> QED BY <1>4, <1>5, <1>6

LEMMA ReadStep ==
  ASSUME TaxInv, NEW i \in DOMAIN drafts, NEW c, NEW v, ReadForUpdate(i, c, v)
  PROVE  Borradores' /\ Ediciones' /\ \A j \in DOMAIN drafts : Congelado(j)
<1> DEFINE nueva == [i |-> i, cas |-> c, valor |-> v, leido |-> drafts[i]]
<1>1. UNCHANGED drafts /\ drafts[i].status = "draft" /\ c \in drafts[i].revisar
  BY DEF ReadForUpdate
<1>2. ediciones' = ediciones \cup {nueva}
  BY DEF ReadForUpdate
<1>3. nueva.i = i /\ nueva.cas = c /\ nueva.leido = drafts[i]
  OBVIOUS
<1> HIDE DEF nueva
<1>4. Ediciones'
  BY <1>1, <1>2, <1>3 DEF TaxInv, Ediciones
<1>5. Borradores' /\ \A j \in DOMAIN drafts : Congelado(j)
  BY <1>1, MismoEstado DEF TaxInv, Borradores
<1> QED BY <1>4, <1>5

LEMMA WriteStep ==
  ASSUME TaxInv, NEW e \in ediciones, WriteUpdate(e)
  PROVE  Borradores' /\ Ediciones' /\ \A j \in DOMAIN drafts : Congelado(j)
<1> DEFINE nuevo == update_draft_field(e.leido, e.cas, e.valor)
           d == [drafts[e.i] EXCEPT !.valores = nuevo.valores, !.revisar = nuevo.revisar]
<1>1. e.i \in DOMAIN drafts /\ e.leido.status = "draft" /\ e.cas \in e.leido.revisar
  BY DEF TaxInv, Ediciones
<1>2. ediciones' = ediciones \ {e}
  BY DEF WriteUpdate
<1>3. drafts' = [drafts EXCEPT ![e.i].valores = nuevo.valores, ![e.i].revisar = nuevo.revisar]
  BY DEF WriteUpdate
<1> HIDE DEF nuevo
<1>4. drafts' = [drafts EXCEPT ![e.i] = d]
  BY <1>1, <1>3
<1>5. EsBorrador(d) /\ d.status = drafts[e.i].status
  <2>1. EsBorrador(drafts[e.i])
    BY <1>1 DEF TaxInv, Borradores
  <2>2. PICK b : /\ b = drafts[e.i] /\ b.status \in EstadosBorrador
                 /\ b = [forma |-> b.forma, anio |-> b.anio, status |-> b.status,
                         valores |-> b.valores, revisar |-> b.revisar]
    BY <2>1 DEF EsBorrador
  <2>3. d = [b EXCEPT !.valores = nuevo.valores, !.revisar = nuevo.revisar]
    BY <2>2
  <2> HIDE DEF d
  <2>4. d = [forma |-> b.forma, anio |-> b.anio, status |-> b.status,
             valores |-> nuevo.valores, revisar |-> nuevo.revisar]
    BY <2>2, <2>3
  <2> QED BY <2>2, <2>4 DEF EsBorrador
<1> HIDE DEF d
<1>6. /\ Borradores' /\ DOMAIN drafts' = DOMAIN drafts /\ drafts'[e.i] = d
      /\ \A j \in DOMAIN drafts : j # e.i => drafts'[j] = drafts[j]
  BY <1>1, <1>4, <1>5, CambiaBorrador DEF TaxInv
<1>7. Ediciones'
  BY <1>2, <1>6 DEF TaxInv, Ediciones
<1>8. \A j \in DOMAIN drafts : Congelado(j)
  BY <1>1, <1>5, <1>6, MismoEstado DEF TaxInv
<1> QED BY <1>6, <1>7, <1>8

(* The status goes one step forward, with nothing pending, or one back. *)
LEMMA PasaStep ==
  ASSUME TaxInv, NEW i \in DOMAIN drafts, NEW de, NEW a, Pasa(i, de, a),
         <<de, a>> \in {<<"draft", "reviewed">>, <<"reviewed", "filed">>, <<"filed", "reviewed">>, <<"reviewed", "draft">>},
         de = "draft" => drafts[i].revisar = {}
  PROVE  Borradores' /\ Ediciones' /\ \A j \in DOMAIN drafts : Congelado(j)
<1> DEFINE d == [drafts[i] EXCEPT !.status = a]
<1>1. drafts[i].status = de /\ drafts' = [drafts EXCEPT ![i] = d] /\ UNCHANGED ediciones
  BY DEF Pasa
<1>2. EsBorrador(d) /\ d.status = a /\ d.valores = drafts[i].valores /\ d.revisar = drafts[i].revisar
  BY DEF TaxInv, Borradores, EsBorrador, EstadosBorrador
<1> HIDE DEF d
<1>3. /\ Borradores' /\ DOMAIN drafts' = DOMAIN drafts /\ drafts'[i] = d
      /\ \A j \in DOMAIN drafts : j # i => drafts'[j] = drafts[j]
  BY <1>1, <1>2, CambiaBorrador DEF TaxInv
<1>4. Ediciones'
  BY <1>1, <1>3 DEF TaxInv, Ediciones
<1>5. Congelado(i)
  BY <1>1, <1>2, <1>3 DEF Congelado
<1>6. \A j \in DOMAIN drafts : Congelado(j)
  BY <1>3, <1>5, MismoEstado DEF TaxInv
<1> QED BY <1>3, <1>4, <1>6

LEMMA DraftsStep ==
  ASSUME TaxInv, [Next]_vars
  PROVE  Borradores' /\ Ediciones' /\ \A j \in DOMAIN drafts : Congelado(j)
<1>1. CASE OtrosPasos
  <2>1. UNCHANGED <<drafts, ediciones>>
    BY <1>1, OtrosKeep
  <2> QED BY <2>1, MismoEstado DEF TaxInv, Borradores, Ediciones
<1>2. ASSUME NEW i \in DOMAIN drafts, Review(i) \/ File(i) \/ Reopen(i)
      PROVE  Borradores' /\ Ediciones' /\ \A j \in DOMAIN drafts : Congelado(j)
  <2>1. \/ drafts[i].revisar = {} /\ Pasa(i, "draft", "reviewed")
        \/ Pasa(i, "reviewed", "filed") \/ Pasa(i, "filed", "reviewed") \/ Pasa(i, "reviewed", "draft")
    BY <1>2 DEF Review, File, Reopen
  <2> QED BY <2>1, PasaStep
<1>3. CASE DraftStep
  BY <1>2, <1>3, GenerateStep, ReadStep, WriteStep DEF DraftStep
<1>4. Next => OtrosPasos \/ DraftStep
  BY DEF Next, OtrosPasos, DraftStep
<1> QED BY <1>1, <1>3, <1>4 DEF OtrosPasos

----------------------------------------------------------------------------
(***************************************************************************)
(* The UVT of a year.                                                        *)
(***************************************************************************)

(* A UVT replaces the one of its year. *)
LEMMA UvtTouched ==
  ASSUME UnaUvt, EditConstants
  PROVE  UnaUvt'
<1>1. ASSUME NEW r \in Altas.uvt, t' = [t EXCEPT !.uvt = upsert_uvt(@, r)]
      PROVE  UnaUvt'
  <2>1. t'.uvt = {q \in t.uvt : q.year # r.year} \cup {r} /\ DOMAIN t' = DOMAIN t
    BY <1>1 DEF UnaUvt, upsert_uvt, Guardar
  <2> QED BY <2>1 DEF UnaUvt
<1>2. ASSUME NEW M, t' = [t EXCEPT !.minimas = M]
      PROVE  UnaUvt'
  BY <1>2 DEF UnaUvt
<1> QED BY <1>1, <1>2 DEF EditConstants

(* The other tables may change as they like. *)
LEMMA UvtKept ==
  ASSUME UnaUvt,
         EditSettings \/ EditReteica \/ EditRates \/ EditSpecialTaxes \/ EditIncomeTax
           \/ EditConcepts \/ EditAdjustments
  PROVE  UnaUvt'
<1>1. CASE EditSettings
  BY <1>1 DEF EditSettings, UnaUvt
<1>2. CASE EditReteica
  BY <1>2 DEF EditReteica, UnaUvt
<1>3. CASE EditRates
  BY <1>3 DEF EditRates, UnaUvt
<1>4. CASE EditSpecialTaxes
  BY <1>4 DEF EditSpecialTaxes, UnaUvt
<1>5. CASE EditIncomeTax
  BY <1>5 DEF EditIncomeTax, UnaUvt
<1>6. CASE EditConcepts
  BY <1>6 DEF EditConcepts, UnaUvt
<1>7. CASE EditAdjustments
  BY <1>7 DEF EditAdjustments, UnaUvt
<1> QED BY <1>1, <1>2, <1>3, <1>4, <1>5, <1>6, <1>7

(* A settled year keeps its one value through every step. *)
LEMMA UvtStep ==
  ASSUME TaxInv, [Next]_vars
  PROVE  UnaUvt'
<1>0. UnaUvt
  BY DEF TaxInv
<1>1. ASSUME UNCHANGED t
      PROVE  UnaUvt'
  BY <1>0, <1>1 DEF UnaUvt
<1>2. CASE Tributario
  <2>1. PICK x : t' = [t EXCEPT !.acumuladores = x]
    BY <1>2 DEF Tributario
  <2> QED BY <1>0, <2>1 DEF UnaUvt
<1>3. CASE EditTables
  BY <1>0, <1>3, UvtTouched, UvtKept DEF EditTables
<1>4. ASSUME NEW d \in Documentos, Start(d) \/ PostFromIngest(d)
      PROVE  UNCHANGED t
  BY <1>4 DEF Start, PostFromIngest
<1>5. ASSUME Contador \/ Approve \/ Reject \/ Confirm \/ Abandon \/ UNCHANGED vars
      PROVE  UNCHANGED t
  BY <1>5 DEF Contador, Approve, Reject, Confirm, Abandon, vars
<1>6. ASSUME Persist
      PROVE  UNCHANGED t
  BY <1>6 DEF Persist
<1>7. ASSUME DraftStep
      PROVE  UNCHANGED t
  BY <1>7 DEF DraftStep, Generate, ReadForUpdate, WriteUpdate, Review, File, Reopen, Pasa
<1>8. CASE Next
  <2>1. \/ \E d \in Documentos : Start(d) \/ PostFromIngest(d)
        \/ Contador \/ Tributario \/ Approve \/ Reject \/ Confirm \/ Abandon \/ Persist
        \/ EditTables \/ DraftStep
    BY <1>8 DEF Next, DraftStep
  <2> QED BY <1>1, <1>2, <1>3, <1>4, <1>5, <1>6, <1>7, <2>1
<1> QED BY <1>1, <1>5, <1>8

LEMMA InitTax == Init => TaxInv
<1> SUFFICES ASSUME Init
             PROVE  TaxInv
  OBVIOUS
<1>1. drafts = <<>> /\ ediciones = {} /\ t = TablasIniciales
  BY DEF Init
<1>2. drafts \in Seq({}) /\ DOMAIN drafts = {}
  BY <1>1, EmptySeq
<1> QED BY <1>1, <1>2, TablasAssumption DEF TaxInv, Borradores, EsLista, Ediciones, UnaUvt

LEMMA TaxStep == TaxInv /\ [Next]_vars => TaxInv'
BY DraftsStep, UvtStep DEF TaxInv

(* The drafts, the field updates under way and the yearly UVT are what the
   generation and the screen take them for. *)
THEOREM TaxInvariant == Spec => []TaxInv
BY InitTax, TaxStep, PTL DEF Spec

(* What was reviewed is what is filed, for any number of drafts and of field
   updates side by side. *)
THEOREM DraftsAreFrozen == Spec => DraftsFrozen
<1>1. TaxInv /\ [Next]_vars => [\A i \in DOMAIN drafts : Congelado(i)]_vars
  BY DraftsStep
<1> QED BY <1>1, TaxInvariant, PTL DEF Spec, DraftsFrozen

----------------------------------------------------------------------------
(***************************************************************************)
(* The screen before the generation.                                         *)
(***************************************************************************)

(* The last of some drafts. *)
LEMMA MaxDeIndices ==
  ASSUME EsLista(drafts), NEW I, I \subseteq DOMAIN drafts, I # {}
  PROVE  Max(I) \in I
<1>1. PICK n \in Nat : DOMAIN drafts = 1..n
  BY LenProperties DEF EsLista
<1>2. I \subseteq Nat /\ \A x \in I : x <= n
  BY <1>1
<1>3. \E x \in I : \A y \in I : y <= x
  BY <1>2, Maximo
<1>4. \E x \in I : \A y \in I : x >= y
  BY <1>2, <1>3
<1> QED BY <1>4 DEF Max

(* With a reviewed reconciliation of the year there is a latest one. *)
LEMMA HayConciliacion ==
  ASSUME Borradores, NEW anio, get_latest_f2516_reviewed(drafts, anio) # <<>>
  PROVE  /\ UltimoF2516(drafts, anio) # <<>>
         /\ UltimoF2516(drafts, anio)[1].status \in EstadosBorrador
<1> DEFINE I == {k \in DOMAIN drafts : drafts[k].forma = "F2516" /\ drafts[k].anio = anio}
<1>1. I # {}
  BY DEF get_latest_f2516_reviewed, Ultimo
<1>2. UltimoF2516(drafts, anio) = <<drafts[Max(I)]>>
  BY <1>1 DEF UltimoF2516, Ultimo
<1>3. Max(I) \in I
  <2>1. I \subseteq DOMAIN drafts
    OBVIOUS
  <2> HIDE DEF I
  <2> QED BY <1>1, <2>1, MaxDeIndices DEF Borradores
<1>4. drafts[Max(I)].status \in EstadosBorrador
  BY <1>3 DEF Borradores, EsBorrador
<1> HIDE DEF I
<1> QED BY <1>2, <1>4

(* Months of the year before, counted both ways. *)
LEMMA AnioAnterior ==
  ASSUME NEW L, NEW anio \in Int
  PROVE  gross_income_for_year(L, anio - 1) =
           sum_credits(get_daily_journal(L, 12 * anio - 23, 12 * anio - 12), 4)
<1>1. 12 * (anio - 1) - 11 = 12 * anio - 23 /\ 12 * (anio - 1) = 12 * anio - 12
  OBVIOUS
<1> QED BY <1>1 DEF gross_income_for_year

(* A screen with no blocker has found settings, and for the income tax a small
   revenue or a reviewed reconciliation. *)
LEMMA SinBloqueos ==
  ASSUME NEW L, NEW T, NEW nit, NEW ds, NEW rev, NEW ini, NEW fin,
         ready(run_preflight(L, T, nit, ds, rev, "F110", ini, fin))
  PROVE  check_f2516_reviewed(L, T, ds, ANIO(fin))
<1> DEFINE s == get_company_settings(T.settings, nit)
           base == base_checks(L, T, s, ANIO(fin), ini, fin)
<1>1. /\ Faltan(base) = {}
      /\ \A r \in s : Faltan(form_checks(L, T, r, ds, "F110", ANIO(fin))) = {}
  BY DEF ready, run_preflight
<1>2. s # {}
  <2>1. "COMPANY_SETTINGS_COMPLETE" \in DOMAIN base
    BY DEF base_checks
  <2>2. base.COMPANY_SETTINGS_COMPLETE
    BY <1>1, <2>1 DEF Faltan
  <2>3. base.COMPANY_SETTINGS_COMPLETE = \E r \in s : settings_complete(r)
    BY DEF base_checks
  <2> QED BY <2>2, <2>3
<1>3. PICK r \in s : TRUE
  BY <1>2
<1> DEFINE reglas == form_checks(L, T, r, ds, "F110", ANIO(fin))
<1>4. reglas = [F2516_REVIEWED |-> check_f2516_reviewed(L, T, ds, ANIO(fin)),
                TARIFAS_RENTA_AVAILABLE |-> get_tarifa_renta(T.tarifas, r.regimen, r.actividad, ANIO(fin)) # {}]
  BY DEF form_checks
<1>5. Faltan(reglas) = {}
  BY <1>1, <1>3
<1> HIDE DEF reglas
<1>6. "F2516_REVIEWED" \in DOMAIN reglas /\ reglas.F2516_REVIEWED = check_f2516_reviewed(L, T, ds, ANIO(fin))
  BY <1>4
<1>7. reglas.F2516_REVIEWED
  BY <1>5, <1>6 DEF Faltan
<1> QED BY <1>6, <1>7

(* A return the screen calls ready is not refused, but for a reconciliation
   begun anew over a reviewed one: the two look at the same threshold through
   the one UVT of the year. *)
THEOREM PreflightTellsTheTruth == Spec => []PreflightIsHonest
<1>1. TaxInv => PreflightIsHonest
  <2> SUFFICES ASSUME TaxInv, NEW p \in Periodos,
                      ~PuedeGenerar(Lineas(libro), t, drafts, p.forma, ANIO(p.fin)),
                      ready(run_preflight(Lineas(libro), t, Nit, drafts, EnRevision, p.forma, p.ini, p.fin))
               PROVE  /\ get_latest_f2516_reviewed(drafts, ANIO(p.fin)) # <<>>
                      /\ UltimoF2516(drafts, ANIO(p.fin))[1].status = "draft"
    BY DEF PreflightIsHonest
  <2> DEFINE anio == ANIO(p.fin)
             ingresos == sum_credits(get_daily_journal(Lineas(libro), 12 * anio - 23, 12 * anio - 12), 4)
  <2>1. anio \in Int
    BY PeriodosAssumption DEF ANIO
  <2>2. /\ p.forma = "F110" /\ ~BajoElUmbral(Lineas(libro), t, anio)
        /\ ~(UltimoF2516(drafts, anio) # <<>> /\ UltimoF2516(drafts, anio)[1].status \in {"reviewed", "filed"})
    BY DEF PuedeGenerar
  <2>3. check_f2516_reviewed(Lineas(libro), t, drafts, anio)
    BY <2>2, SinBloqueos
  <2> HIDE DEF anio
  <2>4. gross_income_for_year(Lineas(libro), anio - 1) = ingresos
    BY <2>1, AnioAnterior
  <2>5. \A u, v \in get_uvt(t.uvt, anio) : u = v
    BY DEF TaxInv, UnaUvt, get_uvt
  <2> HIDE DEF ingresos
  <2>6. ASSUME NEW u \in get_uvt(t.uvt, anio), ingresos < u * UVT_CONCILIACION
        PROVE  FALSE
    <3>1. (CHOOSE v \in get_uvt(t.uvt, anio) : TRUE) = u
      BY <2>5
    <3> QED BY <2>2, <2>6, <3>1 DEF BajoElUmbral, ingresos
  <2>7. get_latest_f2516_reviewed(drafts, anio) # <<>>
    BY <2>3, <2>4, <2>6 DEF check_f2516_reviewed
  <2>8. UltimoF2516(drafts, anio) # <<>> /\ UltimoF2516(drafts, anio)[1].status \in EstadosBorrador
    BY <2>7, HayConciliacion DEF TaxInv
  <2> QED BY <2>2, <2>7, <2>8 DEF EstadosBorrador, anio
<1> QED BY <1>1, TaxInvariant, PTL

----------------------------------------------------------------------------
(***************************************************************************)
(* Lines in sequence: the sums over them.                                   *)
(***************************************************************************)

(* The same figures under other names. *)
LEMMA SumaReindexada ==
  ASSUME NEW F, NEW S, IsFiniteSet(S), NEW G, NEW K, IsFiniteSet(K), NEW p,
         \A x \in S : F[x] \in Int /\ p[x] \in K /\ F[x] = G[p[x]],
         \A x \in S, y \in S : p[x] = p[y] => x = y,
         \A k \in K : \E x \in S : p[x] = k
  PROVE  SumFunctionOnSet(G, K) = SumFunctionOnSet(F, S)
<1>1. ASSUME NEW k \in K
      PROVE  G[k] = SumFunctionOnSet(F, DeParte(S, p, k))
  <2>1. PICK x \in S : p[x] = k
    OBVIOUS
  <2>2. DeParte(S, p, k) = {} \cup {x}
    BY <2>1 DEF DeParte
  <2>3. SumFunctionOnSet(F, {} \cup {x}) = F[x] + SumFunctionOnSet(F, {})
    <3>1. \A y \in {} \cup {x} : F[y] \in Int
      OBVIOUS
    <3>2. IsFiniteSet({}) /\ x \notin {}
      BY FS_EmptySet
    <3> QED BY <3>1, <3>2, SumaMas
  <2>4. SumFunctionOnSet(F, {}) = 0 /\ F[x] = G[k] /\ F[x] \in Int
    BY <2>1, SumaVacia
  <2> QED BY <2>2, <2>3, <2>4
<1> QED BY <1>1, SumaPorPartes

(* One line. *)
EsLinea(a) ==
  a = [cuenta |-> a.cuenta, mov |-> a.mov, valor |-> a.valor, texto |-> a.texto] /\ a.valor \in Int

(* Sequences, by their domain. *)
LEMMA SeqEs ==
  ASSUME NEW s, s \in Seq(Range(s))
  PROVE  /\ Len(s) \in Nat /\ DOMAIN s = 1..Len(s) /\ IsFiniteSet(DOMAIN s)
         /\ s = [i \in 1..Len(s) |-> s[i]]
<1>1. Len(s) \in Nat /\ DOMAIN s = 1..Len(s) /\ s \in [1..Len(s) -> Range(s)]
  BY LenProperties
<1>2. IsFiniteSet(1..Len(s))
  BY <1>1, FS_Interval
<1>3. s = [i \in 1..Len(s) |-> s[i]]
  BY <1>1
<1> QED BY <1>1, <1>2, <1>3

(* What is a function on 1..n is a sequence. *)
LEMMA EsSeq ==
  ASSUME NEW n \in Nat, NEW s, s = [i \in 1..n |-> s[i]]
  PROVE  s \in Seq(Range(s)) /\ DOMAIN s = 1..n /\ Len(s) = n
<1>1. DOMAIN s = 1..n
  OBVIOUS
<1>2. s \in [1..n -> Range(s)]
  BY <1>1 DEF Range
<1>3. s \in Seq(Range(s))
  BY <1>2, SeqDef
<1>4. Len(s) \in Nat /\ DOMAIN s = 1..Len(s)
  BY <1>3, LenProperties
<1> QED BY <1>1, <1>3, <1>4

(* An entry, line by line. *)
LEMMA AsientoEs ==
  ASSUME NEW s
  PROVE  EsAsiento(s) <=> s \in Seq(Range(s)) /\ \A i \in DOMAIN s : EsLinea(s[i])
BY DEF EsAsiento, EsLinea

(* One sequence after another. *)
LEMMA SeqJuntas ==
  ASSUME NEW s, s \in Seq(Range(s)), NEW u, u \in Seq(Range(u))
  PROVE  /\ s \o u \in Seq(Range(s \o u))
         /\ Len(s \o u) = Len(s) + Len(u) /\ DOMAIN (s \o u) = 1..(Len(s) + Len(u))
         /\ \A i \in 1..Len(s) : (s \o u)[i] = s[i]
         /\ \A i \in 1..Len(u) : (s \o u)[Len(s) + i] = u[i]
<1> DEFINE U == Range(s) \cup Range(u)
           r == s \o u
<1>1. s \in Seq(U) /\ u \in Seq(U)
  BY SeqMonotonic
<1>2. Len(s) \in Nat /\ Len(u) \in Nat
  BY SeqEs
<1> HIDE DEF U
<1>3. /\ r \in Seq(U) /\ Len(r) = Len(s) + Len(u)
      /\ \A i \in 1..(Len(s) + Len(u)) : r[i] = IF i <= Len(s) THEN s[i] ELSE u[i - Len(s)]
  BY <1>1, ConcatProperties
<1>4. DOMAIN r = 1..Len(r) /\ r \in [1..Len(r) -> U] /\ Len(r) \in Nat
  BY <1>3, LenProperties
<1>5. r \in Seq(Range(r))
  <2>1. r = [i \in 1..Len(r) |-> r[i]]
    BY <1>4
  <2> HIDE DEF r
  <2> QED BY <2>1, <1>4, EsSeq
<1>6. \A i \in 1..Len(s) : r[i] = s[i]
  BY <1>2, <1>3
<1>7. ASSUME NEW i \in 1..Len(u)
      PROVE  r[Len(s) + i] = u[i]
  <2>1. Len(s) + i \in 1..(Len(s) + Len(u)) /\ ~(Len(s) + i <= Len(s)) /\ (Len(s) + i) - Len(s) = i
    BY <1>2
  <2> QED BY <1>3, <2>1
<1> QED BY <1>3, <1>4, <1>5, <1>6, <1>7

(* Lines after lines are lines. *)
LEMMA AsientosJuntos ==
  ASSUME NEW s, EsAsiento(s), NEW u, EsAsiento(u)
  PROVE  EsAsiento(s \o u)
<1>1. s \in Seq(Range(s)) /\ u \in Seq(Range(u)) /\ (\A i \in DOMAIN s : EsLinea(s[i])) /\ (\A i \in DOMAIN u : EsLinea(u[i]))
  BY AsientoEs
<1>2. Len(s) \in Nat /\ DOMAIN s = 1..Len(s) /\ Len(u) \in Nat /\ DOMAIN u = 1..Len(u)
  BY <1>1, SeqEs
<1> DEFINE r == s \o u
<1>3. /\ r \in Seq(Range(r)) /\ DOMAIN r = 1..(Len(s) + Len(u))
      /\ \A i \in 1..Len(s) : r[i] = s[i]
      /\ \A i \in 1..Len(u) : r[Len(s) + i] = u[i]
  BY <1>1, SeqJuntas
<1> HIDE DEF r
<1>4. ASSUME NEW i \in DOMAIN r
      PROVE  EsLinea(r[i])
  <2>1. CASE i <= Len(s)
    BY <1>1, <1>2, <1>3, <2>1
  <2>2. CASE ~(i <= Len(s))
    <3>1. i - Len(s) \in 1..Len(u) /\ Len(s) + (i - Len(s)) = i
      BY <1>2, <1>3, <2>2
    <3> QED BY <1>1, <1>2, <1>3, <3>1
  <2> QED BY <2>1, <2>2
<1>5. EsAsiento(r)
  BY <1>3, <1>4, AsientoEs
<1> QED BY <1>5 DEF r

----------------------------------------------------------------------------
(* What a line adds to the debits, less what it adds to the credits. *)
Signo(a) == IF a.mov = "debito" THEN a.valor ELSE IF a.mov = "credito" THEN -a.valor ELSE 0
Signos(s) == [i \in DOMAIN s |-> Signo(s[i])]
Neto(s) == SumFunctionOnSet(Signos(s), DOMAIN s)

(* They are numbers. *)
LEMMA SignoEntero == \A a : EsLinea(a) => Signo(a) \in Int
BY DEF EsLinea, Signo

(* Their sum is a number. *)
LEMMA SignosEnteros ==
  ASSUME NEW s, EsAsiento(s)
  PROVE  /\ IsFiniteSet(DOMAIN s) /\ (\A i \in DOMAIN s : Signos(s)[i] = Signo(s[i]) /\ Signos(s)[i] \in Int)
         /\ Neto(s) \in Int
<1>1. IsFiniteSet(DOMAIN s) /\ \A i \in DOMAIN s : EsLinea(s[i])
  BY AsientoEs, SeqEs
<1>2. \A i \in DOMAIN s : Signos(s)[i] = Signo(s[i]) /\ Signos(s)[i] \in Int
  BY <1>1, SignoEntero DEF Signos
<1> QED BY <1>1, <1>2, SumaEntera DEF Neto

(* The sum is how far debits and credits are apart. *)
LEMMA DescuadreEsNeto ==
  ASSUME NEW s, EsAsiento(s)
  PROVE  Descuadre(s) = Neto(s)
<1> DEFINE D == [i \in DOMAIN s |-> IF s[i].mov = "debito" THEN s[i].valor ELSE 0]
           C == [i \in DOMAIN s |-> IF s[i].mov = "credito" THEN s[i].valor ELSE 0]
<1>1. IsFiniteSet(DOMAIN s) /\ \A i \in DOMAIN s : EsLinea(s[i])
  BY AsientoEs, SeqEs
<1>2. \A i \in DOMAIN s : D[i] \in Int /\ C[i] \in Int /\ Signos(s)[i] = D[i] - C[i]
  <2> TAKE i \in DOMAIN s
  <2>1. s[i].valor \in Int
    BY <1>1 DEF EsLinea
  <2> QED BY <2>1 DEF Signos, Signo
<1>3. /\ SumaMov(s, "debito") = SumFunctionOnSet(D, DOMAIN s)
      /\ SumaMov(s, "credito") = SumFunctionOnSet(C, DOMAIN s)
  <2>1. DOMAIN D = DOMAIN s /\ DOMAIN C = DOMAIN s
    OBVIOUS
  <2>2. SumaMov(s, "debito") = SumFunction(D) /\ SumaMov(s, "credito") = SumFunction(C)
    BY DEF SumaMov, SumaSeq
  <2> HIDE DEF D, C
  <2> QED BY <2>1, <2>2, SumaDeFuncion
<1> HIDE DEF D, C
<1>4. SumFunctionOnSet(Signos(s), DOMAIN s) = SumFunctionOnSet(D, DOMAIN s) - SumFunctionOnSet(C, DOMAIN s)
  BY <1>1, <1>2, SumaDiferencia
<1> QED BY <1>3, <1>4 DEF Descuadre, Neto

(* Sums over sequences put together add up. *)
LEMMA NetoJunto ==
  ASSUME NEW s, EsAsiento(s), NEW u, EsAsiento(u)
  PROVE  Neto(s \o u) = Neto(s) + Neto(u)
<1> DEFINE r == s \o u
           n == Len(s)
           m == Len(u)
           F == Signos(r)
           G == Signos(s)
           H == Signos(u)
           A == 1..n
           B == (n + 1)..(n + m)
           p == [x \in B |-> x - n]
<1>1. s \in Seq(Range(s)) /\ u \in Seq(Range(u)) /\ EsAsiento(r)
  BY AsientoEs, AsientosJuntos
<1>2. n \in Nat /\ m \in Nat /\ DOMAIN s = A /\ DOMAIN u = 1..m
  BY <1>1, SeqEs
<1>3. /\ DOMAIN r = 1..(n + m)
      /\ \A i \in A : r[i] = s[i]
      /\ \A i \in 1..m : r[n + i] = u[i]
  BY <1>1, SeqJuntas
<1>4. /\ \A i \in 1..(n + m) : F[i] = Signo(r[i]) /\ F[i] \in Int
      /\ \A i \in A : G[i] = Signo(s[i]) /\ G[i] \in Int
      /\ \A i \in 1..m : H[i] = Signo(u[i]) /\ H[i] \in Int
      /\ Neto(r) = SumFunctionOnSet(F, 1..(n + m))
      /\ Neto(s) = SumFunctionOnSet(G, A) /\ Neto(u) = SumFunctionOnSet(H, 1..m)
  BY <1>1, <1>2, <1>3, SignosEnteros DEF Neto
<1>5. IsFiniteSet(A) /\ IsFiniteSet(B) /\ IsFiniteSet(1..m)
  BY <1>2, FS_Interval
<1>6. 1..(n + m) = A \cup B /\ A \cap B = {}
  BY <1>2
<1> HIDE DEF r, n, m, F, G, H
<1>7. \A x \in B : p[x] \in 1..m /\ x \in 1..(n + m) /\ n + p[x] = x
  BY <1>2
<1>8. SumFunctionOnSet(F, A \cup B) = SumFunctionOnSet(F, A) + SumFunctionOnSet(F, B)
  <2>1. \A x \in A \cup B : F[x] \in Int
    BY <1>4, <1>6
  <2> HIDE DEF A, B
  <2> QED BY <1>5, <1>6, <2>1, SumaUnion
<1>9. SumFunctionOnSet(F, A) = SumFunctionOnSet(G, A)
  <2>1. \A x \in A : F[x] = G[x]
    BY <1>2, <1>3, <1>4
  <2> HIDE DEF A
  <2> QED BY <1>5, <2>1, SumaIgual
<1>10. SumFunctionOnSet(H, 1..m) = SumFunctionOnSet(F, B)
  <2> DEFINE K == 1..m
  <2>1. \A x \in B : F[x] \in Int /\ p[x] \in K /\ F[x] = H[p[x]]
    <3> TAKE x \in B
    <3>1. p[x] \in 1..m /\ x \in 1..(n + m) /\ n + p[x] = x
      BY <1>7
    <3> HIDE DEF p
    <3> QED BY <1>3, <1>4, <3>1
  <2>2. \A x \in B, y \in B : p[x] = p[y] => x = y
    BY <1>2
  <2>3. \A k \in K : \E x \in B : p[x] = k
    <3> TAKE k \in K
    <3>1. n + k \in B /\ p[n + k] = k
      BY <1>2
    <3> QED BY <3>1
  <2>4. IsFiniteSet(K)
    BY <1>5
  <2> HIDE DEF K, B, p
  <2>5. SumFunctionOnSet(H, K) = SumFunctionOnSet(F, B)
    BY <1>5, <2>1, <2>2, <2>3, <2>4, SumaReindexada
  <2> QED BY <2>5 DEF K
<1> HIDE DEF A, B
<1>11. Neto(r) = Neto(s) + Neto(u)
  BY <1>4, <1>6, <1>8, <1>9, <1>10
<1> QED BY <1>11 DEF r

(* One line, or none. *)
LEMMA NetoDeUna ==
  ASSUME NEW a, EsLinea(a)
  PROVE  EsAsiento(<<a>>) /\ Neto(<<a>>) = Signo(a)
<1> DEFINE s == <<a>>
<1>1. s = [i \in 1..1 |-> s[i]] /\ s[1] = a
  OBVIOUS
<1> HIDE DEF s
<1>2. s \in Seq(Range(s)) /\ DOMAIN s = {1}
  <2>1. 1..1 = {1}
    OBVIOUS
  <2> QED BY <1>1, <2>1, EsSeq
<1>3. EsAsiento(s)
  BY <1>1, <1>2, AsientoEs
<1>4. \A y \in {} \cup {1} : Signos(s)[y] \in Int
  BY <1>2, <1>3, SignosEnteros
<1>5. SumFunctionOnSet(Signos(s), {} \cup {1}) = Signos(s)[1] + SumFunctionOnSet(Signos(s), {})
  <2>1. IsFiniteSet({}) /\ 1 \notin {}
    BY FS_EmptySet
  <2> QED BY <1>4, <2>1, SumaMas
<1>6. Signos(s)[1] = Signo(a) /\ Signo(a) \in Int /\ SumFunctionOnSet(Signos(s), {}) = 0
  BY <1>1, <1>2, <1>4, SumaVacia, SignoEntero DEF Signos
<1>7. Neto(s) = Signo(a)
  <2>1. DOMAIN s = {} \cup {1}
    BY <1>2
  <2> QED BY <1>5, <1>6, <2>1 DEF Neto
<1> QED BY <1>3, <1>7 DEF s

(* No lines add nothing. *)
LEMMA NetoDeNinguna == EsAsiento(<<>>) /\ Neto(<<>>) = 0
<1> DEFINE s == <<>>
<1>1. DOMAIN s = {} /\ s \in Seq(Range(s))
  BY EmptySeq
<1> HIDE DEF s
<1>2. EsAsiento(s) /\ Neto(s) = 0
  BY <1>1, AsientoEs, SumaVacia DEF Neto
<1> QED BY <1>2 DEF s

(* A line of an asiento gets another amount. *)
ConValor(s, i, v) == [s EXCEPT ![i].valor = v]
LEMMA NetoCambiado ==
  ASSUME NEW s, EsAsiento(s), NEW i \in DOMAIN s, NEW v \in Int
  PROVE  LET u == ConValor(s, i, v)
         IN /\ EsAsiento(u) /\ DOMAIN u = DOMAIN s
            /\ \A j \in DOMAIN s : u[j].mov = s[j].mov
            /\ u[i].valor = v
            /\ Neto(u) = Neto(s) + (Signo(u[i]) - Signo(s[i]))
<1> DEFINE u == ConValor(s, i, v)
           D == DOMAIN s
           R == D \ {i}
<1>1. s \in Seq(Range(s)) /\ \A j \in D : EsLinea(s[j])
  BY AsientoEs
<1>2. Len(s) \in Nat /\ D = 1..Len(s) /\ s = [j \in 1..Len(s) |-> s[j]] /\ IsFiniteSet(D)
  BY <1>1, SeqEs
<1>3. /\ DOMAIN u = D /\ u = [j \in 1..Len(s) |-> u[j]]
      /\ u[i] = [s[i] EXCEPT !.valor = v]
      /\ \A j \in R : u[j] = s[j]
  BY <1>2 DEF ConValor
<1>4. EsLinea(u[i]) /\ u[i].mov = s[i].mov /\ u[i].valor = v
  <2>1. EsLinea(s[i])
    BY <1>1
  <2>2. PICK a : a = s[i] /\ a = [cuenta |-> a.cuenta, mov |-> a.mov, valor |-> a.valor, texto |-> a.texto]
    BY <2>1 DEF EsLinea
  <2>3. u[i] = [cuenta |-> a.cuenta, mov |-> a.mov, valor |-> v, texto |-> a.texto]
    BY <1>3, <2>2
  <2> QED BY <2>2, <2>3 DEF EsLinea
<1> HIDE DEF u
<1>5. EsAsiento(u)
  <2>1. u \in Seq(Range(u))
    BY <1>2, <1>3, EsSeq
  <2>2. \A j \in DOMAIN u : EsLinea(u[j])
    BY <1>1, <1>3, <1>4
  <2> QED BY <2>1, <2>2, AsientoEs
<1>6. /\ \A j \in D : Signos(s)[j] = Signo(s[j]) /\ Signos(s)[j] \in Int
      /\ \A j \in D : Signos(u)[j] = Signo(u[j]) /\ Signos(u)[j] \in Int
  BY <1>3, <1>5, SignosEnteros
<1>7. /\ Neto(s) = Signos(s)[i] + SumFunctionOnSet(Signos(s), R)
      /\ Neto(u) = Signos(u)[i] + SumFunctionOnSet(Signos(u), R)
  <2>1. Neto(s) = SumFunctionOnSet(Signos(s), D) /\ Neto(u) = SumFunctionOnSet(Signos(u), D)
    BY <1>3 DEF Neto
  <2>2. i \in D /\ IsFiniteSet(D)
    BY <1>2
  <2> HIDE DEF D
  <2>3. \A x \in D : SumFunctionOnSet(Signos(s), D) = Signos(s)[x] + SumFunctionOnSet(Signos(s), D \ {x})
    BY <1>6, <2>2, SumaDesde
  <2>4. \A x \in D : SumFunctionOnSet(Signos(u), D) = Signos(u)[x] + SumFunctionOnSet(Signos(u), D \ {x})
    BY <1>6, <2>2, SumaDesde
  <2> QED BY <2>1, <2>2, <2>3, <2>4
<1>8. IsFiniteSet(R) /\ R \subseteq D
  BY <1>2, FS_Subset
<1>9. \A j \in R : Signos(u)[j] = Signos(s)[j]
  BY <1>3, <1>6, <1>8
<1> HIDE DEF R
<1>10. /\ SumFunctionOnSet(Signos(u), R) = SumFunctionOnSet(Signos(s), R)
       /\ SumFunctionOnSet(Signos(s), R) \in Int
  BY <1>6, <1>8, <1>9, SumaIgual, SumaEntera
<1>11. Neto(u) = Neto(s) + (Signo(u[i]) - Signo(s[i]))
  <2> DEFINE x == SumFunctionOnSet(Signos(s), R)
  <2>1. x \in Int /\ Signo(u[i]) \in Int /\ Signo(s[i]) \in Int
    BY <1>6, <1>10
  <2>2. Neto(s) = Signo(s[i]) + x /\ Neto(u) = Signo(u[i]) + x
    BY <1>6, <1>7, <1>10
  <2> HIDE DEF x
  <2> QED BY <2>1, <2>2
<1>12. \A j \in D : u[j].mov = s[j].mov
  BY <1>3, <1>4 DEF R
<1> QED BY <1>3, <1>4, <1>5, <1>11, <1>12 DEF u

(* The line of the counterparty is one of its side. *)
LEMMA MayorEsta ==
  ASSUME NEW s, EsAsiento(s), NEW mov
  PROVE  /\ Mayor(s, mov) # 0 => Mayor(s, mov) \in DOMAIN s /\ s[Mayor(s, mov)].mov = mov
         /\ Mayor(s, mov) # 0 <=> \E i \in DOMAIN s : s[i].mov = mov
<1> DEFINE T == {i \in DOMAIN s : s[i].mov = mov}
           EsMayor(i) == /\ \A j \in T : s[j].valor <= s[i].valor
                         /\ \A j \in T : s[j].valor = s[i].valor => i <= j
           B == {A \in SUBSET T : A = {} \/ \E i \in A : \A j \in A : s[j].valor <= s[i].valor}
<1>1. /\ Len(s) \in Nat /\ DOMAIN s = 1..Len(s) /\ IsFiniteSet(DOMAIN s)
      /\ \A i \in DOMAIN s : s[i].valor \in Int
  BY AsientoEs, SeqEs DEF EsLinea
<1>2. IsFiniteSet(T) /\ T \subseteq Nat /\ 0 \notin T
  BY <1>1, FS_Subset
<1>3. ASSUME NEW A \in SUBSET T, NEW x \in T \ A, A \in B
      PROVE  A \cup {x} \in B
  <2>1. CASE A = {}
    BY <1>1, <2>1
  <2>2. CASE A # {}
    <3>1. PICK i \in A : \A j \in A : s[j].valor <= s[i].valor
      BY <1>3, <2>2
    <3>2. CASE s[x].valor <= s[i].valor
      <4>1. \A j \in A \cup {x} : s[j].valor <= s[i].valor
        BY <3>1, <3>2
      <4> QED BY <4>1
    <3>3. CASE ~(s[x].valor <= s[i].valor)
      <4>1. \A j \in A \cup {x} : s[j].valor <= s[x].valor
        <5> TAKE j \in A \cup {x}
        <5>1. s[j].valor \in Int /\ s[i].valor \in Int /\ s[x].valor \in Int
          BY <1>1
        <5> QED BY <3>1, <3>3, <5>1
      <4> QED BY <4>1
    <3> QED BY <3>2, <3>3
  <2> QED BY <2>1, <2>2
<1>4. T \in B
  <2>1. {} \in B
    OBVIOUS
  <2> HIDE DEF B, T
  <2> QED BY <1>2, <1>3, <2>1, InduccionFinita
<1>5. ASSUME T # {}
      PROVE  \E i \in T : EsMayor(i)
  <2>1. PICK i \in T : \A j \in T : s[j].valor <= s[i].valor
    BY <1>4, <1>5
  <2> DEFINE E == {j \in T : s[j].valor = s[i].valor}
  <2>2. E \subseteq Nat /\ E # {}
    BY <1>2
  <2>3. PICK k \in E : \A j \in E : k <= j
    BY <2>2, Minimo
  <2>4. k \in T /\ EsMayor(k)
    BY <2>1, <2>3
  <2> QED BY <2>4
<1>6. Mayor(s, mov) = IF T = {} THEN 0 ELSE CHOOSE i \in T : EsMayor(i)
  BY DEF Mayor
<1>7. T # {} => Mayor(s, mov) \in T
  BY <1>5, <1>6
<1>8. T = {} => Mayor(s, mov) = 0
  BY <1>6
<1> HIDE DEF EsMayor, B
<1> QED BY <1>2, <1>7, <1>8

(* Lines that come in pairs which cancel out. *)
LEMMA NetoDePares ==
  ASSUME NEW s, EsAsiento(s), NEW n \in Nat, DOMAIN s = 1..(2 * n),
         \A j \in 1..n : Signo(s[2 * j - 1]) + Signo(s[2 * j]) = 0
  PROVE  Neto(s) = 0
<1> DEFINE S == 1..(2 * n)
           K == 1..n
           F == Signos(s)
           p == [k \in S |-> (k + 1) \div 2]
           G == [j \in K |-> 0]
<1>1. IsFiniteSet(S) /\ IsFiniteSet(K)
  BY FS_Interval
<1>2. \A k \in S : F[k] = Signo(s[k]) /\ F[k] \in Int
  BY SignosEnteros
<1>3. \A k \in S : p[k] \in K
  OBVIOUS
<1>4. ASSUME NEW j \in K
      PROVE  G[j] = SumFunctionOnSet(F, DeParte(S, p, j))
  <2> DEFINE a == 2 * j - 1
             b == 2 * j
  <2>1. a \in S /\ b \in S /\ a # b
    OBVIOUS
  <2>2. DeParte(S, p, j) = {a} \cup {b}
    <3>1. \A k \in S : p[k] = j <=> k = a \/ k = b
      OBVIOUS
    <3> QED BY <2>1, <3>1 DEF DeParte
  <2>3. F[a] \in Int /\ F[b] \in Int /\ F[a] + F[b] = 0
    BY <1>2, <2>1
  <2> HIDE DEF F, S, p, a, b
  <2>4. SumFunctionOnSet(F, {} \cup {a}) = F[a] + SumFunctionOnSet(F, {})
    <3>1. IsFiniteSet({}) /\ a \notin {} /\ \A y \in {} \cup {a} : F[y] \in Int
      BY <2>3, FS_EmptySet
    <3> QED BY <3>1, SumaMas
  <2>5. SumFunctionOnSet(F, {a} \cup {b}) = F[b] + SumFunctionOnSet(F, {a})
    <3>1. IsFiniteSet({a}) /\ b \notin {a} /\ \A y \in {a} \cup {b} : F[y] \in Int
      BY <2>1, <2>3, FS_Singleton
    <3> QED BY <3>1, SumaMas
  <2>6. SumFunctionOnSet(F, {}) = 0 /\ {} \cup {a} = {a}
    BY SumaVacia
  <2>7. SumFunctionOnSet(F, {a} \cup {b}) = 0
    BY <2>3, <2>4, <2>5, <2>6
  <2>8. SumFunctionOnSet(F, DeParte(S, p, j)) = 0
    BY <2>2, <2>7
  <2>9. G[j] = 0
    OBVIOUS
  <2> QED BY <2>8, <2>9
<1>5. SumFunctionOnSet(G, K) = 0
  <2>1. \A j \in K : G[j] = 0
    OBVIOUS
  <2> HIDE DEF G, K
  <2> QED BY <1>1, <2>1, SumaCero
<1> HIDE DEF F, G, S, K, p
<1>6. SumFunctionOnSet(G, K) = SumFunctionOnSet(F, S)
  BY <1>1, <1>2, <1>3, <1>4, SumaPorPartes
<1> QED BY <1>5, <1>6 DEF Neto, F, S

(* A finite set in sequence. *)
LEMMA EnSecuencia ==
  ASSUME NEW S, IsFiniteSet(S)
  PROVE  \E n \in Nat : SetToSeq(S) \in [1..n -> S] /\ Len(SetToSeq(S)) = n
<1> DEFINE n == Cardinality(S)
<1>1. n \in Nat /\ ExistsBijection(1..n, S)
  BY FS_CardinalityType
<1>2. PICK f : f \in Bijection(1..n, S)
  BY <1>1 DEF ExistsBijection
<1>3. f \in [1..n -> S] /\ IsInjective(f)
  BY <1>2 DEF Bijection, Injection, IsInjective
<1>4. SetToSeq(S) \in [1..n -> S]
  BY <1>3 DEF SetToSeq
<1>5. SetToSeq(S) \in Seq(S)
  BY <1>1, <1>4, SeqDef
<1>6. Len(SetToSeq(S)) \in Nat /\ DOMAIN SetToSeq(S) = 1..Len(SetToSeq(S))
  BY <1>5, LenProperties
<1> HIDE DEF n
<1>7. Len(SetToSeq(S)) = n
  BY <1>1, <1>4, <1>6
<1> QED BY <1>1, <1>4, <1>7

(* The special taxes of a document balance by themselves. *)
LEMMA EspecialesCuadran ==
  ASSUME NEW E, IsFiniteSet(E), NEW base \in Int, \A e \in E : e.tasa \in Int
  PROVE  EsAsiento(lineas_especiales(E, base)) /\ Neto(lineas_especiales(E, base)) = 0
<1> DEFINE P == {e \in E : ~e.periodico}
           orden == SetToSeq(P)
           s == lineas_especiales(E, base)
           gasto(e) == [cuenta |-> e.cuenta_gasto, mov |-> "debito", valor |-> Tarifa(base, e.tasa), texto |-> {}]
           porPagar(e) == [gasto(e) EXCEPT !.cuenta = e.cuenta_por_pagar, !.mov = "credito"]
<1>1. IsFiniteSet(P) /\ \A e \in P : e.tasa \in Int
  BY FS_Subset
<1>2. PICK n \in Nat : orden \in [1..n -> P] /\ Len(orden) = n
  <2> HIDE DEF P
  <2> QED BY <1>1, EnSecuencia
<1>3. \A e \in P : Tarifa(base, e.tasa) \in Int
  BY <1>1 DEF Tarifa, Redondeo
<1>4. s = [k \in 1..(2 * n) |-> IF k % 2 = 1 THEN gasto(orden[(k + 1) \div 2]) ELSE porPagar(orden[k \div 2])]
  <2>1. Len(orden) = n
    BY <1>2
  <2>2. s = [k \in 1..(2 * Len(orden)) |->
               IF k % 2 = 1 THEN gasto(orden[(k + 1) \div 2]) ELSE porPagar(orden[k \div 2])]
    BY DEF lineas_especiales
  <2> HIDE DEF s, orden, gasto, porPagar
  <2> QED BY <2>1, <2>2
<1> HIDE DEF s, orden, P
<1>5. \A k \in 1..(2 * n) : /\ k % 2 = 1 => (k + 1) \div 2 \in 1..n
                            /\ k % 2 # 1 => k \div 2 \in 1..n
  OBVIOUS
<1>6. ASSUME NEW k \in 1..(2 * n)
      PROVE  EsLinea(s[k])
  <2>1. CASE k % 2 = 1
    <3>1. orden[(k + 1) \div 2] \in P
      BY <1>2, <1>5, <2>1
    <3>2. PICK e \in P : e = orden[(k + 1) \div 2]
      BY <3>1
    <3>3. s[k] = gasto(e)
      BY <1>4, <2>1, <3>2
    <3> QED BY <1>3, <3>3 DEF EsLinea
  <2>2. CASE k % 2 # 1
    <3>1. orden[k \div 2] \in P
      BY <1>2, <1>5, <2>2
    <3>2. PICK e \in P : e = orden[k \div 2]
      BY <3>1
    <3>3. s[k] = porPagar(e)
      BY <1>4, <2>2, <3>2
    <3> QED BY <1>3, <3>3 DEF EsLinea
  <2> QED BY <2>1, <2>2
<1>7. 2 * n \in Nat /\ DOMAIN s = 1..(2 * n) /\ s = [k \in 1..(2 * n) |-> s[k]]
  <2> DEFINE f(k) == IF k % 2 = 1 THEN gasto(orden[(k + 1) \div 2]) ELSE porPagar(orden[k \div 2])
  <2>1. s = [k \in 1..(2 * n) |-> f(k)]
    BY <1>4
  <2> HIDE DEF f
  <2> QED BY <2>1
<1>8. s \in Seq(Range(s))
  BY <1>7, EsSeq
<1>9. EsAsiento(s)
  BY <1>6, <1>7, <1>8, AsientoEs
<1>10. ASSUME NEW j \in 1..n
       PROVE  Signo(s[2 * j - 1]) + Signo(s[2 * j]) = 0
  <2>1. /\ 2 * j - 1 \in 1..(2 * n) /\ 2 * j \in 1..(2 * n)
        /\ (2 * j - 1) % 2 = 1 /\ (2 * j) % 2 # 1
        /\ ((2 * j - 1) + 1) \div 2 = j /\ (2 * j) \div 2 = j
    OBVIOUS
  <2>2. PICK e \in P : e = orden[j]
    BY <1>2
  <2>3. s[2 * j - 1] = gasto(e) /\ s[2 * j] = porPagar(e)
    BY <1>4, <2>1, <2>2
  <2>4. Tarifa(base, e.tasa) \in Int
    BY <1>3
  <2> QED BY <2>3, <2>4 DEF Signo
<1>11. Neto(s) = 0
  BY <1>7, <1>9, <1>10, NetoDePares
<1> QED BY <1>9, <1>11 DEF s

----------------------------------------------------------------------------
(***************************************************************************)
(* The taxes keep the balance of the proposal.                              *)
(***************************************************************************)

(* What an amount adds on a side. *)
Lado(mov, v) == IF mov = "debito" THEN v ELSE -v

(* The taxes withheld go to the side of the counterparty, the IVA to the other. *)
LEMMA LadosDelImpuesto ==
  ASSUME NEW doc, NEW e
  PROVE  /\ Objetivo(doc) \in {"debito", "credito"}
         /\ CuentasDe(doc, e).iva.mov = Otro(Objetivo(doc))
         /\ CuentasDe(doc, e).retefuente.mov = Objetivo(doc)
         /\ CuentasDe(doc, e).reteica.mov = Objetivo(doc)
<1> DEFINE c == tax_accounts_for(EsVenta(doc), e.cuenta_ica_propio)
           lado == IF EsVenta(doc) THEN "debito" ELSE "credito"
<1>1. /\ lado \in {"debito", "credito"}
      /\ c = [iva |-> c.iva, retefuente |-> c.retefuente, reteica |-> c.reteica]
      /\ c.iva.mov = Otro(lado) /\ c.retefuente.mov = lado /\ c.reteica.mov = lado
      /\ \A p \in {c.iva, c.retefuente, c.reteica} : p = [cuenta |-> p.cuenta, mov |-> p.mov]
  BY DEF tax_accounts_for, Otro
<1> DEFINE r == [k \in DOMAIN c |-> flip_movimiento(c[k])]
<1>2. r.iva = flip_movimiento(c.iva) /\ r.retefuente = flip_movimiento(c.retefuente) /\ r.reteica = flip_movimiento(c.reteica)
  <2>1. DOMAIN c = {"iva", "retefuente", "reteica"}
    BY <1>1
  <2> HIDE DEF c
  <2> QED BY <2>1
<1>3. \A p : p = [cuenta |-> p.cuenta, mov |-> p.mov] => flip_movimiento(p).mov = Otro(p.mov)
  BY DEF flip_movimiento
<1>4. CuentasDe(doc, e) = IF EsReverso(doc) THEN r ELSE c
  BY DEF CuentasDe
<1>5. Objetivo(doc) = IF EsReverso(doc) THEN Otro(lado) ELSE lado
  BY DEF Objetivo
<1>6. \A m \in {"debito", "credito"} : Otro(m) \in {"debito", "credito"}
  BY DEF Otro
<1> HIDE DEF c, r, lado
<1>7. CASE EsReverso(doc)
  <2>1. /\ CuentasDe(doc, e).iva.mov = Otro(c.iva.mov)
        /\ CuentasDe(doc, e).retefuente.mov = Otro(c.retefuente.mov)
        /\ CuentasDe(doc, e).reteica.mov = Otro(c.reteica.mov)
    BY <1>1, <1>2, <1>3, <1>4, <1>7
  <2> QED BY <1>1, <1>5, <1>6, <1>7, <2>1
<1>8. CASE ~EsReverso(doc)
  BY <1>1, <1>4, <1>5, <1>8
<1> QED BY <1>7, <1>8

(* The line of a tax, if it has one. *)
LEMMA NetoDeLinea ==
  ASSUME NEW par, NEW v \in Int, par.mov \in {"debito", "credito"}
  PROVE  /\ EsAsiento(LineaDe(par, v)) /\ Neto(LineaDe(par, v)) \in Int
         /\ v >= 0 => Neto(LineaDe(par, v)) = Lado(par.mov, v)
<1> DEFINE a == [cuenta |-> par.cuenta, mov |-> par.mov, valor |-> v, texto |-> {}]
<1>1. EsLinea(a) /\ Signo(a) = Lado(par.mov, v)
  BY DEF EsLinea, Signo, Lado
<1>2. LineaDe(par, v) = IF v > 0 THEN <<a>> ELSE <<>>
  BY DEF LineaDe
<1> HIDE DEF a
<1>3. EsAsiento(<<a>>) /\ Neto(<<a>>) = Lado(par.mov, v)
  BY <1>1, NetoDeUna
<1>4. CASE v > 0
  <2>1. Lado(par.mov, v) \in Int
    BY DEF Lado
  <2> QED BY <1>2, <1>3, <1>4, <2>1
<1>5. CASE ~(v > 0)
  <2>1. v >= 0 => Lado(par.mov, v) = 0
    BY <1>5 DEF Lado
  <2> QED BY <1>2, <1>5, <2>1, NetoDeNinguna
<1> QED BY <1>4, <1>5

(* The amount of a line of a side changes by w. *)
LEMMA NetoAjustado ==
  ASSUME NEW s, EsAsiento(s), NEW i \in DOMAIN s, NEW w \in Int, s[i].mov \in {"debito", "credito"},
         NEW u, u = ConValor(s, i, s[i].valor + w)
  PROVE  /\ EsAsiento(u) /\ DOMAIN u = DOMAIN s
         /\ \A j \in DOMAIN s : u[j].mov = s[j].mov
         /\ Neto(u) = Neto(s) + Lado(s[i].mov, w)
<1>1. s[i].valor \in Int
  BY AsientoEs DEF EsLinea
<1> DEFINE v == s[i].valor + w
<1>2. v \in Int
  BY <1>1
<1> HIDE DEF v
<1>3. /\ EsAsiento(u) /\ DOMAIN u = DOMAIN s
      /\ \A j \in DOMAIN s : u[j].mov = s[j].mov
      /\ u[i].valor = v
      /\ Neto(u) = Neto(s) + (Signo(u[i]) - Signo(s[i]))
  BY <1>2, NetoCambiado DEF v
<1>4. Signo(u[i]) - Signo(s[i]) = Lado(s[i].mov, w)
  <2>1. u[i].mov = s[i].mov
    BY <1>3
  <2> QED BY <1>1, <1>3, <2>1 DEF v, Signo, Lado
<1> QED BY <1>3, <1>4

(* The IVA the counterparty's line held is off it. *)
LEMMA NetoSinIva ==
  ASSUME NEW s, EsAsiento(s), NEW doc, NEW base \in Int, NEW iva \in Int
  PROVE  LET u == SinIvaIncluido(s, doc, base, iva)
         IN /\ EsAsiento(u) /\ DOMAIN u = DOMAIN s
            /\ \A j \in DOMAIN s : u[j].mov = s[j].mov
            /\ Neto(u) = IF IvaIncluido(s, doc, base, iva) THEN Neto(s) - Lado(Objetivo(doc), iva) ELSE Neto(s)
<1> DEFINE u == SinIvaIncluido(s, doc, base, iva)
           i == Mayor(s, Objetivo(doc))
<1>1. CASE ~IvaIncluido(s, doc, base, iva)
  BY <1>1 DEF SinIvaIncluido
<1>2. CASE IvaIncluido(s, doc, base, iva)
  <2>1. i # 0
    BY <1>2 DEF IvaIncluido
  <2>2. i \in DOMAIN s /\ s[i].mov = Objetivo(doc)
    BY <2>1, MayorEsta
  <2>3. Objetivo(doc) \in {"debito", "credito"}
    BY LadosDelImpuesto
  <2>4. s[i].valor - iva = s[i].valor + (-iva)
    BY <2>2, AsientoEs DEF EsLinea
  <2>5. u = ConValor(s, i, s[i].valor - iva)
    BY <1>2 DEF SinIvaIncluido, ConValor
  <2>6. u = ConValor(s, i, s[i].valor + (-iva))
    BY <2>4, <2>5
  <2> HIDE DEF u, i
  <2>7. /\ EsAsiento(u) /\ DOMAIN u = DOMAIN s /\ (\A j \in DOMAIN s : u[j].mov = s[j].mov)
        /\ Neto(u) = Neto(s) + Lado(Objetivo(doc), -iva)
    BY <2>2, <2>3, <2>6, NetoAjustado
  <2>8. Neto(s) + Lado(Objetivo(doc), -iva) = Neto(s) - Lado(Objetivo(doc), iva)
    BY SignosEnteros DEF Lado
  <2> QED BY <1>2, <2>7, <2>8 DEF u
<1> QED BY <1>1, <1>2

(* What is added on one side is taken off on the other. *)
LEMMA LadoEs ==
  \A m \in {"debito", "credito"} :
    /\ Lado(m, 0) = 0
    /\ \A v \in Int : Lado(m, v) \in Int /\ Lado(Otro(m), v) = -Lado(m, v)
<1> SUFFICES ASSUME NEW m \in {"debito", "credito"}
             PROVE  Lado(m, 0) = 0 /\ \A v \in Int : Lado(m, v) \in Int /\ Lado(Otro(m), v) = -Lado(m, v)
  OBVIOUS
<1>1. Lado(m, 0) = 0
  <2>1. Lado("debito", 0) = 0
    BY DEF Lado
  <2>2. Lado("credito", 0) \in Int /\ Lado("credito", 0) + 0 = 0
    BY DEF Lado
  <2> QED BY <2>1, <2>2
<1>2. \A v \in Int : Lado(m, v) \in Int /\ Lado(Otro(m), v) = -Lado(m, v)
  BY DEF Lado, Otro
<1> QED BY <1>1, <1>2

(* The entry with its taxes is out of balance by as much as without them. *)
LEMMA EnriquecerCuadra ==
  ASSUME NEW s, EsAsiento(s), NEW doc, NEW imp, NEW e,
         imp.base \in Int, imp.iva \in Int, imp.retefuente \in Int, imp.reteica \in Int,
         NEW u, u = enriquecer(s, doc, imp, CuentasDe(doc, e)), u # <<>>
  PROVE  /\ EsAsiento(u)
         /\ Coherente(s, doc, imp) => Neto(u) = Neto(s)
<1> DEFINE c == CuentasDe(doc, e)
           O == Objetivo(doc)
           visto == has_iva_in_asientos(s).presente
           iva == IvaDeContraparte(s, doc, imp.iva)
           retenido == imp.retefuente + imp.reteica
           neta == SinIvaIncluido(s, doc, imp.base, iva)
           dentro == IvaIncluido(s, doc, imp.base, iva)
           i == IF retenido > 0 \/ iva > 0 THEN Mayor(neta, O) ELSE 0
           ajustada == IF i = 0 THEN neta ELSE [neta EXCEPT ![i].valor = @ + iva - retenido]
           L1 == LineaDe(c.iva, IF visto THEN 0 ELSE imp.iva)
           L2 == LineaDe(c.retefuente, imp.retefuente)
           L3 == LineaDe(c.reteica, imp.reteica)
<1>1. u = ajustada \o L1 \o L2 \o L3
  BY DEF enriquecer
<1>2. iva \in Int /\ retenido \in Int /\ iva = IF EsVenta(doc) /\ visto THEN 0 ELSE imp.iva
  BY DEF IvaDeContraparte
<1>3. O \in {"debito", "credito"} /\ c.iva.mov = Otro(O) /\ c.retefuente.mov = O /\ c.reteica.mov = O
  BY LadosDelImpuesto
<1>4. c.iva.mov \in {"debito", "credito"}
  BY <1>3 DEF Otro
<1>5. /\ EsAsiento(neta) /\ DOMAIN neta = DOMAIN s
      /\ \A j \in DOMAIN s : neta[j].mov = s[j].mov
      /\ Neto(neta) = IF dentro THEN Neto(s) - Lado(O, iva) ELSE Neto(s)
  <2> HIDE DEF iva
  <2> QED BY <1>2, NetoSinIva
<1>6. /\ i # 0 => i \in DOMAIN neta /\ neta[i].mov = O
      /\ (retenido > 0 \/ iva > 0) /\ Mayor(s, O) # 0 => i # 0
      /\ ~(retenido > 0 \/ iva > 0) => i = 0
  <2>1. /\ Mayor(neta, O) # 0 => Mayor(neta, O) \in DOMAIN neta /\ neta[Mayor(neta, O)].mov = O
        /\ Mayor(neta, O) # 0 <=> \E j \in DOMAIN neta : neta[j].mov = O
        /\ Mayor(s, O) # 0 <=> \E j \in DOMAIN s : s[j].mov = O
    BY <1>5, MayorEsta
  <2>2. Mayor(s, O) # 0 => Mayor(neta, O) # 0
    BY <1>5, <2>1
  <2> HIDE DEF neta, O, retenido, iva
  <2> QED BY <2>1, <2>2
<1>7. /\ EsAsiento(ajustada)
      /\ Neto(ajustada) = IF i = 0 THEN Neto(neta) ELSE Neto(neta) + Lado(O, iva - retenido)
  <2>1. CASE i = 0
    BY <1>5, <2>1
  <2>2. CASE i # 0
    <3> DEFINE w == iva - retenido
    <3>1. i \in DOMAIN neta /\ neta[i].mov = O /\ w \in Int
      BY <1>2, <1>6, <2>2
    <3>2. neta[i].valor \in Int
      BY <1>5, <3>1, AsientoEs DEF EsLinea
    <3>3. neta[i].valor + iva - retenido = neta[i].valor + w
      <4> HIDE DEF neta, i, iva, retenido
      <4> QED BY <1>2, <3>2
    <3>4. ajustada = ConValor(neta, i, neta[i].valor + iva - retenido)
      <4> HIDE DEF neta, i, iva, retenido
      <4> QED BY <2>2 DEF ConValor
    <3>5. ajustada = ConValor(neta, i, neta[i].valor + w)
      BY <3>3, <3>4
    <3> HIDE DEF ajustada, neta, i, w
    <3>6. EsAsiento(ajustada) /\ Neto(ajustada) = Neto(neta) + Lado(O, w)
      BY <1>3, <1>5, <3>1, <3>5, NetoAjustado
    <3> QED BY <2>2, <3>6 DEF w
  <2> HIDE DEF ajustada, i
  <2> QED BY <2>1, <2>2
<1> HIDE DEF ajustada, i, neta
<1>8. /\ EsAsiento(L1) /\ EsAsiento(L2) /\ EsAsiento(L3)
      /\ Neto(L1) \in Int /\ Neto(L2) \in Int /\ Neto(L3) \in Int
      /\ imp.iva >= 0 => Neto(L1) = Lado(Otro(O), IF visto THEN 0 ELSE imp.iva)
      /\ imp.retefuente >= 0 => Neto(L2) = Lado(O, imp.retefuente)
      /\ imp.reteica >= 0 => Neto(L3) = Lado(O, imp.reteica)
  <2> DEFINE v == IF visto THEN 0 ELSE imp.iva
  <2>1. v \in Int /\ (imp.iva >= 0 => v >= 0)
    OBVIOUS
  <2> HIDE DEF v
  <2>2. EsAsiento(LineaDe(c.iva, v)) /\ Neto(LineaDe(c.iva, v)) \in Int /\ (v >= 0 => Neto(LineaDe(c.iva, v)) = Lado(Otro(O), v))
    BY <1>3, <1>4, <2>1, NetoDeLinea
  <2>3. EsAsiento(L2) /\ Neto(L2) \in Int /\ (imp.retefuente >= 0 => Neto(L2) = Lado(O, imp.retefuente))
    BY <1>3, NetoDeLinea
  <2>4. EsAsiento(L3) /\ Neto(L3) \in Int /\ (imp.reteica >= 0 => Neto(L3) = Lado(O, imp.reteica))
    BY <1>3, NetoDeLinea
  <2> QED BY <2>1, <2>2, <2>3, <2>4 DEF v
<1> HIDE DEF L1, L2, L3
<1>9. EsAsiento(u) /\ Neto(u) = Neto(ajustada) + Neto(L1) + Neto(L2) + Neto(L3)
  <2>1. EsAsiento(ajustada \o L1) /\ Neto(ajustada \o L1) = Neto(ajustada) + Neto(L1)
    BY <1>7, <1>8, AsientosJuntos, NetoJunto
  <2>2. EsAsiento(ajustada \o L1 \o L2) /\ Neto(ajustada \o L1 \o L2) = Neto(ajustada \o L1) + Neto(L2)
    BY <1>8, <2>1, AsientosJuntos, NetoJunto
  <2>3. EsAsiento(ajustada \o L1 \o L2 \o L3) /\ Neto(ajustada \o L1 \o L2 \o L3) = Neto(ajustada \o L1 \o L2) + Neto(L3)
    BY <1>8, <2>2, AsientosJuntos, NetoJunto
  <2> QED BY <1>1, <2>1, <2>2, <2>3
<1>10. Neto(s) \in Int
  BY SignosEnteros
<1>11. ASSUME Coherente(s, doc, imp)
       PROVE  Neto(u) = Neto(s)
  <2>1. /\ imp.iva >= 0 /\ imp.retefuente >= 0 /\ imp.reteica >= 0
        /\ iva > 0 \/ imp.retefuente + imp.reteica > 0 => Mayor(s, O) # 0
        /\ iva > 0 => (dentro <=> visto)
    BY <1>11 DEF Coherente
  <2>2. dentro => iva > 0
    BY DEF IvaIncluido
  <2>3. (i # 0) <=> (retenido > 0 \/ iva > 0)
    BY <1>6, <2>1
  <2> HIDE DEF dentro, visto, iva, O, c
  <2>4. /\ Neto(L1) = Lado(Otro(O), IF visto THEN 0 ELSE imp.iva)
        /\ Neto(L2) = Lado(O, imp.retefuente) /\ Neto(L3) = Lado(O, imp.reteica)
    BY <1>8, <2>1
  <2>5. /\ Neto(neta) = IF dentro THEN Neto(s) - Lado(O, iva) ELSE Neto(s)
        /\ Neto(ajustada) = IF i = 0 THEN Neto(neta) ELSE Neto(neta) + Lado(O, iva - retenido)
    BY <1>5, <1>7
  <2>6. \A m \in {"debito", "credito"} : \A v \in Int :
          /\ Lado(m, v) \in Int /\ Lado(Otro(m), v) = -Lado(m, v)
    BY LadoEs
  <2> DEFINE z == Neto(s)
             a == Lado(O, iva)
             b == Lado(O, imp.retefuente) + Lado(O, imp.reteica)
             d == Lado(O, IF visto THEN 0 ELSE imp.iva)
  <2>7. z \in Int /\ a \in Int /\ b \in Int /\ d \in Int
    <3>1. (IF visto THEN 0 ELSE imp.iva) \in Int
      OBVIOUS
    <3>2. d \in Int
      BY <1>3, <2>6, <3>1
    <3>3. z \in Int /\ a \in Int /\ b \in Int
      <4>1. Lado(O, imp.retefuente) \in Int /\ Lado(O, imp.reteica) \in Int
        BY <1>3, <2>6
      <4>2. Lado(O, iva) \in Int
        BY <1>2, <1>3, <2>6
      <4> QED BY <1>10, <4>1, <4>2
    <3> QED BY <3>2, <3>3
  <2>8. Lado(O, iva - retenido) = a - b
    BY <1>2, <1>3 DEF Lado
  <2>9. Neto(L1) = -d /\ Neto(L2) + Neto(L3) = b
    <3>1. (IF visto THEN 0 ELSE imp.iva) \in Int
      OBVIOUS
    <3> QED BY <1>3, <2>4, <2>6, <3>1
  <2>10. CASE iva > 0
    <3>1. i # 0 /\ (dentro <=> visto) /\ imp.iva = iva
      BY <1>2, <2>1, <2>3, <2>10
    <3>2. d = IF visto THEN 0 ELSE a
      <4>1. Lado(O, 0) = 0
        BY <1>3, LadoEs
      <4> QED BY <3>1, <4>1
    <3>3. Neto(ajustada) = (IF visto THEN z - a ELSE z) + (a - b)
      BY <2>5, <2>8, <3>1
    <3> HIDE DEF z, a, b, d
    <3>4. Neto(ajustada) - d + b = z
      BY <2>7, <3>2, <3>3
    <3> QED BY <1>9, <1>8, <2>7, <2>9, <3>4, <3>3 DEF z
  <2>11. CASE ~(iva > 0)
    <3>1. ~dentro /\ iva = 0 /\ a = 0
      <4>1. iva = 0
        BY <1>2, <2>1, <2>11
      <4>2. ~dentro
        BY <2>2, <2>11
      <4>3. Lado(O, 0) = 0
        BY <1>3, LadoEs
      <4> QED BY <4>1, <4>2, <4>3
    <3>2. d = 0
      <4>1. (IF visto THEN 0 ELSE imp.iva) = 0
        BY <1>2, <3>1
      <4>2. Lado(O, 0) = 0
        BY <1>3, LadoEs
      <4> QED BY <4>1, <4>2
    <3>3. Neto(neta) = z
      BY <2>5, <3>1
    <3>4. CASE i # 0
      <4>1. Neto(ajustada) = z + (a - b)
        BY <2>5, <2>8, <3>3, <3>4
      <4> HIDE DEF z, a, b, d
      <4> QED BY <1>8, <1>9, <2>7, <2>9, <3>1, <3>2, <4>1 DEF z
    <3>5. CASE i = 0
      <4>1. retenido = 0 /\ imp.retefuente = 0 /\ imp.reteica = 0
        BY <1>2, <2>1, <2>3, <3>5
      <4>2. b = 0
        BY <4>1 DEF Lado
      <4>3. Neto(ajustada) = z
        BY <2>5, <3>3, <3>5
      <4> HIDE DEF z, a, b, d
      <4> QED BY <1>8, <1>9, <2>7, <2>9, <3>2, <4>2, <4>3 DEF z
    <3> QED BY <3>4, <3>5
  <2> QED BY <2>10, <2>11
<1> QED BY <1>9, <1>11

----------------------------------------------------------------------------
(***************************************************************************)
(* What the tables and the document say are numbers.                        *)
(***************************************************************************)

(* The smallest of some indices is one of them. *)
LEMMA MinimoEsta == \A T : T \subseteq Nat /\ T # {} => Min(T) \in T
<1> SUFFICES ASSUME NEW T, T \subseteq Nat, T # {}
             PROVE  Min(T) \in T
  OBVIOUS
<1>1. \E x \in T : \A y \in T : x <= y
  BY Minimo
<1> QED BY <1>1 DEF Min

(* The first line found, if any, is one of the lines. *)
LEMMA PrimeroEs ==
  ASSUME NEW s, s \in Seq(Range(s)), NEW I, I \subseteq 1..Len(s),
         NEW i, i = IF I # {} THEN Min(I) ELSE 0
  PROVE  (I = {} /\ i = 0) \/ (i \in I /\ i \in DOMAIN s /\ i # 0)
<1>1. Len(s) \in Nat /\ DOMAIN s = 1..Len(s)
  BY SeqEs
<1>2. I \subseteq Nat
  BY <1>1
<1>3. I # {} => Min(I) \in I
  BY <1>2, MinimoEsta
<1>4. CASE I = {}
  BY <1>4
<1>5. CASE I # {}
  <2>1. i \in I
    BY <1>3, <1>5
  <2>2. i \in 1..Len(s)
    BY <2>1
  <2> QED BY <1>1, <2>1, <2>2
<1> QED BY <1>4, <1>5

(* What the document says it withheld. *)
LEMMA RetencionEntera ==
  ASSUME NEW f, f.retenciones \in Seq(Range(f.retenciones)),
         \A i \in DOMAIN f.retenciones : f.retenciones[i].valor \in Int, NEW tipo
  PROVE  RetencionDe(f, tipo) \in Int
<1> DEFINE s == f.retenciones
           I == {k \in 1..Len(s) : s[k].tipo = tipo}
           i == IF I # {} THEN Min(I) ELSE 0
           r == IF i = 0 THEN <<>> ELSE <<s[i]>>
<1>1. RetencionDe(f, tipo) = IF r = <<>> THEN Nada ELSE r[1].valor
  BY DEF RetencionDe, Primero, SelectInSeq
<1>2. (I = {} /\ i = 0) \/ (i \in I /\ i \in DOMAIN s /\ i # 0)
  <2>1. I \subseteq 1..Len(s)
    OBVIOUS
  <2> HIDE DEF I
  <2> QED BY <2>1, PrimeroEs
<1>3. Nada \in Int
  BY DEF Nada
<1> HIDE DEF i
<1> QED BY <1>1, <1>2, <1>3

(* The IVA another line already books. *)
LEMMA IvaVistoEntero ==
  ASSUME NEW s, EsAsiento(s)
  PROVE  has_iva_in_asientos(s).valor \in Int
<1> DEFINE I == {k \in 1..Len(s) : EsIva(s[k].cuenta)}
           i == IF I # {} THEN Min(I) ELSE 0
           l == IF i = 0 THEN <<>> ELSE <<s[i]>>
<1>1. has_iva_in_asientos(s).valor = IF l = <<>> THEN 0 ELSE l[1].valor
  BY DEF has_iva_in_asientos, Primero, SelectInSeq
<1>2. (I = {} /\ i = 0) \/ (i \in I /\ i \in DOMAIN s /\ i # 0)
  <2>1. I \subseteq 1..Len(s) /\ s \in Seq(Range(s))
    BY AsientoEs
  <2> HIDE DEF I
  <2> QED BY <2>1, PrimeroEs
<1>3. \A k \in DOMAIN s : s[k].valor \in Int
  BY AsientoEs DEF EsLinea
<1> HIDE DEF i
<1> QED BY <1>1, <1>2, <1>3

(* Sums of the amounts of a sequence are numbers. *)
LEMMA SumaDeSeq ==
  ASSUME NEW s, s \in Seq(Range(s)), NEW f, DOMAIN f = DOMAIN s, \A i \in DOMAIN s : f[i] \in Int
  PROVE  SumFunction(f) \in Int
<1>1. IsFiniteSet(DOMAIN s)
  BY SeqEs
<1> QED BY <1>1, SumaDeFuncion, SumaEntera

(* The base, from the items or from the lines. *)
LEMMA BaseDeItemsEntera ==
  ASSUME NEW s, s \in Seq(Range(s)), \A i \in DOMAIN s : s[i].base \in Int
  PROVE  BaseDeItems(s) \in Int
<1> DEFINE f == [i \in DOMAIN s |-> IF s[i].marca = "gravado" THEN s[i].base ELSE 0]
           g == [i \in DOMAIN s |-> IF s[i].iva > 0 THEN s[i].base ELSE 0]
           mezcla == \E i, j \in DOMAIN s : s[i].iva > 0 /\ s[j].iva = 0
           marcas == \E i \in DOMAIN s : s[i].marca # ""
<1>1. BaseDeItems(s) = IF marcas /\ SumFunction(f) > 0 THEN SumFunction(f)
                       ELSE IF mezcla /\ SumFunction(g) > 0 THEN SumFunction(g) ELSE Nada
  BY Zenon DEF BaseDeItems, SumaSeq
<1> HIDE DEF marcas, mezcla
<1>2. SumFunction(f) \in Int
  <2>1. DOMAIN f = DOMAIN s /\ \A i \in DOMAIN s : f[i] \in Int
    OBVIOUS
  <2> HIDE DEF f
  <2> QED BY <2>1, SumaDeSeq
<1>3. SumFunction(g) \in Int
  <2>1. DOMAIN g = DOMAIN s /\ \A i \in DOMAIN s : g[i] \in Int
    OBVIOUS
  <2> HIDE DEF g
  <2> QED BY <2>1, SumaDeSeq
<1>4. Nada \in Int
  BY DEF Nada
<1> HIDE DEF f, g
<1> QED BY <1>1, <1>2, <1>3, <1>4

LEMMA BaseEntera ==
  ASSUME NEW s, EsAsiento(s), NEW fuente, fuente.base \in Int
  PROVE  BaseGravable(s, fuente) \in Int
<1> DEFINE neto(a) == a.mov = "debito" /\ ~Starts(a.cuenta, 2)
           f == [i \in DOMAIN s |-> IF neto(s[i]) THEN s[i].valor ELSE 0]
           g == [i \in DOMAIN s |-> IF s[i].mov = "debito" THEN s[i].valor ELSE 0]
           hay == \E i \in DOMAIN s : neto(s[i])
<1>1. BaseGravable(s, fuente) = IF fuente.base # Nada THEN fuente.base
                                ELSE IF hay THEN SumFunction(f) ELSE SumFunction(g)
  BY DEF BaseGravable, SumaMov, SumaSeq
<1>2. s \in Seq(Range(s)) /\ \A i \in DOMAIN s : s[i].valor \in Int
  BY AsientoEs DEF EsLinea
<1>3. SumFunction(f) \in Int
  <2>1. DOMAIN f = DOMAIN s /\ \A i \in DOMAIN s : f[i] \in Int
    BY <1>2
  <2> HIDE DEF f
  <2> QED BY <1>2, <2>1, SumaDeSeq
<1>4. SumFunction(g) \in Int
  <2>1. DOMAIN g = DOMAIN s /\ \A i \in DOMAIN s : g[i] \in Int
    BY <1>2
  <2> HIDE DEF g
  <2> QED BY <1>2, <2>1, SumaDeSeq
<1> HIDE DEF f, g, hay
<1> QED BY <1>1, <1>3, <1>4

(* What a table gives is one of its values or the default. *)
LEMMA ElegirEs == \A S, d : Elegir(S, d) \in S \/ Elegir(S, d) = d
  BY DEF Elegir

(* Rates of numbers are numbers. *)
LEMMA TarifaEntera == \A b \in Int, r \in Int : Tarifa(b, r) \in Int
  BY DEF Tarifa, Redondeo

(* The kinds of transaction a rate is looked up for. *)
Tipos == {"servicios", "bienes", "arrendamiento", "honorarios"}

(* The rates of a row of the settings. *)
SonTasas(s) ==
  s.servicios \in Int /\ s.bienes \in Int /\ s.arrendamiento \in Int /\ s.reteica \in Int /\ s.iva \in Int

(* The rate of every kind, and that of the city, is there and is a number. *)
LEMMA TasaEfectiva ==
  ASSUME NEW T, TablasEnteras(T), NEW s, SonTasas(s), NEW k \in Tipos
  PROVE  tasas_efectivas(T, s)[k] \in Int
<1> DEFINE ley == [servicios |-> s.servicios, bienes |-> s.bienes, arrendamiento |-> s.arrendamiento,
                   honorarios |-> TASA_HONORARIOS]
           S == get_effective_rate(T.propias, T.nacionales, k, Nada)
<1>1. ley[k] \in Int
  BY DEF SonTasas, Tipos, TASA_HONORARIOS
<1>2. \A v \in S : v \in Int
  BY DEF TablasEnteras, get_effective_rate, LaFila
<1>3. tasas_efectivas(T, s)[k] = Elegir(S, ley[k])
  BY DEF tasas_efectivas, Tipos
<1> HIDE DEF S, ley
<1> QED BY <1>1, <1>2, <1>3, ElegirEs

LEMMA TasaReteica ==
  ASSUME NEW T, TablasEnteras(T), NEW s, SonTasas(s)
  PROVE  tasa_reteica(T, s) \in Int
<1> DEFINE N == Niveles(T.reteicas, s.ciudad, s.seccion)
           S == get_reteica_tarifa(T.reteicas, s.ciudad, s.seccion)
           M == Municipal(T, s, get_reteica_tarifa)
<1>1. M \subseteq S
  BY Zenon DEF Municipal
<1>2. \A r \in T.reteicas : r.tasa \in Int
  BY DEF TablasEnteras
<1>3. /\ DOMAIN N = 1..3
      /\ \A i \in DOMAIN N : N[i] \subseteq T.reteicas
  BY DEF Niveles
<1>4. S \subseteq Int
  <2> DEFINE sirven == {i \in DOMAIN N : \E r \in N[i] : TRUE}
  <2>1. S = {r.tasa : r \in IF sirven = {} THEN {} ELSE {r \in N[Min(sirven)] : TRUE}}
    BY DEF get_reteica_tarifa, PrimerNivel
  <2>2. sirven # {} => Min(sirven) \in sirven
    <3>1. sirven \subseteq Nat
      BY <1>3
    <3> HIDE DEF sirven
    <3> QED BY <3>1, MinimoEsta
  <2> HIDE DEF N, S
  <2>3. ASSUME NEW v \in S
        PROVE  v \in Int
    <3>1. PICK r \in (IF sirven = {} THEN {} ELSE {r \in N[Min(sirven)] : TRUE}) : v = r.tasa
      BY <2>1
    <3>2. sirven # {} /\ r \in N[Min(sirven)]
      BY <3>1
    <3> QED BY <1>2, <1>3, <2>2, <3>1, <3>2
  <2> QED BY <2>3
<1>5. s.reteica \in Int
  BY DEF SonTasas
<1>6. tasa_reteica(T, s) = Elegir(M, s.reteica)
  BY DEF tasa_reteica
<1> HIDE DEF M, S
<1> QED BY <1>1, <1>4, <1>5, <1>6, ElegirEs

(* The categories of the table of accounts. *)
LEMMA CategoriaEs ==
  \A c : categoria_retencion_from_puc(c) \in {"servicios", "honorarios", "arrendamiento", "compras", SinCategoria}
<1> SUFFICES ASSUME NEW c
             PROVE  categoria_retencion_from_puc(c) \in {"servicios", "honorarios", "arrendamiento", "compras", SinCategoria}
  OBVIOUS
<1> DEFINE K == CATEGORIAS
           I == {k \in 1..Len(K) : Starts(c, K[k][1])}
           i == IF I # {} THEN Min(I) ELSE 0
           f == IF i = 0 THEN <<>> ELSE <<K[i]>>
<1>1. categoria_retencion_from_puc(c) = IF f = <<>> THEN SinCategoria ELSE f[1][2]
  BY DEF categoria_retencion_from_puc, Primero, SelectInSeq
<1>2. DOMAIN K = 1..13 /\ Len(K) = 13 /\ K \in Seq(Range(K)) /\ \A k \in 1..13 : K[k][2] \in {"servicios", "honorarios", "arrendamiento", "compras"}
  BY DEF CATEGORIAS, Range
<1>3. (I = {} /\ i = 0) \/ (i \in I /\ i \in DOMAIN K /\ i # 0)
  <2>1. I \subseteq 1..Len(K)
    OBVIOUS
  <2> HIDE DEF I, K
  <2> QED BY <1>2, <2>1, PrimeroEs
<1> HIDE DEF i, K
<1> QED BY <1>1, <1>2, <1>3

(* Every transaction is of one of the kinds with a rate. *)
LEMMA TipoEs ==
  ASSUME NEW s, EsAsiento(s), NEW doc
  PROVE  detect_transaction_type(s, doc) \in Tipos
<1> DEFINE cat(a) == categoria_retencion_from_puc(a.cuenta)
           tipo(a) == IF a.mov # "debito" THEN SinCategoria
                      ELSE IF a.texto \cap Arrendamiento # {} THEN "arrendamiento"
                      ELSE IF cat(a) = "compras" THEN "bienes"
                      ELSE IF cat(a) = SinCategoria /\ a.cuenta \in 5000..5999 THEN "servicios" ELSE cat(a)
           I == {k \in 1..Len(s) : tipo(s[k]) # SinCategoria}
           i == IF I # {} THEN Min(I) ELSE 0
           dice == IF i = 0 THEN <<>> ELSE <<s[i]>>
           P == <<<<Arrendamiento, "arrendamiento">>, <<{"honorario", "asesor"}, "honorarios">>,
                  <<{"servicio", "vigilan"}, "servicios">>, <<{"mercanc", "insumo"}, "bienes">>>>
           J == {k \in 1..Len(P) : P[k][1] \cap doc.texto # {}}
           j == IF J # {} THEN Min(J) ELSE 0
           oida == IF j = 0 THEN <<>> ELSE <<P[j]>>
<1>1. detect_transaction_type(s, doc) =
        IF dice # <<>> THEN tipo(dice[1])
        ELSE IF doc.tipo # "factura_compra" THEN "bienes" ELSE IF oida = <<>> THEN "servicios" ELSE oida[1][2]
  BY DEF detect_transaction_type, Primero, SelectInSeq
<1>2. \A a : tipo(a) # SinCategoria => tipo(a) \in Tipos
  <2> TAKE a
  <2>1. cat(a) \in {"servicios", "honorarios", "arrendamiento", "compras", SinCategoria}
    BY CategoriaEs
  <2> HIDE DEF cat
  <2> QED BY <2>1 DEF Tipos
<1>3. dice # <<>> => tipo(dice[1]) \in Tipos
  <2>1. (I = {} /\ i = 0) \/ (i \in I /\ i \in DOMAIN s /\ i # 0)
    <3>1. I \subseteq 1..Len(s) /\ s \in Seq(Range(s))
      BY AsientoEs
    <3> HIDE DEF I
    <3> QED BY <3>1, PrimeroEs
  <2> HIDE DEF i, tipo
  <2> QED BY <1>2, <2>1
<1>4. oida # <<>> => oida[1][2] \in Tipos
  <2>1. DOMAIN P = 1..4 /\ Len(P) = 4 /\ P \in Seq(Range(P)) /\ \A k \in 1..4 : P[k][2] \in Tipos
    BY DEF Range, Tipos
  <2>2. (J = {} /\ j = 0) \/ (j \in J /\ j \in DOMAIN P /\ j # 0)
    <3>1. J \subseteq 1..Len(P)
      OBVIOUS
    <3> HIDE DEF J, P
    <3> QED BY <2>1, <3>1, PrimeroEs
  <2> HIDE DEF j, P
  <2> QED BY <2>1, <2>2
<1>5. "bienes" \in Tipos /\ "servicios" \in Tipos
  BY DEF Tipos
<1> HIDE DEF dice, oida, tipo
<1> QED BY <1>1, <1>3, <1>4, <1>5

(* The withholding, from the document or from the rate. *)
LEMMA RetencionEs ==
  ASSUME NEW doc, NEW f, NEW tipo, RetencionDe(f, tipo) \in Int, NEW base \in Int, NEW minima, NEW tasa \in Int
  PROVE  Retencion(doc, f, tipo, base, minima, tasa) \in Int
<1>1. Tarifa(base, tasa) \in Int
  BY TarifaEntera
<1> QED BY <1>1 DEF Retencion

(* The taxes of a document are numbers. *)
LEMMA ImpuestosEnteros ==
  ASSUME NEW T, TablasEnteras(T), NEW s, SonTasas(s), NEW d \in Documentos,
         NEW a, EsAsiento(a), NEW minimas,
         NEW x, x = Impuestos(T, s, d, a, minimas)
  PROVE  x.base \in Int /\ x.iva \in Int /\ x.retefuente \in Int /\ x.reteica \in Int
<1> DEFINE f == extract_source_taxes(d)
           base == BaseGravable(a, f)
           tipo == detect_transaction_type(a, d)
           minima(k) == IF k = "honorarios" THEN 0 ELSE minimas[k] * uvt_efectiva(T)
           m1 == minima(tipo)
           m2 == minima("reteica")
<1>1. /\ f.base = BaseDeItems(d.items) /\ f.total_iva = d.total_iva /\ f.retenciones = d.retenciones
  BY DEF extract_source_taxes
<1>2. /\ d.items \in Seq(Range(d.items)) /\ \A i \in DOMAIN d.items : d.items[i].base \in Int
      /\ d.retenciones \in Seq(Range(d.retenciones)) /\ \A i \in DOMAIN d.retenciones : d.retenciones[i].valor \in Int
      /\ d.total_iva \in Int
  BY DocumentosAssumption
<1>3. x = [base |-> base, iva |-> ValorIva(d, f, s, a, base),
           retefuente |-> Retencion(d, f, "retefuente", base, m1, tasas_efectivas(T, s)[tipo]),
           reteica |-> Retencion(d, f, "reteica", base, m2, tasa_reteica(T, s))]
  BY DEF Impuestos
<1> HIDE DEF f, m1, m2
<1>4. base \in Int
  <2>1. f.base \in Int
    BY <1>1, <1>2, BaseDeItemsEntera
  <2> QED BY <2>1, BaseEntera
<1>5. tipo \in Tipos
  BY TipoEs
<1> HIDE DEF base, tipo
<1>6. ValorIva(d, f, s, a, base) \in Int
  <2>1. s.iva \in Int
    BY DEF SonTasas
  <2>2. Tarifa(base, s.iva) \in Int
    BY <1>4, <2>1, TarifaEntera
  <2>3. has_iva_in_asientos(a).valor \in Int
    BY IvaVistoEntero
  <2> QED BY <1>1, <1>2, <2>2, <2>3 DEF ValorIva
<1>7. RetencionDe(f, "retefuente") \in Int /\ RetencionDe(f, "reteica") \in Int
  BY <1>1, <1>2, RetencionEntera
<1>8. tasas_efectivas(T, s)[tipo] \in Int /\ tasa_reteica(T, s) \in Int
  BY <1>5, TasaEfectiva, TasaReteica
<1>9. Retencion(d, f, "retefuente", base, m1, tasas_efectivas(T, s)[tipo]) \in Int
  BY <1>4, <1>7, <1>8, RetencionEs
<1>10. Retencion(d, f, "reteica", base, m2, tasa_reteica(T, s)) \in Int
  BY <1>4, <1>7, <1>8, RetencionEs
<1> QED BY <1>3, <1>4, <1>6, <1>9, <1>10

(* The entry of a taxed document. *)
LEMMA GravarCuadra ==
  ASSUME NEW T, TablasEnteras(T), NEW s, SonTasas(s), NEW d \in Documentos,
         NEW a, EsAsiento(a), NEW minimas,
         NEW r, r = gravar(T, s, d, a, Impuestos(T, s, d, a, minimas)), ~r.error
  PROVE  /\ EsAsiento(r.asientos)
         /\ Coherente(a, d, r.salida) => Neto(r.asientos) = Neto(a)
<1> DEFINE x == Impuestos(T, s, d, a, minimas)
           u == enriquecer(a, d, x, CuentasDe(d, s))
           extra == apply_special_taxes(T, d, x.base)
           L == extra.lineas
<1>1. x.base \in Int /\ x.iva \in Int /\ x.retefuente \in Int /\ x.reteica \in Int
  BY ImpuestosEnteros
<1>2. r = IF u = <<>> THEN SinCambios(T, a, TRUE) ELSE Gravada(u, x, extra)
  BY DEF gravar
<1> HIDE DEF x, u
<1>3. u # <<>>
  BY <1>2 DEF SinCambios
<1>4. /\ r.asientos = u \o L
      /\ r.salida.base = x.base /\ r.salida.iva = x.iva
      /\ r.salida.retefuente = x.retefuente /\ r.salida.reteica = x.reteica
  BY <1>2, <1>3 DEF Gravada, Salida
<1>5. EsAsiento(u) /\ (Coherente(a, d, x) => Neto(u) = Neto(a))
  BY <1>1, <1>3, EnriquecerCuadra DEF u
<1>6. EsAsiento(L) /\ Neto(L) = 0
  <2> DEFINE E == {e \in list_active_special_taxes(T.especiales, d.tipo, Hoy) :
                     (e.solo_publica => d.publica) /\ Tarifa(x.base, e.tasa) > 0}
  <2>1. L = lineas_especiales(E, x.base)
    BY DEF apply_special_taxes
  <2>2. E \subseteq T.especiales /\ IsFiniteSet(T.especiales) /\ \A e \in T.especiales : e.tasa \in Int
    BY DEF list_active_special_taxes, TablasEnteras
  <2> HIDE DEF E
  <2>3. IsFiniteSet(E) /\ \A e \in E : e.tasa \in Int
    BY <2>2, FS_Subset
  <2> QED BY <1>1, <2>1, <2>3, EspecialesCuadran
<1> HIDE DEF L
<1>7. EsAsiento(u \o L) /\ Neto(u \o L) = Neto(u) + Neto(L) /\ Neto(u) \in Int
  BY <1>5, <1>6, AsientosJuntos, NetoJunto, SignosEnteros
<1>8. Coherente(a, d, r.salida) <=> Coherente(a, d, x)
  BY <1>4 DEF Coherente
<1> QED BY <1>4, <1>5, <1>6, <1>7, <1>8

(* And of any document: one without taxes, or without settings, is left as it came. *)
LEMMA TributarioCuadra ==
  ASSUME NEW T, TablasEnteras(T), NEW nit, NEW d \in Documentos,
         NEW a, EsAsiento(a), NEW minimas,
         NEW r, r = tributario_node(T, nit, d, a, minimas), ~r.error
  PROVE  /\ EsAsiento(r.asientos)
         /\ Coherente(a, d, r.salida) => Neto(r.asientos) = Neto(a)
<1> DEFINE filas == get_company_settings(T.settings, nit)
           q == CHOOSE r1 \in filas : TRUE
           s == [q EXCEPT !.cuenta_ica_propio = get_cuenta_ica_propio(T.settings, nit)]
<1>1. CASE SinImpuestos(d)
  <2>1. r = SinCambios(T, a, FALSE)
    BY <1>1 DEF tributario_node
  <2> QED BY <2>1 DEF SinCambios
<1>2. CASE ~SinImpuestos(d) /\ filas = {}
  <2>1. r = SinCambios(T, a, TRUE)
    BY <1>2 DEF tributario_node
  <2> QED BY <2>1 DEF SinCambios
<1>3. CASE ~SinImpuestos(d) /\ filas # {}
  <2>1. r = gravar(T, s, d, a, Impuestos(T, s, d, a, minimas))
    BY <1>3 DEF tributario_node
  <2>2. q \in T.settings
    BY <1>3 DEF get_company_settings
  <2>3. \A k \in {"servicios", "bienes", "arrendamiento", "reteica", "iva"} : k \in DOMAIN q /\ q[k] \in Int
    BY <2>2 DEF TablasEnteras
  <2> HIDE DEF q
  <2>4. SonTasas(s)
    BY <2>3 DEF SonTasas
  <2> HIDE DEF s
  <2> QED BY <2>1, <2>4, GravarCuadra
<1> QED BY <1>1, <1>2, <1>3

----------------------------------------------------------------------------
(***************************************************************************)
(* The lines of the contador, of db_persist and of the ingest.              *)
(***************************************************************************)

(* Numbers in order are the numbers of the set: those up to each are as many as
   its place. *)
Previos(I, i) == {j \in I : j <= i}
LEMMA EnOrdenEsta ==
  ASSUME NEW I, I \subseteq Nat, IsFiniteSet(I)
  PROVE  /\ Cardinality(I) \in Nat
         /\ EnOrden(I) = [k \in 1..Cardinality(I) |-> EnOrden(I)[k]]
         /\ \A k \in 1..Cardinality(I) : EnOrden(I)[k] \in I
<1> DEFINE n == Cardinality(I)
           N == 1..n
           f == [i \in I |-> Cardinality(Previos(I, i))]
<1>1. n \in Nat
  BY FS_CardinalityType
<1>2. \A i \in I : Previos(I, i) \subseteq I /\ IsFiniteSet(Previos(I, i)) /\ i \in Previos(I, i)
  <2> TAKE i \in I
  <2>1. Previos(I, i) \subseteq I /\ i \in Previos(I, i)
    BY DEF Previos
  <2> QED BY <2>1, FS_Subset
<1>3. \A i \in I : f[i] \in N
  <2> TAKE i \in I
  <2>1. Cardinality(Previos(I, i)) \in Nat /\ Cardinality(Previos(I, i)) <= n
    BY <1>2, FS_CardinalityType, FS_Subset
  <2>2. Cardinality(Previos(I, i)) # 0
    BY <1>2, FS_EmptySet
  <2> QED BY <1>1, <2>1, <2>2
<1>4. ASSUME NEW i \in I, NEW j \in I, i < j
      PROVE  f[i] # f[j]
  <2>0. i \in Int /\ j \in Int /\ \A k \in I : k \in Int
    OBVIOUS
  <2>1. Previos(I, i) \subseteq Previos(I, j) /\ j \in Previos(I, j) /\ j \notin Previos(I, i)
    <3>1. \A k \in I : k <= i => k <= j
      BY <1>4, <2>0
    <3>2. j <= j /\ ~(j <= i)
      BY <1>4, <2>0
    <3> QED BY <3>1, <3>2, Zenon DEF Previos
  <2>2. Cardinality(Previos(I, j)) = Cardinality(Previos(I, i)) => Previos(I, j) = Previos(I, i)
    BY <1>2, <2>1, FS_Subset
  <2> QED BY <2>1, <2>2
<1>5. \A i \in I, j \in I : f[i] = f[j] => i = j
  <2> SUFFICES ASSUME NEW i \in I, NEW j \in I, i # j
               PROVE  f[i] # f[j]
    OBVIOUS
  <2>1. i < j \/ j < i
    OBVIOUS
  <2> HIDE DEF f
  <2> QED BY <1>4, <2>1
<1>6. f \in [I -> N]
  BY <1>3
<1>7. IsFiniteSet(N) /\ Cardinality(N) = Cardinality(I)
  BY <1>1, FS_Interval
<1> HIDE DEF f
<1>8. f \in Injection(I, N)
  BY <1>5, <1>6 DEF Injection, IsInjective
<1>9. f \in Surjection(I, N)
  <2> HIDE DEF N
  <2> QED BY <1>7, <1>8, FS_Injection
<1>10. ASSUME NEW k \in N
       PROVE  EnOrden(I)[k] \in I
  <2>1. PICK i \in I : f[i] = k
    BY <1>9 DEF Surjection
  <2>2. Cardinality({j \in I : j <= i}) = k
    BY <2>1 DEF f, Previos
  <2>3. EnOrden(I)[k] = CHOOSE x \in I : Cardinality({j \in I : j <= x}) = k
    BY DEF EnOrden
  <2>4. (CHOOSE x \in I : Cardinality({j \in I : j <= x}) = k) \in I
    BY <2>2
  <2> QED BY <2>3, <2>4
<1>11. EnOrden(I) = [k \in 1..Cardinality(I) |-> EnOrden(I)[k]]
  <2> DEFINE g(k) == CHOOSE i \in I : Cardinality({j \in I : j <= i}) = k
  <2>1. EnOrden(I) = [k \in 1..Cardinality(I) |-> g(k)]
    BY DEF EnOrden
  <2> HIDE DEF g
  <2> QED BY <2>1
<1> QED BY <1>1, <1>10, <1>11

(* Another account leaves a line a line. *)
LEMMA OtraCuenta == \A a, c : EsLinea(a) => EsLinea([a EXCEPT !.cuenta = c])
<1> SUFFICES ASSUME NEW a, NEW c, EsLinea(a)
             PROVE  EsLinea([a EXCEPT !.cuenta = c])
  OBVIOUS
<1>1. PICK cuenta, mov, valor, texto :
        a = [cuenta |-> cuenta, mov |-> mov, valor |-> valor, texto |-> texto] /\ valor \in Int
  BY DEF EsLinea
<1> QED BY <1>1 DEF EsLinea

(* Each correction changes the account and nothing else. *)
LEMMA LineaCorregida ==
  ASSUME NEW a, EsLinea(a), NEW tipo
  PROVE  EsLinea(correct_class_only_codes(correct_ce_220505_credit(correct_5195_fallback(correct_cross_class_codes(
           correct_aux_codes_beyond_catalog(correct_non_numeric_puc(a)))), tipo)))
<1>1. \A x : EsLinea(x) => EsLinea(correct_non_numeric_puc(x))
  BY OtraCuenta DEF correct_non_numeric_puc
<1>2. \A x : EsLinea(x) => EsLinea(correct_aux_codes_beyond_catalog(x))
  BY OtraCuenta DEF correct_aux_codes_beyond_catalog
<1>3. \A x : EsLinea(x) => EsLinea(correct_cross_class_codes(x))
  BY OtraCuenta DEF correct_cross_class_codes
<1>4. \A x : EsLinea(x) => EsLinea(correct_5195_fallback(x))
  BY OtraCuenta DEF correct_5195_fallback
<1>5. \A x : EsLinea(x) => EsLinea(correct_ce_220505_credit(x, tipo))
  BY OtraCuenta DEF correct_ce_220505_credit
<1>6. \A x : EsLinea(x) => EsLinea(correct_class_only_codes(x))
  BY OtraCuenta DEF correct_class_only_codes
<1> QED BY <1>1, <1>2, <1>3, <1>4, <1>5, <1>6

(* Line by line, a sequence of lines gives another. *)
LEMMA LineaALinea ==
  ASSUME NEW s, s \in Seq(Range(s)), NEW u, u = [i \in DOMAIN s |-> u[i]], \A i \in DOMAIN s : EsLinea(u[i])
  PROVE  EsAsiento(u) /\ DOMAIN u = DOMAIN s
<1>1. Len(s) \in Nat /\ DOMAIN s = 1..Len(s)
  BY SeqEs
<1>2. u \in Seq(Range(u)) /\ DOMAIN u = DOMAIN s
  BY <1>1, EsSeq
<1> QED BY <1>2, AsientoEs

(* So the corrected lines are lines, *)
LEMMA Corregidos ==
  ASSUME NEW s, EsAsiento(s), NEW tipo
  PROVE  EsAsiento(correct_asiento_lines(s, tipo))
<1> DEFINE g(a) == correct_class_only_codes(correct_ce_220505_credit(correct_5195_fallback(correct_cross_class_codes(
                     correct_aux_codes_beyond_catalog(correct_non_numeric_puc(a)))), tipo))
           u == correct_asiento_lines(s, tipo)
<1>1. u = [i \in DOMAIN s |-> g(s[i])]
  BY DEF correct_asiento_lines
<1>2. s \in Seq(Range(s)) /\ \A i \in DOMAIN s : EsLinea(s[i])
  BY AsientoEs
<1>3. \A i \in DOMAIN s : EsLinea(g(s[i]))
  BY <1>2, LineaCorregida
<1> HIDE DEF g, u
<1>4. u = [i \in DOMAIN s |-> u[i]] /\ \A i \in DOMAIN s : EsLinea(u[i])
  BY <1>1, <1>3
<1>5. EsAsiento(u)
  BY <1>2, <1>4, LineaALinea
<1> QED BY <1>5 DEF u

(* also those of a sale. *)
LEMMA IngresosValidados ==
  ASSUME NEW s, EsAsiento(s)
  PROVE  EsAsiento(validate_ingreso_against_catalog(s))
<1> DEFINE padres == {Recorte(c, 4) : c \in CatalogoVentas}
           otra(a) == a.mov = "credito" /\ Starts(a.cuenta, 4) /\ a.cuenta \notin CatalogoVentas
                        /\ Recorte(a.cuenta, 4) \in padres
           g(a) == IF otra(a) THEN [a EXCEPT !.cuenta = Recorte(a.cuenta, 4)] ELSE a
           u == validate_ingreso_against_catalog(s)
<1>1. u = [i \in DOMAIN s |-> g(s[i])]
  BY DEF validate_ingreso_against_catalog
<1>2. s \in Seq(Range(s)) /\ \A i \in DOMAIN s : EsLinea(s[i])
  BY AsientoEs
<1>3. \A i \in DOMAIN s : EsLinea(g(s[i]))
  <2> HIDE DEF otra
  <2> QED BY <1>2, OtraCuenta
<1> HIDE DEF g, u
<1>4. u = [i \in DOMAIN s |-> u[i]] /\ \A i \in DOMAIN s : EsLinea(u[i])
  BY <1>1, <1>3
<1>5. EsAsiento(u)
  BY <1>2, <1>4, LineaALinea
<1> QED BY <1>5 DEF u

(* A journal, line by line. *)
LEMMA DiarioEs ==
  ASSUME NEW j, EsDiario(j)
  PROVE  /\ j \in Seq(Range(j)) /\ Len(j) \in Nat /\ DOMAIN j = 1..Len(j) /\ IsFiniteSet(DOMAIN j)
         /\ \A i \in DOMAIN j : j[i].debito \in Int /\ j[i].credito \in Int
  BY SeqEs DEF EsDiario

(* Some lines of a sequence, in their order. *)
LEMMA EnSuOrden ==
  ASSUME NEW s, s \in Seq(Range(s)), NEW I, I \subseteq DOMAIN s
  PROVE  /\ Cardinality(I) \in Nat /\ DOMAIN EnOrden(I) = 1..Cardinality(I)
         /\ \A k \in 1..Cardinality(I) : EnOrden(I)[k] \in DOMAIN s
<1>1. Len(s) \in Nat /\ DOMAIN s = 1..Len(s) /\ IsFiniteSet(DOMAIN s)
  BY SeqEs
<1>2. I \subseteq Nat /\ IsFiniteSet(I)
  BY <1>1, FS_Subset
<1>3. /\ Cardinality(I) \in Nat
      /\ EnOrden(I) = [k \in 1..Cardinality(I) |-> EnOrden(I)[k]]
      /\ \A k \in 1..Cardinality(I) : EnOrden(I)[k] \in I
  BY <1>2, EnOrdenEsta
<1> DEFINE o == EnOrden(I)
<1> HIDE DEF o
<1>4. DOMAIN o = 1..Cardinality(I)
  BY <1>3 DEF o
<1> QED BY <1>3, <1>4 DEF o

(* The asientos printed on the document. *)
LEMMA ImpresoEs ==
  ASSUME NEW j, EsDiario(j)
  PROVE  EsAsiento(extract_prearmed_asientos(j))
<1> DEFINE I == {i \in DOMAIN j : j[i].cuenta # 0 /\ (j[i].debito # 0 \/ j[i].credito # 0)}
           o == EnOrden(I)
           U == [k \in DOMAIN o |-> j[o[k]]]
           cuadra == SumaSeq(U, LAMBDA l : l.debito) = SumaSeq(U, LAMBDA l : l.credito)
           signos == \A i \in DOMAIN j : j[i].debito >= 0 /\ j[i].credito >= 0
           a == [i \in DOMAIN U |->
                  [cuenta |-> U[i].cuenta, texto |-> U[i].texto,
                   mov |-> IF U[i].debito > 0 THEN "debito" ELSE "credito",
                   valor |-> IF U[i].debito > 0 THEN U[i].debito ELSE U[i].credito]]
<1>1. extract_prearmed_asientos(j) = IF ~cuadra \/ ~signos THEN <<>> ELSE a
  BY DEF extract_prearmed_asientos
<1>2. j \in Seq(Range(j)) /\ \A i \in DOMAIN j : j[i].debito \in Int /\ j[i].credito \in Int
  BY DiarioEs
<1>3. /\ Cardinality(I) \in Nat /\ DOMAIN o = 1..Cardinality(I)
      /\ \A k \in 1..Cardinality(I) : o[k] \in DOMAIN j
  <2>1. I \subseteq DOMAIN j
    OBVIOUS
  <2> HIDE DEF I
  <2> QED BY <1>2, <2>1, EnSuOrden
<1> HIDE DEF o, I, cuadra, signos
<1>4. /\ DOMAIN U = 1..Cardinality(I)
      /\ \A k \in 1..Cardinality(I) : U[k].debito \in Int /\ U[k].credito \in Int
  BY <1>2, <1>3
<1> HIDE DEF U
<1>5. a = [i \in 1..Cardinality(I) |-> a[i]] /\ \A i \in 1..Cardinality(I) : EsLinea(a[i])
  BY <1>4 DEF EsLinea
<1> HIDE DEF a
<1>6. EsAsiento(a)
  <2>1. a \in Seq(Range(a)) /\ DOMAIN a = 1..Cardinality(I)
    BY <1>3, <1>5, EsSeq
  <2> QED BY <1>5, <2>1, AsientoEs
<1> QED BY <1>1, <1>6, NetoDeNinguna

(* The lines db_persist takes are lines of the entry, *)
LEMMA SuyasEs ==
  ASSUME NEW s, EsAsiento(s), NEW total
  PROVE  EsAsiento(asientos_for_tx(total, s, {}).lineas)
<1> DEFINE sirve(i, mov) == s[i].mov = mov /\ Absolute(s[i].valor - total) < 1 /\ i \notin {}
           d == {i \in DOMAIN s : sirve(i, "debito")}
           h == {i \in DOMAIN s : sirve(i, "credito")}
<1>1. asientos_for_tx(total, s, {}).lineas = IF d # {} /\ h # {} THEN <<s[Min(d)], s[Min(h)]>> ELSE s
  BY DEF asientos_for_tx
<1>2. DOMAIN s \subseteq Nat /\ \A i \in DOMAIN s : EsLinea(s[i])
  <2>1. s \in Seq(Range(s)) /\ \A i \in DOMAIN s : EsLinea(s[i])
    BY AsientoEs
  <2>2. Len(s) \in Nat /\ DOMAIN s = 1..Len(s)
    BY <2>1, SeqEs
  <2> QED BY <2>1, <2>2
<1>3. d \subseteq DOMAIN s /\ h \subseteq DOMAIN s
  OBVIOUS
<1> HIDE DEF d, h
<1>4. CASE d # {} /\ h # {}
  <2>1. Min(d) \in d /\ Min(h) \in h
    BY <1>2, <1>3, <1>4, MinimoEsta
  <2> DEFINE u == <<s[Min(d)], s[Min(h)]>>
  <2>2. u = [i \in 1..2 |-> u[i]] /\ \A i \in 1..2 : EsLinea(u[i])
    BY <1>2, <1>3, <2>1
  <2> HIDE DEF u
  <2>3. EsAsiento(u)
    <3>1. u \in Seq(Range(u)) /\ DOMAIN u = 1..2
      BY <2>2, EsSeq
    <3> QED BY <2>2, <3>1, AsientoEs
  <2> QED BY <1>1, <1>4, <2>3 DEF u
<1> QED BY <1>1, <1>4

(* and so are those it keeps. *)
LEMMA SaneadosEs ==
  ASSUME NEW s, EsAsiento(s)
  PROVE  EsAsiento(sanitize_asientos(s))
<1> DEFINE I == {i \in DOMAIN s : ~(s[i].cuenta = 0 /\ "encabezado" \in s[i].texto)}
           o == EnOrden(I)
           fila(a) == IF a.cuenta = 0 THEN [a EXCEPT !.cuenta = OtrosGastos] ELSE a
           u == [k \in DOMAIN o |-> fila(s[o[k]])]
<1>1. sanitize_asientos(s) = u
  BY DEF sanitize_asientos
<1>2. s \in Seq(Range(s)) /\ \A i \in DOMAIN s : EsLinea(s[i])
  BY AsientoEs
<1>3. /\ Cardinality(I) \in Nat /\ DOMAIN o = 1..Cardinality(I)
      /\ \A k \in 1..Cardinality(I) : o[k] \in DOMAIN s
  <2>1. I \subseteq DOMAIN s
    OBVIOUS
  <2> HIDE DEF I
  <2> QED BY <1>2, <2>1, EnSuOrden
<1> HIDE DEF o, I
<1>4. \A k \in 1..Cardinality(I) : EsLinea(fila(s[o[k]]))
  BY <1>2, <1>3, OtraCuenta
<1> HIDE DEF fila
<1>5. u = [k \in 1..Cardinality(I) |-> u[k]] /\ \A k \in 1..Cardinality(I) : EsLinea(u[k])
  BY <1>3, <1>4
<1> HIDE DEF u
<1>6. EsAsiento(u)
  <2>1. u \in Seq(Range(u)) /\ DOMAIN u = 1..Cardinality(I)
    BY <1>3, <1>5, EsSeq
  <2> QED BY <1>5, <2>1, AsientoEs
<1> QED BY <1>1, <1>6

(* The debits of a journal less its credits, and what it is to balance. *)
DeLados(j) == [i \in DOMAIN j |-> j[i].debito - j[i].credito]
NetoDiario(j) == SumFunctionOnSet(DeLados(j), DOMAIN j)
Asentable(j) == EsDiario(j) /\ Absolute(NetoDiario(j)) <= 1

(* It is a number. *)
LEMMA DiferenciaEntera ==
  ASSUME NEW j, EsDiario(j)
  PROVE  /\ \A i \in DOMAIN j : DeLados(j)[i] = j[i].debito - j[i].credito /\ DeLados(j)[i] \in Int
         /\ IsFiniteSet(DOMAIN j) /\ NetoDiario(j) \in Int
<1>1. IsFiniteSet(DOMAIN j) /\ \A i \in DOMAIN j : j[i].debito \in Int /\ j[i].credito \in Int
  BY DiarioEs
<1>2. \A i \in DOMAIN j : DeLados(j)[i] = j[i].debito - j[i].credito /\ DeLados(j)[i] \in Int
  BY <1>1 DEF DeLados
<1> QED BY <1>1, <1>2, SumaEntera DEF NetoDiario

(* What the builder lets through balances. *)
LEMMA ValidadoCuadra ==
  ASSUME NEW j, EsDiario(j), validate_balance(j) # ValueError
  PROVE  validate_balance(j) = j /\ Asentable(j)
<1>1. validate_balance(j) = IF Absolute(NetoDiario(j)) > 1 THEN ValueError ELSE j
  <2>1. SumaSeq(j, LAMBDA l : l.debito - l.credito) = SumFunction(DeLados(j))
    BY DEF SumaSeq, DeLados
  <2>2. DOMAIN DeLados(j) = DOMAIN j
    BY DEF DeLados
  <2>3. SumFunction(DeLados(j)) = NetoDiario(j)
    BY <2>2, SumaDeFuncion DEF NetoDiario
  <2>4. validate_balance(j) = IF Absolute(SumFunction(DeLados(j))) > 1 THEN ValueError ELSE j
    BY DEF validate_balance, SumaSeq, DeLados
  <2> QED BY <2>3, <2>4
<1>2. Absolute(NetoDiario(j)) \in Int
  BY DiferenciaEntera DEF Absolute
<1> HIDE DEF ValueError
<1> QED BY <1>1, <1>2 DEF Asentable

(* The journal of the contador. *)
LEMMA DelContador ==
  ASSUME NEW s, EsAsiento(s), NEW j, j = build_from_contador(s), j # ValueError
  PROVE  Asentable(j)
<1> DEFINE u == [i \in DOMAIN s |->
         [cuenta |-> s[i].cuenta, debito |-> IF s[i].mov = "debito" THEN s[i].valor ELSE 0,
          credito |-> IF s[i].mov = "credito" THEN s[i].valor ELSE 0]]
<1>1. j = IF \E i \in DOMAIN s : s[i].valor < 0 THEN ValueError ELSE validate_balance(u)
  BY DEF build_from_contador
<1>2. s \in Seq(Range(s)) /\ \A i \in DOMAIN s : s[i].valor \in Int
  BY AsientoEs DEF EsLinea
<1>3. Len(s) \in Nat /\ DOMAIN s = 1..Len(s)
  BY <1>2, SeqEs
<1>4. u = [i \in 1..Len(s) |-> u[i]] /\ \A i \in 1..Len(s) : u[i].debito \in Int /\ u[i].credito \in Int
  BY <1>2, <1>3
<1> HIDE DEF u
<1>5. EsDiario(u)
  <2>1. u \in Seq(Range(u)) /\ DOMAIN u = 1..Len(s)
    BY <1>3, <1>4, EsSeq
  <2> QED BY <1>4, <2>1 DEF EsDiario
<1>6. j = validate_balance(u)
  BY <1>1
<1> QED BY <1>5, <1>6, ValidadoCuadra

----------------------------------------------------------------------------
(* The builder of the ingest. *)

(* A line of the builder. *)
LEMMA RenglonEs ==
  ASSUME NEW c, NEW d \in Int, NEW h \in Int
  PROVE  EsDiario(Renglon(c, d, h))
<1> DEFINE a == [cuenta |-> c, debito |-> d, credito |-> h]
           u == <<a>>
<1>1. EsDiario(u)
  <2>1. u = [i \in 1..1 |-> u[i]] /\ \A i \in 1..1 : u[i] = a
    OBVIOUS
  <2> HIDE DEF u
  <2>2. u \in Seq(Range(u)) /\ DOMAIN u = 1..1
    BY <2>1, EsSeq
  <2> QED BY <2>1, <2>2 DEF EsDiario
<1>2. EsDiario(<<>>)
  <2>1. <<>> \in Seq(Range(<<>>))
    BY EmptySeq
  <2> QED BY <2>1 DEF EsDiario
<1> HIDE DEF u
<1>3. Renglon(c, d, h) = IF d > 0 \/ h > 0 THEN u ELSE <<>>
  BY DEF Renglon, u
<1> QED BY <1>1, <1>2, <1>3

(* Journals one after the other. *)
LEMMA DiariosJuntos ==
  ASSUME NEW s, EsDiario(s), NEW u, EsDiario(u)
  PROVE  EsDiario(s \o u)
<1> DEFINE Es(x) == x.debito \in Int /\ x.credito \in Int
<1>1. s \in Seq(Range(s)) /\ u \in Seq(Range(u)) /\ (\A i \in DOMAIN s : Es(s[i])) /\ (\A i \in DOMAIN u : Es(u[i]))
  BY DEF EsDiario
<1>2. Len(s) \in Nat /\ DOMAIN s = 1..Len(s) /\ Len(u) \in Nat /\ DOMAIN u = 1..Len(u)
  BY <1>1, SeqEs
<1> DEFINE r == s \o u
<1>3. /\ r \in Seq(Range(r)) /\ DOMAIN r = 1..(Len(s) + Len(u))
      /\ \A i \in 1..Len(s) : r[i] = s[i]
      /\ \A i \in 1..Len(u) : r[Len(s) + i] = u[i]
  BY <1>1, SeqJuntas
<1> HIDE DEF r, Es
<1>4. ASSUME NEW i \in DOMAIN r
      PROVE  Es(r[i])
  <2>1. CASE i <= Len(s)
    BY <1>1, <1>2, <1>3, <2>1
  <2>2. CASE ~(i <= Len(s))
    <3>1. i - Len(s) \in 1..Len(u) /\ Len(s) + (i - Len(s)) = i
      BY <1>2, <1>3, <2>2
    <3> QED BY <1>1, <1>2, <1>3, <3>1
  <2> QED BY <2>1, <2>2
<1>5. EsDiario(r)
  BY <1>3, <1>4 DEF EsDiario, Es
<1> QED BY <1>5 DEF r

(* The journals of purchases and of sales. *)
LEMMA DelIngest ==
  ASSUME NEW tipo, NEW cuenta, NEW m, NEW ica,
         m.total \in Int, m.iva \in Int, m.retefuente \in Int, m.reteica \in Int,
         NEW j, j = build_from_ingest(tipo, cuenta, m, ica), j # ValueError
  PROVE  Asentable(j)
<1> DEFINE base == m.total - m.iva
           neto == m.total - m.retefuente - m.reteica
           V == build_from_ingest_venta(cuenta, m)
           C == build_from_ingest_compra(cuenta, m, ica)
           negativo == \E k \in DOMAIN m : m[k] < 0
<1>1. base \in Int /\ neto \in Int /\ Positivo(base) \in Int
  BY DEF Positivo
<1>2. EsDiario(V)
  <2> DEFINE a == Renglon(130505, neto, 0)
             b == Renglon(135515, m.retefuente, 0)
             c == Renglon(135517, m.reteica, 0)
             d == Renglon(cuenta, 0, Positivo(base))
             e == Renglon(240805, 0, m.iva)
  <2>1. EsDiario(a) /\ EsDiario(b) /\ EsDiario(c) /\ EsDiario(d) /\ EsDiario(e)
    <3> HIDE DEF base, neto
    <3> QED BY <1>1, RenglonEs
  <2>2. V = a \o b \o c \o d \o e
    BY DEF build_from_ingest_venta
  <2> HIDE DEF a, b, c, d, e
  <2>3. EsDiario(a \o b)
    BY <2>1, DiariosJuntos
  <2>4. EsDiario(a \o b \o c)
    BY <2>1, <2>3, DiariosJuntos
  <2>5. EsDiario(a \o b \o c \o d)
    BY <2>1, <2>4, DiariosJuntos
  <2>6. EsDiario(a \o b \o c \o d \o e)
    BY <2>1, <2>5, DiariosJuntos
  <2> QED BY <2>2, <2>6
<1>3. EsDiario(C)
  <2> DEFINE a == Renglon(cuenta, Positivo(base), 0)
             b == Renglon(240802, m.iva, 0)
             c == Renglon(220505, 0, neto)
             d == Renglon(2365, 0, m.retefuente)
             e == Renglon(ica, 0, m.reteica)
  <2>1. EsDiario(a) /\ EsDiario(b) /\ EsDiario(c) /\ EsDiario(d) /\ EsDiario(e)
    <3> HIDE DEF base, neto
    <3> QED BY <1>1, RenglonEs
  <2>2. C = a \o b \o c \o d \o e
    BY DEF build_from_ingest_compra
  <2> HIDE DEF a, b, c, d, e
  <2>3. EsDiario(a \o b)
    BY <2>1, DiariosJuntos
  <2>4. EsDiario(a \o b \o c)
    BY <2>1, <2>3, DiariosJuntos
  <2>5. EsDiario(a \o b \o c \o d)
    BY <2>1, <2>4, DiariosJuntos
  <2>6. EsDiario(a \o b \o c \o d \o e)
    BY <2>1, <2>5, DiariosJuntos
  <2> QED BY <2>2, <2>6
<1> HIDE DEF V, C
<1>4. j = validate_balance(IF tipo \in VENTA_DOC_TYPES THEN V ELSE C)
  BY DEF build_from_ingest, V, C
<1>5. CASE tipo \in VENTA_DOC_TYPES
  BY <1>2, <1>4, <1>5, ValidadoCuadra
<1>6. CASE tipo \notin VENTA_DOC_TYPES
  BY <1>3, <1>4, <1>6, ValidadoCuadra
<1> QED BY <1>5, <1>6

(* A bank statement turned around is as far from balance as before. *)
LEMMA LineasDelIngest ==
  ASSUME NEW tipo, NEW cuenta, NEW m, NEW ica, NEW existentes, NEW entrada, NEW texto,
         m.total \in Int, m.iva \in Int, m.retefuente \in Int, m.reteica \in Int,
         NEW j, j = lineas_ingest(tipo, cuenta, m, ica, existentes, entrada, texto), j # ValueError, j # <<>>
  PROVE  Asentable(j)
<1> DEFINE c == IF cuenta = 0 THEN OtrosGastos ELSE cuenta
           propio == IF c \in {5195, OtrosGastos} /\ suggest_puc(texto) # 0 THEN suggest_puc(texto) ELSE c
           b == build_from_ingest(tipo, c, m, ica)
           banco(x) == IF tipo \in BANK_OUTFLOW /\ x.cuenta = 220505 /\ x.credito > 0 THEN 111005 ELSE x.cuenta
           vuelta == tipo = "extracto_bancario" /\ entrada
           otra(x) == IF banco(x) \in {5195, OtrosGastos} /\ c \in {5195, OtrosGastos}
                      THEN (IF propio = c THEN banco(x) ELSE propio) ELSE banco(x)
           u == [i \in DOMAIN b |->
                  [cuenta |-> otra(b[i]),
                   debito |-> IF vuelta THEN b[i].credito ELSE b[i].debito,
                   credito |-> IF vuelta THEN b[i].debito ELSE b[i].credito]]
<1>1. j = IF cuenta = 0 /\ ~existentes THEN <<>> ELSE IF b = ValueError THEN ValueError ELSE u
  BY DEF lineas_ingest
<1> HIDE DEF b, otra, c, vuelta
<1>2. j = u /\ b # ValueError
  BY <1>1
<1>3. Asentable(b)
  BY <1>2, DelIngest DEF b
<1>4. EsDiario(b) /\ Absolute(NetoDiario(b)) <= 1
  BY <1>3 DEF Asentable
<1>5. Len(b) \in Nat /\ DOMAIN b = 1..Len(b) /\ \A i \in DOMAIN b : b[i].debito \in Int /\ b[i].credito \in Int
  BY <1>4, DiarioEs
<1>6. /\ u = [i \in 1..Len(b) |-> u[i]]
      /\ \A i \in 1..Len(b) : /\ u[i].debito \in Int /\ u[i].credito \in Int
                              /\ u[i].debito - u[i].credito = IF vuelta THEN b[i].credito - b[i].debito
                                                                        ELSE b[i].debito - b[i].credito
  BY <1>5
<1> HIDE DEF u
<1>7. EsDiario(u) /\ DOMAIN u = DOMAIN b
  <2>1. u \in Seq(Range(u)) /\ DOMAIN u = 1..Len(b)
    BY <1>5, <1>6, EsSeq
  <2> QED BY <1>5, <1>6, <2>1 DEF EsDiario
<1>8. /\ \A i \in DOMAIN b : DeLados(b)[i] = b[i].debito - b[i].credito /\ DeLados(b)[i] \in Int
      /\ IsFiniteSet(DOMAIN b) /\ NetoDiario(b) \in Int
      /\ \A i \in DOMAIN b : DeLados(u)[i] = u[i].debito - u[i].credito
  BY <1>4, <1>7, DiferenciaEntera
<1>9. NetoDiario(u) = IF vuelta THEN 0 - NetoDiario(b) ELSE NetoDiario(b)
  <2>1. CASE ~vuelta
    <3>1. \A i \in DOMAIN b : DeLados(u)[i] = DeLados(b)[i]
      BY <1>5, <1>6, <1>8, <2>1
    <3> QED BY <1>7, <1>8, <2>1, <3>1, SumaIgual DEF NetoDiario
  <2>2. CASE vuelta
    <3> DEFINE Z == [i \in DOMAIN b |-> 0]
    <3>1. \A i \in DOMAIN b : Z[i] \in Int /\ Z[i] = 0 /\ DeLados(b)[i] \in Int /\ DeLados(u)[i] = Z[i] - DeLados(b)[i]
      <4> TAKE i \in DOMAIN b
      <4> DEFINE p == b[i].debito
                 q == b[i].credito
                 v == DeLados(u)[i]
                 w == DeLados(b)[i]
      <4>1. p \in Int /\ q \in Int
        BY <1>5
      <4>2. w = p - q
        BY <1>8
      <4>3. v = q - p
        BY <1>5, <1>6, <1>8, <2>2
      <4> HIDE DEF p, q, v, w
      <4>4. w \in Int /\ v = 0 - w
        BY <4>1, <4>2, <4>3
      <4>5. Z[i] = 0
        OBVIOUS
      <4> HIDE DEF Z
      <4> QED BY <4>4, <4>5 DEF v, w
    <3> HIDE DEF Z
    <3>2. SumFunctionOnSet(DeLados(u), DOMAIN b) = SumFunctionOnSet(Z, DOMAIN b) - SumFunctionOnSet(DeLados(b), DOMAIN b)
      BY <1>8, <3>1, SumaDiferencia
    <3>3. SumFunctionOnSet(Z, DOMAIN b) = 0
      BY <1>8, <3>1, SumaCero
    <3> QED BY <1>7, <2>2, <3>2, <3>3 DEF NetoDiario
  <2> QED BY <2>1, <2>2
<1>10. Absolute(NetoDiario(u)) <= 1
  <2> DEFINE x == NetoDiario(b)
             y == NetoDiario(u)
  <2>1. x \in Int /\ Absolute(x) <= 1 /\ (y = x \/ y = 0 - x)
    BY <1>4, <1>8, <1>9
  <2> HIDE DEF x, y
  <2>2. Absolute(y) <= 1
    BY <2>1 DEF Absolute
  <2> QED BY <2>2 DEF y
<1> QED BY <1>2, <1>7, <1>10 DEF Asentable

(* The lines of one entry on the books. *)
RenglonDe(e, n) ==
  [cuenta |-> e.lineas[n].cuenta, debito |-> e.lineas[n].debito, credito |-> e.lineas[n].credito,
   fecha |-> e.doc.fecha, tercero |-> e.doc.tercero, tipoIva |-> e.tipoIva, concepto |-> e.concepto,
   doc |-> e.doc.id, n |-> n]

LEMMA LineasDeUna == \A e : Lineas({e}) = {RenglonDe(e, n) : n \in DOMAIN e.lineas}
  BY DEF Lineas, RenglonDe

(* On the books the entry is as far from balance as its journal. *)
LEMMA EnElLibro ==
  ASSUME NEW e, EsDiario(e.lineas)
  PROVE  Debitos(Lineas({e})) - Creditos(Lineas({e})) = NetoDiario(e.lineas)
<1> DEFINE j == e.lineas
           K == DOMAIN j
           R == [n \in K |-> RenglonDe(e, n)]
           L == Lineas({e})
           F == [l \in L |-> l.debito]
           G == [l \in L |-> l.credito]
           H == NetoDe(L)
           p == [l \in L |-> l.n]
<1>1. /\ \A i \in K : DeLados(j)[i] = j[i].debito - j[i].credito /\ DeLados(j)[i] \in Int
      /\ IsFiniteSet(K)
  BY DiferenciaEntera
<1>2. \A i \in K : j[i].debito \in Int /\ j[i].credito \in Int
  BY DiarioEs
<1>3. L = {R[n] : n \in K}
  BY LineasDeUna
<1>4. \A n \in K : R[n].n = n /\ R[n].debito = j[n].debito /\ R[n].credito = j[n].credito
  BY DEF RenglonDe
<1> HIDE DEF R, L, j
<1>5. IsFiniteSet(L)
  <2> HIDE DEF K
  <2> QED BY <1>1, <1>3, ImagenFinita
<1>6. ASSUME NEW l \in L
      PROVE  /\ p[l] \in K /\ l = R[p[l]]
             /\ F[l] \in Int /\ G[l] \in Int /\ H[l] = F[l] - G[l]
             /\ H[l] \in Int /\ H[l] = DeLados(j)[p[l]]
  <2>1. PICK n \in K : l = R[n]
    BY <1>3
  <2>2. l.n = n /\ l.debito = j[n].debito /\ l.credito = j[n].credito
    BY <1>4, <2>1
  <2>3. p[l] = n /\ F[l] = j[n].debito /\ G[l] = j[n].credito /\ H[l] = j[n].debito - j[n].credito
    BY <2>2 DEF NetoDe
  <2> HIDE DEF p, F, G, H
  <2> QED BY <1>1, <1>2, <2>1, <2>3
<1>7. /\ \A x \in L, y \in L : p[x] = p[y] => x = y
      /\ \A k \in K : \E x \in L : p[x] = k
  <2>1. \A x \in L, y \in L : p[x] = p[y] => x = y
    <3> HIDE DEF p
    <3> QED BY <1>6
  <2>2. \A k \in K : R[k] \in L /\ p[R[k]] = k
    BY <1>3, <1>4
  <2> QED BY <2>1, <2>2
<1>8. Debitos(L) = SumFunctionOnSet(F, L) /\ Creditos(L) = SumFunctionOnSet(G, L)
  <2>1. DOMAIN F = L /\ DOMAIN G = L /\ Debitos(L) = SumFunction(F) /\ Creditos(L) = SumFunction(G)
    BY DEF Debitos, Creditos
  <2> HIDE DEF F, G
  <2> QED BY <2>1, SumaDeFuncion
<1> HIDE DEF F, G, H, p, K
<1>9. SumFunctionOnSet(H, L) = SumFunctionOnSet(F, L) - SumFunctionOnSet(G, L)
  BY <1>5, <1>6, SumaDiferencia
<1>10. SumFunctionOnSet(DeLados(j), K) = SumFunctionOnSet(H, L)
  <2> DEFINE D == DeLados(j)
  <2>1. \A x \in L : H[x] \in Int /\ p[x] \in K /\ H[x] = D[p[x]]
    BY <1>6
  <2> HIDE DEF D
  <2>2. SumFunctionOnSet(D, K) = SumFunctionOnSet(H, L)
    BY <1>1, <1>5, <1>7, <2>1, SumaReindexada
  <2> QED BY <2>2 DEF D
<1> QED BY <1>8, <1>9, <1>10 DEF NetoDiario, K, L, j

----------------------------------------------------------------------------
(***************************************************************************)
(* The tables, the document under way and the books, step by step.          *)
(***************************************************************************)

(* The tables, one by one. *)
CamposDeTasa == {"servicios", "bienes", "arrendamiento", "reteica", "iva"}
FilaDeAjustes(r) == \A k \in CamposDeTasa : k \in DOMAIN r /\ r[k] \in Int
FilaEspecial(r) == "tasa" \in DOMAIN r /\ r.tasa \in Int
LEMMA TablasSon ==
  \A T : TablasEnteras(T) <=>
    /\ {"settings", "reteicas", "nacionales", "propias", "especiales"} \subseteq DOMAIN T
    /\ \A r \in T.settings : FilaDeAjustes(r)
    /\ \A r \in T.reteicas : r.tasa \in Int
    /\ \A r \in T.nacionales \cup T.propias : r.valor \in Int
    /\ IsFiniteSet(T.especiales) /\ \A r \in T.especiales : FilaEspecial(r)
  BY DEF TablasEnteras, FilaDeAjustes, FilaEspecial, CamposDeTasa

(* A table gets at most the row that is saved. *)
LEMMA GuardarEs == \A T, r, K : Guardar(T, r, K) \subseteq T \cup {r}
  BY DEF Guardar

(* The settings. *)
LEMMA AjustesEnteros ==
  ASSUME TablasEnteras(t), EditSettings
  PROVE  TablasEnteras(t')
<1>1. "settings" \in DOMAIN t
  BY DEF TablasEnteras
<1>2. ASSUME NEW S, t' = [t EXCEPT !.settings = S], \A r \in S : FilaDeAjustes(r)
      PROVE  TablasEnteras(t')
  <2>1. t'.settings = S /\ DOMAIN t' = DOMAIN t
        /\ t'.reteicas = t.reteicas /\ t'.nacionales = t.nacionales /\ t'.propias = t.propias
        /\ t'.especiales = t.especiales
    BY <1>1, <1>2, TablasSon
  <2> QED BY <1>2, <2>1, TablasSon
<1>3. ASSUME NEW r \in Altas.settings, t' = [t EXCEPT !.settings = upsert_company_settings(@, r)]
      PROVE  TablasEnteras(t')
  <2> DEFINE viejo == get_company_locked_pathway(t.settings, r.nit)
             v == IF viejo = {} THEN r.locked_pathway ELSE CHOOSE x \in viejo : TRUE
             q == [r EXCEPT !.locked_pathway = v]
             S == upsert_company_settings(t.settings, r)
  <2>1. S = Guardar(t.settings, q, {"nit"})
    BY DEF upsert_company_settings
  <2>2. FilaDeAjustes(r)
    BY TasasAssumption, TablasSon
  <2> HIDE DEF v
  <2>3. FilaDeAjustes(q)
    BY <2>2 DEF FilaDeAjustes, CamposDeTasa
  <2> HIDE DEF q
  <2>4. \A x \in S : FilaDeAjustes(x)
    BY <2>1, <2>3, GuardarEs, TablasSon
  <2>5. t' = [t EXCEPT !.settings = S]
    BY <1>3
  <2> HIDE DEF S
  <2> QED BY <1>2, <2>4, <2>5
<1>4. ASSUME t' = [t EXCEPT !.settings = delete_company(@, Nit)]
      PROVE  TablasEnteras(t')
  <2> DEFINE S == delete_company(t.settings, Nit)
  <2>1. \A x \in S : FilaDeAjustes(x)
    BY TablasSon DEF delete_company
  <2>2. t' = [t EXCEPT !.settings = S]
    BY <1>4
  <2> HIDE DEF S
  <2> QED BY <1>2, <2>1, <2>2
<1> QED BY <1>3, <1>4 DEF EditSettings

(* The tariffs of the cities. *)
LEMMA ReteicasEnteras ==
  ASSUME TablasEnteras(t), EditReteica
  PROVE  TablasEnteras(t')
<1>1. ASSUME NEW S, t' = [t EXCEPT !.reteicas = S], \A r \in S : r.tasa \in Int
      PROVE  TablasEnteras(t')
  <2>1. t'.reteicas = S /\ DOMAIN t' = DOMAIN t
        /\ t'.settings = t.settings /\ t'.nacionales = t.nacionales /\ t'.propias = t.propias
        /\ t'.especiales = t.especiales
    BY <1>1, TablasSon
  <2> QED BY <1>1, <2>1, TablasSon
<1>2. ASSUME NEW r \in Altas.reteicas, t' = [t EXCEPT !.reteicas = upsert_reteica_tarifa(@, r)]
      PROVE  TablasEnteras(t')
  <2> DEFINE S == upsert_reteica_tarifa(t.reteicas, r)
  <2>1. r.tasa \in Int
    BY TasasAssumption, TablasSon
  <2>2. \A x \in S : x.tasa \in Int
    BY <2>1, GuardarEs, TablasSon DEF upsert_reteica_tarifa
  <2>3. t' = [t EXCEPT !.reteicas = S]
    BY <1>2
  <2> HIDE DEF S
  <2> QED BY <1>1, <2>2, <2>3
<1>3. ASSUME NEW r \in t.reteicas, t' = [t EXCEPT !.reteicas = delete_reteica_tarifa(@, r)]
      PROVE  TablasEnteras(t')
  <2> DEFINE S == delete_reteica_tarifa(t.reteicas, r)
  <2>1. \A x \in S : x.tasa \in Int
    BY TablasSon DEF delete_reteica_tarifa
  <2>2. t' = [t EXCEPT !.reteicas = S]
    BY <1>3
  <2> HIDE DEF S
  <2> QED BY <1>1, <2>1, <2>2
<1> QED BY <1>2, <1>3 DEF EditReteica

(* The national rates and the company's. *)
LEMMA TasasEnteras ==
  ASSUME TablasEnteras(t), EditRates
  PROVE  TablasEnteras(t')
<1>1. \A r \in Altas.nacionales \cup Altas.propias : r.valor \in Int
  BY TasasAssumption, TablasSon
<1>2. ASSUME NEW r \in Altas.nacionales, t' = [t EXCEPT !.nacionales = upsert_national_rate(@, r)]
      PROVE  TablasEnteras(t')
  <2> DEFINE S == upsert_national_rate(t.nacionales, r)
  <2>1. \A x \in S : x.valor \in Int
    BY <1>1, GuardarEs, TablasSon DEF upsert_national_rate
  <2>2. t' = [t EXCEPT !.nacionales = S]
    BY <1>2
  <2> HIDE DEF S
  <2>3. t'.nacionales = S /\ DOMAIN t' = DOMAIN t
        /\ t'.settings = t.settings /\ t'.reteicas = t.reteicas /\ t'.propias = t.propias
        /\ t'.especiales = t.especiales
    BY <2>2, TablasSon
  <2> QED BY <2>1, <2>3, TablasSon
<1>3. ASSUME NEW r \in Altas.propias, t' = [t EXCEPT !.propias = upsert_company_rate_override(@, r)]
      PROVE  TablasEnteras(t')
  <2> DEFINE S == upsert_company_rate_override(t.propias, r)
  <2>1. \A x \in S : x.valor \in Int
    BY <1>1, GuardarEs, TablasSon DEF upsert_company_rate_override
  <2>2. t' = [t EXCEPT !.propias = S]
    BY <1>3
  <2> HIDE DEF S
  <2>3. t'.propias = S /\ DOMAIN t' = DOMAIN t
        /\ t'.settings = t.settings /\ t'.reteicas = t.reteicas /\ t'.nacionales = t.nacionales
        /\ t'.especiales = t.especiales
    BY <2>2, TablasSon
  <2> QED BY <2>1, <2>3, TablasSon
<1> QED BY <1>2, <1>3 DEF EditRates

(* The special taxes, which stay finitely many. *)
LEMMA EspecialesEnteras ==
  ASSUME TablasEnteras(t), EditSpecialTaxes
  PROVE  TablasEnteras(t')
<1> DEFINE E == t.especiales
<1>1. IsFiniteSet(E) /\ \A r \in E : FilaEspecial(r)
  BY TablasSon
<1>2. \A r \in Altas.especiales : FilaEspecial(r)
  BY TasasAssumption, TablasSon
<1>3. ASSUME NEW S, t' = [t EXCEPT !.especiales = S], IsFiniteSet(S), \A r \in S : FilaEspecial(r)
      PROVE  TablasEnteras(t')
  <2>1. t'.especiales = S /\ DOMAIN t' = DOMAIN t
        /\ t'.settings = t.settings /\ t'.reteicas = t.reteicas /\ t'.nacionales = t.nacionales
        /\ t'.propias = t.propias
    BY <1>3, TablasSon
  <2> QED BY <1>3, <2>1, TablasSon
<1>4. ASSUME NEW r \in Altas.especiales,
             t' = [t EXCEPT !.especiales = IF r.code \in {q.code : q \in @} THEN update_special_tax(@, r)
                                                                      ELSE create_special_tax(@, r)]
      PROVE  TablasEnteras(t')
  <2> DEFINE f == [q \in E |-> IF q.code = r.code THEN r ELSE q]
             U == update_special_tax(E, r)
             C == create_special_tax(E, r)
             hay == r.code \in {q.code : q \in E}
             S == IF hay THEN U ELSE C
  <2>1. IsFiniteSet(U) /\ \A x \in U : FilaEspecial(x)
    <3>1. U = {f[q] : q \in E} /\ \A q \in E : FilaEspecial(f[q])
      BY <1>1, <1>2 DEF update_special_tax
    <3> HIDE DEF E, f, U
    <3>2. IsFiniteSet({f[q] : q \in E})
      BY <1>1, ImagenFinita
    <3> QED BY <3>1, <3>2
  <2>2. IsFiniteSet(C) /\ \A x \in C : FilaEspecial(x)
    BY <1>1, <1>2, FS_AddElement DEF create_special_tax
  <2>3. t' = [t EXCEPT !.especiales = S]
    BY <1>4
  <2> HIDE DEF U, C, hay
  <2>4. IsFiniteSet(S) /\ \A x \in S : FilaEspecial(x)
    BY <2>1, <2>2
  <2> HIDE DEF S
  <2> QED BY <1>3, <2>3, <2>4
<1>5. ASSUME NEW r \in E, t' = [t EXCEPT !.especiales = delete_special_tax(@, r.code)]
      PROVE  TablasEnteras(t')
  <2> DEFINE f == [q \in E |-> IF q.code = r.code THEN [q EXCEPT !.activo = FALSE] ELSE q]
             S == delete_special_tax(E, r.code)
  <2>1. S = {f[q] : q \in E} /\ \A q \in E : FilaEspecial(f[q])
    BY <1>1 DEF delete_special_tax, FilaEspecial
  <2>2. t' = [t EXCEPT !.especiales = S]
    BY <1>5
  <2> HIDE DEF E, f, S
  <2>3. IsFiniteSet({f[q] : q \in E})
    BY <1>1, ImagenFinita
  <2> QED BY <1>3, <2>1, <2>2, <2>3
<1>6. ASSUME NEW A, t' = [t EXCEPT !.acumuladores = A]
      PROVE  TablasEnteras(t')
  BY <1>6, TablasSon
<1> QED BY <1>4, <1>5, <1>6 DEF EditSpecialTaxes

(* No rate is read from the other tables. *)
LEMMA OtrasTablas ==
  ASSUME TablasEnteras(t), NEW v,
         \/ t' = [t EXCEPT !.uvt = v] \/ t' = [t EXCEPT !.minimas = v] \/ t' = [t EXCEPT !.acumuladores = v]
         \/ t' = [t EXCEPT !.perdidas = v] \/ t' = [t EXCEPT !.tarifas = v] \/ t' = [t EXCEPT !.conceptos = v]
         \/ t' = [t EXCEPT !.ajustes = v]
  PROVE  TablasEnteras(t')
<1>1. /\ DOMAIN t' = DOMAIN t /\ t'.especiales = t.especiales
      /\ t'.settings = t.settings /\ t'.reteicas = t.reteicas /\ t'.nacionales = t.nacionales
      /\ t'.propias = t.propias
  BY TablasSon
<1> QED BY <1>1, TablasSon

(* Whatever the accountant edits, the rates are numbers. *)
LEMMA TablasEditadas ==
  ASSUME TablasEnteras(t), EditTables
  PROVE  TablasEnteras(t')
<1>1. CASE EditConstants
  <2>1. \E v : t' = [t EXCEPT !.uvt = v] \/ t' = [t EXCEPT !.minimas = v]
    BY <1>1 DEF EditConstants
  <2> QED BY <2>1, OtrasTablas
<1>2. CASE EditIncomeTax
  <2>1. \E v : t' = [t EXCEPT !.perdidas = v] \/ t' = [t EXCEPT !.tarifas = v]
    BY <1>2 DEF EditIncomeTax
  <2> QED BY <2>1, OtrasTablas
<1>3. CASE EditConcepts
  <2>1. \E v : t' = [t EXCEPT !.conceptos = v]
    BY <1>3 DEF EditConcepts
  <2> QED BY <2>1, OtrasTablas
<1>4. CASE EditAdjustments
  <2>1. \E v : t' = [t EXCEPT !.ajustes = v]
    BY <1>4 DEF EditAdjustments
  <2> QED BY <2>1, OtrasTablas
<1> QED BY <1>1, <1>2, <1>3, <1>4, AjustesEnteros, ReteicasEnteras, TasasEnteras, EspecialesEnteras DEF EditTables

(* The record of a document under way. *)
EsRun(r) ==
  r = [fase |-> r.fase, doc |-> r.doc, asientos |-> r.asientos, propuesta |-> r.propuesta, salida |-> r.salida,
       reintento |-> r.reintento, forzado |-> r.forzado]

(* The document under way: what it proposes and what it carries are lines of an
   entry, and the taxes kept the balance. *)
Propuesto(r) == EsAsiento(r.asientos) /\ r.propuesta = r.asientos
Auditable(r) ==
  /\ EsAsiento(r.asientos) /\ EsAsiento(r.propuesta)
  /\ Coherente(r.propuesta, r.doc, r.salida) => Neto(r.asientos) = Neto(r.propuesta)
EnCurso(r) ==
  /\ EsRun(r) /\ r.doc \in Documentos
  /\ r.fase \in {"contador", "tributario", "auditor", "db_persist", "revision"}
  /\ r.fase = "tributario" => Propuesto(r)
  /\ r.fase = "auditor" => Auditable(r)
  /\ r.fase = "db_persist" => EsAsiento(r.asientos)

RunOK == run = Nadie \/ EnCurso(run)
LibroOK == \A e \in libro : Asentable(e.lineas)
BooksInv == TablasEnteras(t) /\ RunOK /\ LibroOK

(* A document in some phase is one under way. *)
LEMMA FaseEnCurso ==
  ASSUME RunOK, run.fase # "libre"
  PROVE  EnCurso(run)
  BY DEF RunOK, Nadie

(* A document that begins. *)
LEMMA InicioEnCurso ==
  ASSUME NEW d \in Documentos, NEW f
  PROVE  EnCurso(Inicio(d, f))
<1> DEFINE r == Inicio(d, f)
<1>1. EsRun(r) /\ r.doc = d /\ r.fase = "contador"
  BY DEF Inicio, EsRun
<1> HIDE DEF r
<1>2. EnCurso(r)
  BY <1>1 DEF EnCurso
<1> QED BY <1>2 DEF r

(* What the contador proposes is an entry. *)
LEMMA ContadorRun ==
  ASSUME RunOK, Contador
  PROVE  RunOK'
<1>0. run.fase = "contador"
  BY DEF Contador
<1>1. EnCurso(run)
  BY <1>0, FaseEnCurso
<1> DEFINE impreso == IF run.reintento THEN <<>> ELSE extract_prearmed_asientos(run.doc.prearmado)
<1>2. PICK b \in (IF impreso # <<>> THEN {impreso} ELSE run.doc.borradores) :
         LET corregido == correct_asiento_lines(b, run.doc.tipo)
             final == IF impreso = <<>> /\ run.doc.tipo \in VENTA_DOC_TYPES /\ CatalogoVentas # {}
                      THEN validate_ingreso_against_catalog(corregido) ELSE corregido
         IN run' = [run EXCEPT !.fase = "tributario", !.asientos = final, !.propuesta = final]
  BY DEF Contador
<1> DEFINE corregido == correct_asiento_lines(b, run.doc.tipo)
           valida == impreso = <<>> /\ run.doc.tipo \in VENTA_DOC_TYPES /\ CatalogoVentas # {}
           final == IF valida THEN validate_ingreso_against_catalog(corregido) ELSE corregido
<1>3. run' = [run EXCEPT !.fase = "tributario", !.asientos = final, !.propuesta = final]
  BY <1>2
<1>4. EsAsiento(b)
  <2>1. (\A s \in run.doc.borradores : EsAsiento(s)) /\ EsDiario(run.doc.prearmado)
    BY <1>1, DocumentosAssumption DEF EnCurso
  <2>2. EsAsiento(extract_prearmed_asientos(run.doc.prearmado)) /\ EsAsiento(<<>>)
    BY <2>1, ImpresoEs, NetoDeNinguna
  <2>3. EsAsiento(impreso)
    BY <2>2
  <2> HIDE DEF impreso
  <2> QED BY <1>2, <2>1, <2>3
<1> HIDE DEF impreso
<1>5. EsAsiento(corregido)
  BY <1>4, Corregidos
<1> HIDE DEF corregido, valida
<1>6. EsAsiento(validate_ingreso_against_catalog(corregido))
  BY <1>5, IngresosValidados
<1>7. EsAsiento(final)
  BY <1>5, <1>6
<1> HIDE DEF final
<1>8. PICK f, d, a, p, x, r, z :
         run = [fase |-> f, doc |-> d, asientos |-> a, propuesta |-> p, salida |-> x, reintento |-> r, forzado |-> z]
  BY <1>1 DEF EnCurso, EsRun
<1>9. run' = [fase |-> "tributario", doc |-> d, asientos |-> final, propuesta |-> final, salida |-> x,
              reintento |-> r, forzado |-> z]
  BY <1>3, <1>8
<1>10. d \in Documentos
  BY <1>1, <1>8 DEF EnCurso
<1>11. EnCurso(run')
  BY <1>7, <1>9, <1>10 DEF EnCurso, EsRun, Propuesto
<1> QED BY <1>11 DEF RunOK

(* What the tributario hands to the auditor, out of the tables as they are. *)
LEMMA TributarioRun ==
  ASSUME RunOK, TablasEnteras(t), Tributario
  PROVE  RunOK' /\ TablasEnteras(t')
<1>0. run.fase = "tributario"
  BY DEF Tributario
<1>1. EnCurso(run) /\ Propuesto(run)
  BY <1>0, FaseEnCurso DEF EnCurso
<1>2. PICK m : LET r == tributario_node(t, Nit, run.doc, run.asientos, m)
               IN /\ run' = IF r.error THEN Nadie
                            ELSE [run EXCEPT !.fase = "auditor", !.asientos = r.asientos, !.salida = r.salida]
                  /\ t' = [t EXCEPT !.acumuladores = r.acumuladores]
  BY DEF Tributario
<1> DEFINE r == tributario_node(t, Nit, run.doc, run.asientos, m)
<1>3. TablasEnteras(t')
  <2> DEFINE A == r.acumuladores
  <2>1. t' = [t EXCEPT !.acumuladores = A]
    BY <1>2
  <2> HIDE DEF A
  <2> QED BY <2>1, OtrasTablas
<1>4. run' = IF r.error THEN Nadie
             ELSE [run EXCEPT !.fase = "auditor", !.asientos = r.asientos, !.salida = r.salida]
  BY <1>2
<1>5. CASE r.error
  BY <1>3, <1>4, <1>5 DEF RunOK
<1>6. CASE ~r.error
  <2>1. /\ EsAsiento(r.asientos)
        /\ Coherente(run.asientos, run.doc, r.salida) => Neto(r.asientos) = Neto(run.asientos)
    <3>1. run.doc \in Documentos /\ EsAsiento(run.asientos)
      BY <1>1 DEF EnCurso, Propuesto
    <3> QED BY <1>6, <3>1, TributarioCuadra
  <2> DEFINE s == r.asientos
             y == r.salida
  <2>2. run' = [run EXCEPT !.fase = "auditor", !.asientos = s, !.salida = y]
    BY <1>4, <1>6
  <2> HIDE DEF s, y
  <2>3. PICK f, d, a, p, x, q, z :
           run = [fase |-> f, doc |-> d, asientos |-> a, propuesta |-> p, salida |-> x, reintento |-> q, forzado |-> z]
    BY <1>1 DEF EnCurso, EsRun
  <2>4. run' = [fase |-> "auditor", doc |-> d, asientos |-> s, propuesta |-> p, salida |-> y,
                reintento |-> q, forzado |-> z]
    BY <2>2, <2>3
  <2>5. d \in Documentos /\ run.doc = d /\ run.asientos = p /\ EsAsiento(p)
    BY <1>1, <2>3 DEF EnCurso, Propuesto
  <2>6. EsAsiento(s) /\ (Coherente(p, d, y) => Neto(s) = Neto(p))
    BY <2>1, <2>5 DEF s, y
  <2>7. EnCurso(run')
    BY <2>4, <2>5, <2>6 DEF EnCurso, EsRun, Auditable
  <2> QED BY <1>3, <2>7 DEF RunOK
<1> QED BY <1>3, <1>5, <1>6

(* The verdict of the audit, and what the user makes of it. *)
LEMMA AuditoriaRun ==
  ASSUME RunOK, Approve \/ Reject \/ Confirm \/ Abandon
  PROVE  RunOK'
<1>1. CASE Abandon
  BY <1>1 DEF Abandon, RunOK
<1>2. CASE Confirm
  <2>1. EnCurso(run) /\ run' = Inicio(run.doc, TRUE)
    BY <1>2, FaseEnCurso DEF Confirm
  <2>2. EnCurso(run')
    BY <2>1, InicioEnCurso DEF EnCurso
  <2> QED BY <2>2 DEF RunOK
<1>3. CASE Approve \/ Reject
  <2>1. run.fase = "auditor"
    BY <1>3 DEF Approve, Reject
  <2>2. EnCurso(run) /\ Auditable(run)
    BY <2>1, FaseEnCurso DEF EnCurso
  <2>3. PICK f, d, a, p, x, q, z :
           run = [fase |-> f, doc |-> d, asientos |-> a, propuesta |-> p, salida |-> x, reintento |-> q, forzado |-> z]
    BY <2>2 DEF EnCurso, EsRun
  <2>4. d \in Documentos /\ EsAsiento(a)
    BY <2>2, <2>3 DEF EnCurso, Auditable
  <2>5. \/ run' = [run EXCEPT !.fase = "db_persist"]
        \/ run' = [run EXCEPT !.fase = "contador", !.reintento = TRUE]
        \/ run' = [run EXCEPT !.fase = "revision"]
    BY <1>3 DEF Approve, Reject
  <2>6. \E g \in {"db_persist", "contador", "revision"} : \E w :
          run' = [fase |-> g, doc |-> d, asientos |-> a, propuesta |-> p, salida |-> x, reintento |-> w, forzado |-> z]
    BY <2>3, <2>5
  <2>7. EnCurso(run')
    BY <2>4, <2>6 DEF EnCurso, EsRun
  <2> QED BY <2>7 DEF RunOK
<1> QED BY <1>1, <1>2, <1>3

(* What db_persist posts balances. *)
LEMMA PersistLibro ==
  ASSUME RunOK, LibroOK, Persist
  PROVE  RunOK' /\ LibroOK'
<1>1. EnCurso(run) /\ EsAsiento(run.asientos)
  BY FaseEnCurso DEF Persist, EnCurso
<1>2. RunOK'
  BY DEF Persist, RunOK
<1> DEFINE suyas == asientos_for_tx(run.doc.monto, run.asientos, {}).lineas
           cuenta == resolve_cuenta_puc(cuenta_debito(suyas), "process", run.forzado)
           j == build_from_contador(sanitize_asientos(suyas))
           pareja == Len(suyas) < Len(run.asientos)
           e == Asentada(run.doc, j, cuenta, run.salida, pareja)
<1>3. libro' = IF cuenta = 0 \/ j = ValueError THEN libro ELSE libro \cup {e}
  BY DEF Persist
<1>4. EsAsiento(sanitize_asientos(suyas))
  <2>1. EsAsiento(suyas)
    BY <1>1, SuyasEs
  <2> HIDE DEF suyas
  <2> QED BY <2>1, SaneadosEs
<1>5. e.lineas = j
  BY DEF Asentada
<1>6. j # ValueError => Asentable(j)
  <2> DEFINE u == sanitize_asientos(suyas)
  <2>1. EsAsiento(u) /\ j = build_from_contador(u)
    BY <1>4
  <2> HIDE DEF u, j
  <2> QED BY <2>1, DelContador
<1> HIDE DEF j, e, cuenta
<1>7. LibroOK'
  BY <1>3, <1>5, <1>6 DEF LibroOK
<1> QED BY <1>2, <1>7

(* Nor does the ingest post anything else. *)
LEMMA IngestLibro ==
  ASSUME LibroOK, NEW d \in Documentos, PostFromIngest(d)
  PROVE  LibroOK'
<1> DEFINE j(x) == lineas_ingest(d.tipo, x.cuenta, x.m, get_cuenta_ica_propio(t.settings, Nit),
                                 x.existentes, x.entrada, d.texto)
           cuenta(x) == resolve_cuenta_puc(IF x.cuenta = 0 THEN OtrosGastos ELSE x.cuenta, "ingest", FALSE)
           e(x) == Asentada(d, j(x), cuenta(x), Salida(x.m.total - x.m.iva, x.m.iva, x.m.retefuente, x.m.reteica), FALSE)
<1>1. PICK x \in d.extraido : libro' = IF j(x) \in {<<>>, ValueError} THEN libro ELSE libro \cup {e(x)}
  BY DEF PostFromIngest
<1>2. x.m.total \in Int /\ x.m.iva \in Int /\ x.m.retefuente \in Int /\ x.m.reteica \in Int
  BY DocumentosAssumption
<1> DEFINE l == j(x)
           q == e(x)
<1>3. l \notin {<<>>, ValueError} => Asentable(l)
  <2> SUFFICES ASSUME l # <<>>, l # ValueError
               PROVE  Asentable(l)
    OBVIOUS
  <2> DEFINE ica == get_cuenta_ica_propio(t.settings, Nit)
  <2>1. l = lineas_ingest(d.tipo, x.cuenta, x.m, ica, x.existentes, x.entrada, d.texto)
    OBVIOUS
  <2> HIDE DEF l, ica
  <2> QED BY <1>2, <2>1, LineasDelIngest
<1>4. q.lineas = l
  BY DEF Asentada
<1>5. libro' = IF l \in {<<>>, ValueError} THEN libro ELSE libro \cup {q}
  BY <1>1
<1> HIDE DEF l, q
<1> QED BY <1>3, <1>4, <1>5 DEF LibroOK

(* The books are empty at the start, *)
LEMMA InitBooks == Init => BooksInv
<1> SUFFICES ASSUME Init
             PROVE  BooksInv
  OBVIOUS
<1>1. TablasEnteras(t) /\ run = Nadie /\ libro = {}
  BY TasasAssumption DEF Init
<1> QED BY <1>1 DEF BooksInv, RunOK, LibroOK

(* and every step keeps them. *)
LEMMA BooksStep ==
  ASSUME BooksInv, [Next]_vars
  PROVE  BooksInv'
<1>0. TablasEnteras(t) /\ RunOK /\ LibroOK
  BY DEF BooksInv
<1>1. UNCHANGED t => TablasEnteras(t')
  BY <1>0
<1>2. UNCHANGED run => RunOK'
  BY <1>0 DEF RunOK
<1>3. UNCHANGED libro => LibroOK'
  BY <1>0 DEF LibroOK
<1>4. ASSUME NEW d \in Documentos, Start(d)
      PROVE  BooksInv'
  <2>1. EnCurso(run') /\ UNCHANGED <<t, libro>>
    BY <1>4, InicioEnCurso DEF Start
  <2> QED BY <1>1, <1>3, <2>1 DEF BooksInv, RunOK
<1>5. ASSUME NEW d \in Documentos, PostFromIngest(d)
      PROVE  BooksInv'
  <2>1. UNCHANGED <<t, run>>
    BY <1>5 DEF PostFromIngest
  <2> QED BY <1>0, <1>1, <1>2, <1>5, <2>1, IngestLibro DEF BooksInv
<1>6. CASE Contador
  <2>1. UNCHANGED <<t, libro>>
    BY <1>6 DEF Contador
  <2> QED BY <1>0, <1>1, <1>3, <1>6, <2>1, ContadorRun DEF BooksInv
<1>7. CASE Tributario
  <2>1. UNCHANGED libro
    BY <1>7 DEF Tributario
  <2> QED BY <1>0, <1>3, <1>7, <2>1, TributarioRun DEF BooksInv
<1>8. CASE Approve \/ Reject \/ Confirm \/ Abandon
  <2>1. UNCHANGED <<t, libro>>
    BY <1>8 DEF Approve, Reject, Confirm, Abandon
  <2> QED BY <1>0, <1>1, <1>3, <1>8, <2>1, AuditoriaRun DEF BooksInv
<1>9. CASE Persist
  <2>1. UNCHANGED t
    BY <1>9 DEF Persist
  <2> QED BY <1>0, <1>1, <1>9, <2>1, PersistLibro DEF BooksInv
<1>10. CASE EditTables
  <2>1. UNCHANGED <<run, libro>>
    BY <1>10 DEF EditTables
  <2> QED BY <1>0, <1>2, <1>3, <1>10, <2>1, TablasEditadas DEF BooksInv
<1>11. CASE DraftStep \/ UNCHANGED vars
  <2>1. UNCHANGED <<t, run, libro>>
    BY <1>11 DEF DraftStep, Generate, ReadForUpdate, WriteUpdate, Review, File, Reopen, Pasa, vars
  <2> QED BY <1>1, <1>2, <1>3, <2>1 DEF BooksInv
<1>12. CASE Next
  <2>1. \/ \E d \in Documentos : Start(d) \/ PostFromIngest(d)
        \/ Contador \/ Tributario \/ Approve \/ Reject \/ Confirm \/ Abandon \/ Persist
        \/ EditTables \/ DraftStep
    BY <1>12 DEF Next, DraftStep
  <2> QED BY <1>4, <1>5, <1>6, <1>7, <1>8, <1>9, <1>10, <1>11, <2>1
<1> QED BY <1>11, <1>12

(* Sums of lines, in the words of the property. *)
LEMMA BooksBalance == BooksInv => EntriesBalance
<1> SUFFICES ASSUME BooksInv
             PROVE  EntriesBalance
  OBVIOUS
<1>1. ASSUME run # Nadie, run.fase = "auditor", Coherente(run.propuesta, run.doc, run.salida)
      PROVE  Descuadre(run.asientos) = Descuadre(run.propuesta)
  <2>1. Auditable(run)
    BY <1>1 DEF BooksInv, RunOK, EnCurso
  <2>2. Neto(run.asientos) = Neto(run.propuesta) /\ EsAsiento(run.asientos) /\ EsAsiento(run.propuesta)
    BY <1>1, <2>1 DEF Auditable
  <2> QED BY <2>2, DescuadreEsNeto
<1>2. ASSUME NEW e \in libro
      PROVE  Absolute(Debitos(Lineas({e})) - Creditos(Lineas({e}))) <= 1
  <2>1. EsDiario(e.lineas) /\ Absolute(NetoDiario(e.lineas)) <= 1
    BY DEF BooksInv, LibroOK, Asentable
  <2> QED BY <2>1, EnElLibro
<1> QED BY <1>1, <1>2 DEF EntriesBalance

(* The rates stay numbers, the document under way carries an entry that its taxes
   did not unbalance, and the journals on the books balance. *)
THEOREM BooksInvariant == Spec => []BooksInv
BY InitBooks, BooksStep, PTL DEF Spec

(* For any documents, proposals, tables and edits of them: the taxes leave debits
   and credits as far apart as the proposal had them, whenever it can take them;
   and no entry of the books is out of balance by more than a peso. *)
THEOREM EntriesAlwaysBalance == Spec => []EntriesBalance
BY BooksInvariant, BooksBalance, PTL
=============================================================================
