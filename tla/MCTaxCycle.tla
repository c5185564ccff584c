------------------------------ MODULE MCTaxCycle ------------------------------
(* One company with withholding concepts, a special tax per document, a
   periodic one and a fiscal loss; a catalogue of documents of both sides,
   each with the asientos a language model plausibly proposes for it.  The
   month of processing is in year 2, and the UVT is one peso so that both the
   minimum bases and the threshold of the reconciliation are within reach. *)
EXTENDS TaxCycle

MCHoy == 14
MCNaturaleza == 240802 :> "D"
MCCuentasPuc == {11, 1105, 1110, 1305, 2205, 2408, 4135, 4170, 5115, 511525, 511505, 5120, 5135, 5195, 519595, 5240, 143505}
MCCatalogoVentas == {413535, 417005}

D(c, v) == [cuenta |-> c, mov |-> "debito", valor |-> v, texto |-> {}]
C(c, v) == [cuenta |-> c, mov |-> "credito", valor |-> v, texto |-> {}]
Item(b, m, i) == [base |-> b, marca |-> m, iva |-> i]
Doc(id, tipo, total, iva) ==
  [id |-> id, tipo |-> tipo, parte |-> "", directa |-> FALSE, items |-> <<Item(total - iva, "", iva)>>,
   total_iva |-> iva, total |-> total, monto |-> total, retenciones |-> <<>>, aplicar |-> TRUE, publica |-> FALSE,
   prearmado |-> <<>>, texto |-> {}, persona |-> "PJ", fecha |-> 14, tercero |-> 2, borradores |-> {}, extraido |-> {}]

Servicio == [Doc("servicio", "factura_compra", 1190, 190) EXCEPT !.borradores =
  {<<D(511525, 1000), D(240802, 190), C(220505, 1000)>>, <<D(511525, 1000), C(220505, 1000)>>,
   <<D(511525, 1000), D(240802, 190), C(220505, 1190)>>, <<D(511525, 1190), C(220505, 1190)>>}]
Honorario == [Doc("honorario", "factura_compra", 1000, 0) EXCEPT !.persona = "PN", !.borradores =
  {<<[D(0, 1000) EXCEPT !.texto = {"honorario"}], C(220505, 1000)>>}]
Insumo == [Doc("insumo", "factura_compra", 20, 0) EXCEPT !.borradores = {<<D(143505, 20), C(220505, 20)>>}]
Soporte == [Doc("soporte", "documento_soporte", 1000, 0) EXCEPT !.persona = "PN", !.borradores =
  {<<D(512010, 1000), C(22050501, 1000)>>}]
Mixta == [Doc("mixta", "factura_compra", 1095, 95) EXCEPT
  !.items = <<Item(500, "gravado", 95), Item(500, "excluido", 0)>>, !.borradores =
  {<<[D(512010, 1000) EXCEPT !.texto = {"alquiler"}], D(240802, 95), C(220505, 1000)>>}]
Venta == [Doc("venta", "factura_venta", 1190, 190) EXCEPT !.borradores =
  {<<D(130505, 1190), C(413599, 1000), C(240805, 190)>>, <<D(130505, 1000), C(413535, 1000)>>}]
VentaRetenida == [Doc("venta retenida", "factura_venta", 1190, 190) EXCEPT
  !.retenciones = <<[tipo |-> "retefuente", valor |-> 40], [tipo |-> "reteica", valor |-> 10]>>, !.borradores =
  {<<D(130505, 1190), C(413535, 1000), C(240805, 190)>>}]
VentaDoble == [VentaRetenida EXCEPT !.id = "venta doble", !.borradores =
  {<<D(130505, 1140), D(135515, 40), D(135517, 10), C(413535, 1000), C(240805, 190)>>}]
VentaAntigua == [Doc("venta antigua", "factura_venta", 59500, 9500) EXCEPT !.fecha = 5, !.borradores =
  {<<D(130505, 59500), C(413535, 50000), C(240805, 9500)>>}]
Devolucion == [Doc("devolucion", "nota_credito", 595, 95) EXCEPT !.parte = "emisor", !.borradores =
  {<<D(413535, 500), D(240805, 95), C(130505, 595)>>, <<D(413535, 500), C(130505, 500)>>}]
Abono == [Doc("abono", "nota_credito", 595, 95) EXCEPT !.parte = "receptor", !.borradores =
  {<<D(220505, 595), C(511525, 500), C(240802, 95)>>}]
Egreso == [Doc("egreso", "comprobante_egreso", 500, 0) EXCEPT
  !.prearmado = <<[cuenta |-> 220505, debito |-> 500, credito |-> 0, texto |-> {}],
                  [cuenta |-> 111005, debito |-> 0, credito |-> 500, texto |-> {}]>>, !.borradores =
  {<<D(220505, 500), C(220505, 500)>>}]
Cobro == [Doc("cobro", "recibo_caja", 500, 0) EXCEPT !.borradores = {<<D(111005, 500), C(130505, 500)>>}]
Extraida == [Doc("extraida", "factura_compra", 1190, 190) EXCEPT !.extraido =
  {[cuenta |-> c, m |-> [total |-> 1190, iva |-> 190, retefuente |-> 40, reteica |-> 10],
    existentes |-> FALSE, entrada |-> FALSE] : c \in {0, 513550}}]
MCDocumentos == {Servicio, Honorario, Insumo, Soporte, Mixta, Venta, VentaRetenida, VentaDoble, VentaAntigua,
                 Devolucion, Abono, Egreso, Cobro, Extraida}

MCNominas == {[fecha |-> 14, retefuente |-> 30]}
Empresa == [nit |-> 1, locked_pathway |-> Nada, responsable |-> TRUE, servicios |-> 400, bienes |-> 250,
            arrendamiento |-> 350, reteica |-> 100, iva |-> 1900, ica |-> 100, renta |-> 3500,
            cuenta_ica_propio |-> Nada, ciudad |-> "cali", seccion |-> "G", regimen |-> "ordinario", actividad |-> ""]
Reteica(m, s, tasa, base) == [municipio |-> m, seccion |-> s, tasa |-> tasa, base_minima_uvt |-> base]
Minima(c, u, d) == [concepto |-> c, uvt_units |-> u, year |-> 2, desde |-> d, hasta |-> Nada]
Tasa(c, v, h) == [code |-> c, valor |-> v, desde |-> Nada, hasta |-> h]
Especial(c, tasa, per, tipos) ==
  [code |-> c, activo |-> TRUE, desde |-> Nada, hasta |-> Nada, tipos |-> tipos, tasa |-> tasa, solo_publica |-> FALSE,
   periodico |-> per, cuenta_gasto |-> 511595, cuenta_por_pagar |-> 233595]
Concepto(code, cat, a, tarifa) == [code |-> code, categoria |-> cat, aplica_a |-> a, tarifa |-> tarifa, activo |-> TRUE]
Ajuste(s, d) == [year |-> 2, seccion |-> s, concepto |-> "c", valor_contable |-> 0, valor_fiscal |-> d,
                 tipo_diferencia |-> "temporaria_imponible"]
Renta(base, desde) == [regimen |-> "ordinario", actividad |-> "", tarifa_base |-> base, sobretasa |-> 0,
                       year_from |-> desde, year_to |-> Nada]
Perdida(m) == [year |-> 1, perdida |-> m, compensado |-> 0, pendiente |-> m]

MCTablas ==
  [settings |-> {Empresa}, reteicas |-> {Reteica("cali", "general", 100, Nada), Reteica("general", "general", 50, 4)},
   uvt |-> {[year |-> 2, valor |-> 1]}, minimas |-> {Minima("servicios", 4, 13), Minima("servicios", 2000, 20)},
   nacionales |-> {Tasa("bienes", 250, Nada)}, propias |-> {},
   especiales |-> {Especial("estampilla", 200, FALSE, {"factura_compra"}), Especial("tasa", 100, TRUE, {"factura_venta"})},
   acumuladores |-> {}, perdidas |-> {Perdida(300)}, tarifas |-> {Renta(3500, 1)},
   conceptos |-> {Concepto("servicios_pj", "servicios", "PJ", 400), Concepto("honorarios_pn", "honorarios", "PN", 1100),
                  Concepto("salarios", "salarios", "PN", 0)},
   ajustes |-> {Ajuste("ERI_GASTO", 5)}]
MCAltas ==
  [settings |-> {[Empresa EXCEPT !.responsable = FALSE, !.cuenta_ica_propio = 236805]},
   reteicas |-> {Reteica("cali", "G", 70, 3)}, uvt |-> {[year |-> 2, valor |-> 100]},
   minimas |-> {Minima("servicios", 3000, Nada)}, nacionales |-> {Tasa("servicios", 600, Nada)},
   propias |-> {Tasa("servicios", 100, Nada), Tasa("honorarios", 0, 20)},
   especiales |-> {Especial("estampilla", 300, FALSE, {}), Especial("nueva", 100, FALSE, {"factura_venta"})},
   perdidas |-> {Perdida(2000)}, tarifas |-> {Renta(2000, 2)},
   conceptos |-> {Concepto("servicios_pj", "otra", "PJ", 200)}, ajustes |-> {Ajuste("ERI_INGRESO", 7)}]
MCPeriodos == {[forma |-> "F300", ini |-> 13, fin |-> 14], [forma |-> "F350", ini |-> 14, fin |-> 14],
               [forma |-> "ICA", ini |-> 13, fin |-> 14], [forma |-> "F2516", ini |-> 13, fin |-> 24],
               [forma |-> "F110", ini |-> 13, fin |-> 24]}
=============================================================================
