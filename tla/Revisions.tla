------------------------------ MODULE Revisions ------------------------------
(***************************************************************************)
(* The migrations of src/alembic/versions, oldest first: Rev_<id> is the   *)
(* revision <id>, the revisions it comes after, and what its upgrade() and *)
(* downgrade() do to the schema.  The two generated or consolidated ones   *)
(* are split by the tables they touch.                                     *)
(***************************************************************************)
EXTENDS SchemaOps

CONSTANT Supabase   \* the database has auth.uid(), that is, row-level security
ASSUME SupabaseType == Supabase \in BOOLEAN

Stamps == {"created_at", "updated_at"}

\* Enum types exist from the first table that uses them
InitialTypes ==
    << CreateMissing("tercerotipo", {"PROVEEDOR", "CLIENTE", "AMBOS"}),
       CreateMissing("naturalezacuenta", {"DEBITO", "CREDITO"}),
       CreateMissing("ingeststatus",
           {"PENDING_PROCESSING", "PROCESSING", "COMPLETED", "FAILED"}),
       CreateMissing("transactionstatus",
           {"PENDING", "PROCESSING", "POSTED", "REJECTED", "ERROR"}),
       CreateMissing("processstatus",
           {"QUEUED", "RUNNING", "COMPLETED", "FAILED", "CANCELLED"}) >>

InitialIngest ==
    << Create("terceros", Stamps \cup {"id", "nit", "razon_social", "tipo",
           "actividad_economica", "direccion", "telefono", "email"}),
       Add("terceros", {"ix_terceros_nit"}),
       Create("cuentas_puc", {"id", "codigo", "nombre", "clase", "grupo",
           "cuenta", "subcuenta", "naturaleza", "descripcion", "activa",
           "created_at"}),
       Add("cuentas_puc", {"ix_cuentas_puc_codigo"}),
       Create("ingest_jobs", {"id", "file_name", "file_path", "status",
           "document_type", "pathway", "raw_preview", "extraction_errors",
           "created_at", "completed_at"}),
       Add("ingest_jobs", {"ix_ingest_jobs_id"}),
       Create("transactions_pending", Stamps \cup {"id", "ingest_id", "fecha",
           "nit_emisor", "nit_receptor", "total", "descripcion", "items",
           "raw_data", "status"}),
       Add("transactions_pending", {"ix_transactions_pending_id",
           "ix_transactions_pending_ingest_id",
           "ix_transactions_pending_nit_emisor",
           "ix_transactions_pending_nit_receptor"}) >>

InitialLedger ==
    << Create("transactions_posted", Stamps \cup {"id",
           "transaction_pending_id", "cuenta_puc", "puc_descripcion",
           "retefuente", "reteica", "iva", "ica", "provision_renta",
           "neto_a_pagar", "journal_entries_json", "tax_references",
           "agent_reasoning", "status"}),
       Add("transactions_posted", {"ix_transactions_posted_id",
           "ix_transactions_posted_transaction_pending_id",
           "ix_transactions_posted_cuenta_puc"}),
       Create("journal_entry_lines", {"id", "transaction_posted_id", "fecha",
           "comprobante", "cuenta_puc", "cuenta_nombre", "tercero_nit",
           "descripcion", "debito", "credito", "created_at"}),
       Add("journal_entry_lines", {"ix_journal_entry_lines_cuenta_puc",
           "ix_journal_entry_lines_transaction_posted_id",
           "ix_journal_entry_lines_tercero_nit"}),
       Create("process_jobs", {"id", "ingest_id", "status", "current_stage",
           "current_agent", "progress", "error_message", "agent_log",
           "created_at", "started_at", "completed_at"}),
       Add("process_jobs", {"ix_process_jobs_id", "ix_process_jobs_ingest_id"}),
       Create("audit_logs", {"id", "action", "entity_id", "entity_type",
           "details", "created_at"}),
       Add("audit_logs", {"ix_audit_logs_entity_id"}) >>

InitialCompany ==
    << Create("company_settings", Stamps \cup {"nit", "nombre", "ciudad",
           "codigo_ciiu", "iva_responsable", "tasa_retefuente_servicios",
           "tasa_retefuente_bienes", "tasa_retefuente_arrendamiento",
           "tasa_reteica", "tasa_iva_general", "tasa_ica", "tasa_renta"}),
       Create("reteica_tarifas", {"id", "municipio", "ciiu_seccion", "tasa",
           "fuente", "created_at"}),
       Add("reteica_tarifas", {"ix_reteica_tarifas_municipio"}) >>

InitialStatements ==
    << CreateMissing("vector_documents", {"id", "collection_name", "content",
           "metadata", "embedding", "content_tsv", "created_at"}),
       AddMissing("vector_documents", {"ix_vector_documents_collection_name",
           "ix_vector_documents_content_tsv_gin",
           "ix_vector_documents_embedding_hnsw"}),
       Create("financial_statements", {"id", "ingest_id", "statement_type",
           "period_start", "period_end", "entity_nit", "data", "created_at"}),
       Add("financial_statements", {"ix_financial_statements_id",
           "ix_financial_statements_ingest_id"}) >>

InitialDown ==
    << Drop("financial_statements", {"ix_financial_statements_id",
           "ix_financial_statements_ingest_id"}),
       DropTable("financial_statements"),
       DropTableAny("vector_documents"),
       DropTable("reteica_tarifas"),
       DropTable("company_settings"),
       Drop("audit_logs", {"ix_audit_logs_entity_id"}),
       DropTable("audit_logs"),
       Drop("process_jobs", {"ix_process_jobs_id", "ix_process_jobs_ingest_id"}),
       DropTable("process_jobs"),
       Drop("journal_entry_lines", {"ix_journal_entry_lines_cuenta_puc",
           "ix_journal_entry_lines_transaction_posted_id",
           "ix_journal_entry_lines_tercero_nit"}),
       DropTable("journal_entry_lines"),
       Drop("transactions_posted", {"ix_transactions_posted_id",
           "ix_transactions_posted_transaction_pending_id",
           "ix_transactions_posted_cuenta_puc"}),
       DropTable("transactions_posted"),
       Drop("transactions_pending", {"ix_transactions_pending_id",
           "ix_transactions_pending_ingest_id",
           "ix_transactions_pending_nit_emisor",
           "ix_transactions_pending_nit_receptor"}),
       DropTable("transactions_pending"),
       Drop("ingest_jobs", {"ix_ingest_jobs_id"}), DropTable("ingest_jobs"),
       Drop("cuentas_puc", {"ix_cuentas_puc_codigo"}), DropTable("cuentas_puc"),
       Drop("terceros", {"ix_terceros_nit"}), DropTable("terceros"),
       DropTableAny("processstatus"), DropTableAny("transactionstatus"),
       DropTableAny("ingeststatus"), DropTableAny("naturalezacuenta"),
       DropTableAny("tercerotipo") >>

Rev_8fb1b0855393 ==
    Revision({}, InitialTypes \o InitialIngest \o InitialLedger
                 \o InitialCompany \o InitialStatements, InitialDown)

\* Mutant: the downgrade does not look which tables the upgrade found
Rev_a1b2c3d4e5f6_Strict ==
    Revision({"8fb1b0855393"},
     << AddIfTable("cuentas_puc", {"deleted_at", "ix_cuentas_puc_deleted_at"}),
        AddIfTable("user_company",
            {"deleted_at", "ix_user_company_deleted_at"}) >>,
     << Drop("user_company", {"deleted_at", "ix_user_company_deleted_at"}),
        Drop("cuentas_puc", {"deleted_at", "ix_cuentas_puc_deleted_at"}) >>)

\* deleted_at for whichever of four tables exist: two of them, from scratch
Rev_a1b2c3d4e5f6 ==
    Revision({"8fb1b0855393"},
     << AddIfTable("transactions_posted",
            {"deleted_at", "ix_transactions_posted_deleted_at"}),
        AddIfTable("chat_sessions", {"deleted_at", "ix_chat_sessions_deleted_at"}),
        AddIfTable("cuentas_puc", {"deleted_at", "ix_cuentas_puc_deleted_at"}),
        AddIfTable("user_company",
            {"deleted_at", "ix_user_company_deleted_at"}) >>,
     << DropAny("user_company", {"deleted_at", "ix_user_company_deleted_at"}),
        DropAny("cuentas_puc", {"deleted_at", "ix_cuentas_puc_deleted_at"}),
        DropAny("chat_sessions", {"deleted_at", "ix_chat_sessions_deleted_at"}),
        DropAny("transactions_posted",
            {"deleted_at", "ix_transactions_posted_deleted_at"}) >>)

Rev_e1a2f3b4c5d6 ==
    Revision({"a1b2c3d4e5f6"},
     << AddMissing("transactions_pending", {"company_nit"}),
        AddMissing("transactions_posted", {"company_nit"}),
        AddMissing("journal_entry_lines", {"company_nit"}),
        AddMissing("financial_statements", {"source_mode"}),
        IndexMissing("transactions_pending", {"company_nit"},
            {"ix_transactions_pending_company_nit"}),
        IndexMissing("transactions_posted", {"company_nit"},
            {"ix_transactions_posted_company_nit"}),
        IndexMissing("journal_entry_lines", {"company_nit"},
            {"ix_journal_entry_lines_company_nit"}),
        AddMissing("financial_statements",
            {"ix_financial_statements_entity_nit",
             "ix_financial_statements_entity_type_period"}),
        CreateMissing("financial_statement_lineage",
            {"id", "target_statement_id", "source_statement_id",
             "relation_type", "created_at", "ix_financial_statement_lineage_id",
             "ix_financial_statement_lineage_target_statement_id",
             "ix_financial_statement_lineage_source_statement_id"}) >>,
     << Drop("financial_statement_lineage",
            {"ix_financial_statement_lineage_id",
             "ix_financial_statement_lineage_target_statement_id",
             "ix_financial_statement_lineage_source_statement_id"}),
        DropTable("financial_statement_lineage"),
        Drop("financial_statements",
            {"ix_financial_statements_entity_nit", "source_mode",
             "ix_financial_statements_entity_type_period"}),
        Drop("journal_entry_lines",
            {"ix_journal_entry_lines_company_nit", "company_nit"}),
        Drop("transactions_posted",
            {"ix_transactions_posted_company_nit", "company_nit"}),
        Drop("transactions_pending",
            {"ix_transactions_pending_company_nit", "company_nit"}) >>)

\* Mutant: without IF NOT EXISTS
Rev_f3a4b5c6d7e8_Strict ==
    Revision({"e1a2f3b4c5d6"},
     << Add("transactions_posted", {"ica", "provision_renta"}) >>,
     << Drop("transactions_posted", {"ica", "provision_renta"}) >>)

\* The columns are those of the initial schema: upgrade() finds them there,
\* downgrade() takes them away
Rev_f3a4b5c6d7e8 ==
    Revision({"e1a2f3b4c5d6"},
     << AddMissing("transactions_posted", {"ica", "provision_renta"}) >>,
     << Drop("transactions_posted", {"ica", "provision_renta"}) >>)

Rev_5bc6243a55b2 ==
    Revision({"f3a4b5c6d7e8"},
     << CreateMissing("chat_sessions", Stamps \cup {"id", "company_nit",
            "title", "ix_chat_sessions_company_nit",
            "ix_chat_sessions_created_at"}),
        CreateMissing("chat_messages", {"id", "session_id", "role", "content",
            "data_cards", "intent", "sources", "created_at",
            "ix_chat_messages_session_id", "ix_chat_messages_created_at"}) >>,
     << DropTable("chat_messages"), DropTable("chat_sessions") >>)

Rev_85397898945d ==
    Revision({"5bc6243a55b2"},
     << CreateMissing("tax_declaration_drafts", Stamps \cup {"id",
            "company_nit", "form_type", "period_start", "period_end", "year",
            "status", "fields_json", "warnings_json"}),
        AddMissing("tax_declaration_drafts",
            {"ix_tax_declaration_drafts_company_nit",
             "ix_tax_declaration_drafts_id"}),
        DropAny("chat_messages", {"ix_chat_messages_created_at"}),
        AddMissing("chat_messages", {"ix_chat_messages_id"}),
        DropAny("chat_sessions", {"ix_chat_sessions_created_at"}),
        AddMissing("chat_sessions", {"ix_chat_sessions_id"}),
        AddIfTable("company_settings", {"es_declarante"}),
        Alter("company_settings", {"tasa_ica", "tasa_renta"}),
        Alter("financial_statements", {"source_mode"}) >>,
     << Alter("financial_statements", {"source_mode"}),
        Alter("company_settings", {"tasa_ica", "tasa_renta"}),
        DropAny("company_settings", {"es_declarante"}),
        DropAny("chat_sessions", {"ix_chat_sessions_id"}),
        AddMissing("chat_sessions", {"ix_chat_sessions_created_at"}),
        DropAny("chat_messages", {"ix_chat_messages_id"}),
        AddMissing("chat_messages", {"ix_chat_messages_created_at"}),
        DropTableAny("tax_declaration_drafts") >>)

Rev_c7d8e9f0a1b2 ==
    Revision({"85397898945d"},
     << AddMissing("audit_logs", {"company_nit", "ix_audit_logs_company_nit"}),
        Alter("transactions_pending", {"company_nit"}),   \* the backfill reads
        Alter("transactions_posted", {"company_nit"}) >>, \* these
     << DropAny("audit_logs", {"ix_audit_logs_company_nit", "company_nit"}) >>)

Rev_d8e9f0a1b2c3 == Revision({"5bc6243a55b2"}, << >>, << >>)
Rev_b7d8c9a1e2f3 == Revision({"d8e9f0a1b2c3", "c7d8e9f0a1b2"}, << >>, << >>)

Rev_e0a1b2c3d4e5 ==
    Revision({"b7d8c9a1e2f3"},
     << AddMissing("chat_messages", {"reasoning"}) >>,
     << DropAny("chat_messages", {"reasoning"}) >>)

Rev_f2c3d4e5f6a7 == Revision({"e0a1b2c3d4e5"}, << >>, << >>)

Rev_f4c5d6e7a8b9 ==
    Revision({"f2c3d4e5f6a7"},
     << AddMissing("ingeststatus", {"PENDING_REVIEW"}),
        AddMissing("ingest_jobs",
            {"classification_confirmed", "classification_confidence"}) >>,
     << DropAny("ingest_jobs",
            {"classification_confidence", "classification_confirmed"}) >>)

Rev_a3b4c5d6e7f8 ==
    Revision({"f4c5d6e7a8b9"},
     << Op("ingest_jobs", TRUE, Table, {"company_nit"},
            {"company_nit", "ix_ingest_jobs_company_nit"}, {}) >>,
     << Op("ingest_jobs", TRUE, {"company_nit"}, {}, {},
            {"company_nit", "ix_ingest_jobs_company_nit"}) >>)

\* A label of an enum type cannot be removed: downgrade() leaves it
Rev_g5h6i7j8k9l0 ==
    Revision({"f4c5d6e7a8b9"},
     << AddMissing("processstatus",
            {"PENDING_AUDIT_REVIEW", "pending_audit_review"}) >>, << >>)

Rev_h6i7j8k9l0m1 == Revision({"g5h6i7j8k9l0"}, << >>, << >>)
Rev_33c6ac057344 == Revision({"a3b4c5d6e7f8", "h6i7j8k9l0m1"}, << >>, << >>)

Rev_fb08f11836cb ==
    Revision({"33c6ac057344"},
     << Create("user_company", {"user_id", "company_nit", "joined_at"}),
        Add("user_company", {"idx_user_company_user_id",
            "idx_user_company_company_nit"}) >>,
     << Drop("user_company", {"idx_user_company_user_id",
            "idx_user_company_company_nit"}),
        DropTable("user_company") >>)

Rev_i7j8k9l0m1n2 ==
    Revision({"fb08f11836cb"}, << Add("audit_logs", {"created_by"}) >>,
             << Drop("audit_logs", {"created_by"}) >>)

Rev_j8k9l0m1n2o3 ==
    Revision({"i7j8k9l0m1n2"},
     << Add("user_company", {"user_email", "ix_user_company_user_email"}) >>,
     << Drop("user_company", {"user_email", "ix_user_company_user_email"}) >>)

Rev_k9l0m1n2o3p4 ==
    Revision({"j8k9l0m1n2o3"},
     << AddMissing("company_settings", {"locked_pathway"}) >>,
     << DropAny("company_settings", {"locked_pathway"}) >>)

Rev_27d5044c4371 ==
    Revision({"k9l0m1n2o3p4"},
     << AddMissing("ingeststatus", {"CANCELLED"}),
        Add("ingest_jobs", {"parser_mode"}) >>,
     << Drop("ingest_jobs", {"parser_mode"}) >>)

Rev_a805015c381f ==
    Revision({"27d5044c4371"},
     << AddMissing("ingeststatus", {"CANCELLED"}) >>, << >>)

Rev_l0m1n2o3p4q5 ==
    Revision({"k9l0m1n2o3p4"},
     << AddMissing("company_settings", {"cuenta_ica_propio"}) >>,
     << DropAny("company_settings", {"cuenta_ica_propio"}) >>)

Rev_m1n2o3p4q5r6 == Revision({"a805015c381f", "l0m1n2o3p4q5"}, << >>, << >>)

Rev_n2o3p4q5r6s7 ==
    Revision({"m1n2o3p4q5r6"}, << Add("ingest_jobs", {"file_names"}) >>,
             << Drop("ingest_jobs", {"file_names"}) >>)

Rev_o3p4q5r6s7t8 ==
    Revision({"n2o3p4q5r6s7"},
     << Add("ingest_jobs", {"multi_file_mode", "current_file_index"}) >>,
     << Drop("ingest_jobs", {"multi_file_mode", "current_file_index"}) >>)

Rev_p4q5r6s7t8u9 ==
    Revision({"o3p4q5r6s7t8"},
     << Add("transactions_pending", {"source_file"}) >>,
     << Drop("transactions_pending", {"source_file"}) >>)

\* The column is that of the initial schema; dropping it drops the index
\* that the initial schema has on it
Rev_q5r6s7t8u9v0 ==
    Revision({"p4q5r6s7t8u9"},
     << AddMissing("vector_documents",
            {"content_tsv", "vector_documents_content_tsv_idx"}) >>,
     << Alter("vector_documents", {}),
        DropAny("vector_documents", {"vector_documents_content_tsv_idx",
            "content_tsv", "ix_vector_documents_content_tsv_gin"}) >>)

Rev_r6s7t8u9v0w1 ==
    Revision({"q5r6s7t8u9v0"},
     << CreateMissing("uvt_values", Stamps \cup {"year", "value", "decreto",
            "effective_from", "effective_to"}),
        CreateMissing("tax_base_minima", Stamps \cup {"id", "concepto",
            "uvt_units", "year", "effective_from", "effective_to",
            "tax_base_minima_concepto_year_key"}) >>,
     << DropTableAny("tax_base_minima"), DropTableAny("uvt_values") >>)

Rev_s7t8u9v0w1x2 ==
    Revision({"r6s7t8u9v0w1"},
     << CreateMissing("perdidas_fiscales_acumuladas", Stamps \cup {"id",
            "company_nit", "year", "monto_perdida", "monto_compensado",
            "monto_pendiente", "decreto", "notas", "idx_perdidas_company",
            "perdidas_fiscales_acumuladas_company_nit_year_key"}) >>,
     << DropTableAny("perdidas_fiscales_acumuladas") >>)

Rev_t8u9v0w1x2y3 ==
    Revision({"s7t8u9v0w1x2"},
     << AddMissing("transactions_posted", {"uq_transactions_posted_pending_id"}),
        AddMissing("reteica_tarifas", {"base_minima_uvt"}) >>,
     << DropAny("transactions_posted", {"uq_transactions_posted_pending_id"}),
        DropAny("reteica_tarifas", {"base_minima_uvt"}) >>)

Rev_u1v2w3x4y5z6 ==
    Revision({"t8u9v0w1x2y3"},
     << CreateMissing("tarifas_renta", Stamps \cup {"id", "regimen",
            "actividad", "tarifa_base", "sobretasa", "year_from", "year_to",
            "base_legal", "notas", "uq_tarifas_renta_key",
            "idx_tarifas_renta_year"}),
        AddMissing("company_settings",
            {"regimen_tributario", "actividad_economica"}) >>,
     << DropAny("company_settings",
            {"actividad_economica", "regimen_tributario"}),
        Op("tarifas_renta", TRUE, Table, {}, {}, {"idx_tarifas_renta_year"}),
        DropTableAny("tarifas_renta") >>)

Rev_v2w3x4y5z6a7 ==
    LET fields == {"reviewed_by", "reviewed_at", "filed_by", "filed_at",
                   "dian_acknowledgment", "reopened_at", "reopened_by",
                   "reopen_reason"} IN
    Revision({"u1v2w3x4y5z6"},
     << AddMissing("tax_declaration_drafts", fields) >>,
     << DropAny("tax_declaration_drafts", fields) >>)

Rev_w3x4y5z6a7b8 ==
    Revision({"v2w3x4y5z6a7"},
     << Rename("uvt_values", "decreto", "referencia_normativa") >>,
     << Rename("uvt_values", "referencia_normativa", "decreto") >>)

Rev_x4y5z6a7b8c9 ==
    LET names == {"tipo_iva", "transactions_posted_tipo_iva_check",
                  "ix_transactions_posted_tipo_iva"} IN
    Revision({"w3x4y5z6a7b8"}, << AddMissing("transactions_posted", names) >>,
             << DropAny("transactions_posted", names) >>)

Rev_y5z6a7b8c9d0 ==
    LET names == {"concepto_retencion", "tipo_persona_emisor",
                  "ix_transactions_posted_concepto_retencion",
                  "ix_transactions_posted_tipo_persona_emisor",
                  "transactions_posted_tipo_persona_emisor_check"} IN
    Revision({"x4y5z6a7b8c9"},
     << CreateMissing("tax_concepts", Stamps \cup {"code", "label",
            "renglon_350", "aplica_a", "tarifa_default", "base_minima_uvt",
            "categoria", "art_referencia", "activo"}),
        AddMissing("tax_concepts", {"tax_concepts_aplica_a_check",
            "ix_tax_concepts_categoria", "ix_tax_concepts_renglon_350"}),
        AddMissing("transactions_posted", names) >>,
     << DropAny("transactions_posted", names), DropTableAny("tax_concepts") >>)

Rev_z6a7b8c9d0e1 ==
    Revision({"y5z6a7b8c9d0"},
     << CreateMissing("ajustes_fiscales", Stamps \cup {"id", "company_nit",
            "year", "seccion", "concepto", "valor_contable", "valor_fiscal",
            "tipo_diferencia", "descripcion"}),
        AddMissing("ajustes_fiscales", {"ajustes_fiscales_seccion_check",
            "ajustes_fiscales_tipo_diferencia_check",
            "ajustes_fiscales_nit_year_seccion_concepto_key",
            "ix_ajustes_fiscales_nit_year", "ix_ajustes_fiscales_seccion"}) >>,
     << DropTableAny("ajustes_fiscales") >>)

Rev_a7b8c9d0e1f2 ==
    Revision({"z6a7b8c9d0e1"},
     << AddMissing("financial_statements", {"frequency"}),
        Alter("financial_statements", {"period_start", "period_end"}) >>,
     << DropAny("financial_statements", {"frequency"}) >>)

Rev_b8c9d0e1f2a3 ==
    Revision({"a7b8c9d0e1f2"},
     << CreateMissing("national_rates", {"code", "value", "descripcion",
            "norma_referencia", "vigente_desde", "updated_at"}) >>,
     << DropTableAny("national_rates") >>)

(***************************************************************************)
(* 515fdf0e01b9, generated from a comparison with the models: two tables,  *)
(* and the drift of the others                                             *)
(***************************************************************************)
ConfigTables ==
    << Create("company_puc_config", {"company_nit", "cuenta_codigo",
           "is_active", "custom_nombre", "updated_at",
           "ix_company_puc_config_company_nit"}),
       Create("company_rate_overrides", {"company_nit", "rate_code", "value",
           "norma_referencia", "vigente_desde", "updated_at",
           "ix_company_rate_overrides_company_nit"}),
       Alter("ajustes_fiscales", {"id", "seccion", "tipo_diferencia"} \cup Stamps),
       DropAny("ajustes_fiscales",
           {"ix_ajustes_fiscales_nit_year", "ix_ajustes_fiscales_seccion"}),
       IndexOn("ajustes_fiscales", {"company_nit"},
           {"ix_ajustes_fiscales_company_nit"}),
       Alter("audit_logs", {"company_nit", "created_by"}),
       Alter("company_settings", {"tasa_renta", "locked_pathway"}) >>

DriftUp ==
    << Alter("financial_statements", {"frequency"}),
       DropAny("financial_statements", {"ix_financial_statements_entity_nit",
           "ix_financial_statements_entity_type_period"}),
       Alter("ingest_jobs", {"classification_confidence", "company_nit"}),
       Alter("national_rates", {"code", "value", "norma_referencia",
           "vigente_desde", "updated_at"}),
       Alter("perdidas_fiscales_acumuladas", {"company_nit", "year",
           "monto_perdida", "monto_compensado", "monto_pendiente", "decreto"}),
       DropAny("perdidas_fiscales_acumuladas", {"idx_perdidas_company",
           "perdidas_fiscales_acumuladas_company_nit_year_key"}),
       IndexOn("perdidas_fiscales_acumuladas", {"company_nit"},
           {"ix_perdidas_fiscales_acumuladas_company_nit"}),
       Alter("reteica_tarifas",
           {"municipio", "ciiu_seccion", "fuente", "base_minima_uvt"}) >>

DriftUpRates ==
    << Alter("tarifas_renta", {"actividad", "sobretasa"}),
       Alter("tax_base_minima",
           {"concepto", "uvt_units", "year", "effective_from", "effective_to"}),
       DropAny("tax_base_minima", {"tax_base_minima_concepto_year_key"}),
       IndexOn("tax_base_minima", {"concepto", "year"},
           {"ix_tax_base_minima_concepto", "ix_tax_base_minima_year"}),
       Alter("tax_concepts", {"code", "renglon_350", "aplica_a",
           "tarifa_default", "base_minima_uvt", "categoria"} \cup Stamps),
       DropAny("tax_concepts",
           {"ix_tax_concepts_categoria", "ix_tax_concepts_renglon_350"}),
       Alter("tax_declaration_drafts", {"dian_acknowledgment"}),
       DropAny("transactions_posted", {"uq_transactions_posted_pending_id"}),
       DropAny("user_company",
           {"idx_user_company_company_nit", "idx_user_company_user_id"}),
       Alter("uvt_values", {"year", "value", "referencia_normativa",
           "effective_from", "effective_to"}) >>

DriftDown ==
    << Alter("uvt_values", {"year", "value", "referencia_normativa",
           "effective_from", "effective_to"}),
       Add("user_company",
           {"idx_user_company_company_nit", "idx_user_company_user_id"}),
       Add("transactions_posted", {"uq_transactions_posted_pending_id"}),
       Alter("tax_declaration_drafts", {"dian_acknowledgment"}),
       Add("tax_concepts",
           {"ix_tax_concepts_categoria", "ix_tax_concepts_renglon_350"}),
       Alter("tax_concepts", {"code", "renglon_350", "aplica_a",
           "tarifa_default", "base_minima_uvt", "categoria"} \cup Stamps) >>

DriftDownRates ==
    << DropAny("tax_base_minima",
           {"ix_tax_base_minima_concepto", "ix_tax_base_minima_year"}),
       Add("tax_base_minima", {"tax_base_minima_concepto_year_key"}),
       Alter("tax_base_minima",
           {"concepto", "uvt_units", "year", "effective_from", "effective_to"}),
       Alter("tarifas_renta", {"actividad", "sobretasa"}),
       Alter("reteica_tarifas",
           {"municipio", "ciiu_seccion", "fuente", "base_minima_uvt"}),
       DropAny("perdidas_fiscales_acumuladas",
           {"ix_perdidas_fiscales_acumuladas_company_nit"}),
       Add("perdidas_fiscales_acumuladas", {"idx_perdidas_company",
           "perdidas_fiscales_acumuladas_company_nit_year_key"}) >>

\* The last statement but the drops turns text into uuid, for which
\* PostgreSQL has no automatic cast
ConfigTablesDown ==
    << Alter("perdidas_fiscales_acumuladas", {"company_nit", "year",
           "monto_perdida", "monto_compensado", "monto_pendiente", "decreto"}),
       Alter("national_rates", {"code", "value", "norma_referencia",
           "vigente_desde", "updated_at"}),
       Alter("ingest_jobs", {"classification_confidence", "company_nit"}),
       Add("financial_statements", {"ix_financial_statements_entity_nit",
           "ix_financial_statements_entity_type_period"}),
       Alter("financial_statements", {"frequency"}),
       Alter("company_settings", {"tasa_renta", "locked_pathway"}),
       Alter("audit_logs", {"company_nit", "created_by"}),
       DropAny("ajustes_fiscales", {"ix_ajustes_fiscales_company_nit"}),
       Add("ajustes_fiscales",
           {"ix_ajustes_fiscales_nit_year", "ix_ajustes_fiscales_seccion"}),
       Uncastable("ajustes_fiscales"),
       DropTable("company_rate_overrides"), DropTable("company_puc_config") >>

Rev_515fdf0e01b9 ==
    Revision({"b8c9d0e1f2a3"}, ConfigTables \o DriftUp \o DriftUpRates,
             DriftDown \o DriftDownRates \o ConfigTablesDown)

\* Beside it: wider codes, and the unique key that both drop
Rev_c9d0e1f2a3b4 ==
    Revision({"b8c9d0e1f2a3"},
     << DropAny("tax_base_minima", {"tax_base_minima_concepto_year_key"}) >>,
     << AddMissing("tax_base_minima", {"tax_base_minima_concepto_year_key"}),
        Alter("tax_concepts", {"code"}) >>)

Rev_daba0a72d36b == Revision({"515fdf0e01b9", "c9d0e1f2a3b4"}, << >>, << >>)

Rev_b1c2d3e4f5a6 ==
    Revision({"daba0a72d36b"},
     << AddMissing("national_rates", {"vigente_hasta"}),
        AddMissing("company_rate_overrides", {"vigente_hasta"}) >>,
     << DropAny("company_rate_overrides", {"vigente_hasta"}),
        DropAny("national_rates", {"vigente_hasta"}) >>)

Rev_c2d3e4f5a6b7 ==
    Revision({"b1c2d3e4f5a6"},
     << CreateMissing("special_taxes", Stamps \cup {"id", "company_nit",
            "code", "nombre", "descripcion", "rate", "base_calc",
            "base_calc_formula", "applies_to_doc_types",
            "es_entidad_publica_only", "settlement", "cuenta_gasto",
            "cuenta_por_pagar", "norma_referencia", "vigente_desde",
            "vigente_hasta", "activo", "uq_special_taxes_nit_code",
            "ix_special_taxes_company_nit"}),
        CreateMissing("special_tax_accumulators", Stamps \cup {"id",
            "special_tax_id", "company_nit", "period_year", "period_month",
            "accumulated_base", "accumulated_tax", "liquidated",
            "liquidated_at", "uq_special_tax_accumulators_tax_period",
            "ix_special_tax_accumulators_special_tax_id",
            "ix_special_tax_accumulators_company_nit"}) >>,
     << DropTableAny("special_tax_accumulators"),
        DropTableAny("special_taxes") >>)

\* Mutant: one of the two tables only
Rev_d9e0f1a2b3c4_Partial ==
    Revision({"c2d3e4f5a6b7"},
     << AddMissing("user_company",
            {"deleted_at", "ix_user_company_deleted_at"}) >>,
     << DropAny("user_company",
            {"deleted_at", "ix_user_company_deleted_at"}) >>)

\* The two tables that a1b2c3d4e5f6 does not find
Rev_d9e0f1a2b3c4 ==
    Revision({"c2d3e4f5a6b7"},
     << AddMissing("chat_sessions", {"deleted_at", "ix_chat_sessions_deleted_at"}),
        AddMissing("user_company",
            {"deleted_at", "ix_user_company_deleted_at"}) >>,
     << DropAny("user_company", {"deleted_at", "ix_user_company_deleted_at"}),
        DropAny("chat_sessions",
            {"deleted_at", "ix_chat_sessions_deleted_at"}) >>)

Rev_e0f1a2b3c4d5 ==
    Revision({"d9e0f1a2b3c4"}, << Alter("user_company", {"user_id"}) >>,
             << Alter("user_company", {"user_id"}) >>)

\* The two tables that it does find, unless the database is older than it
Rev_f1a2b3c4d5e6 ==
    Revision({"e0f1a2b3c4d5"},
     << AddMissing("cuentas_puc", {"deleted_at", "ix_cuentas_puc_deleted_at"}),
        AddMissing("transactions_posted",
            {"deleted_at", "ix_transactions_posted_deleted_at"}) >>,
     << DropAny("transactions_posted",
            {"deleted_at", "ix_transactions_posted_deleted_at"}),
        DropAny("cuentas_puc", {"deleted_at", "ix_cuentas_puc_deleted_at"}) >>)

Rev_f2b3c4d5e6a7 ==
    Revision({"f1a2b3c4d5e6"},
     << IndexMissing("company_puc_config", {"cuenta_codigo"},
            {"ix_company_puc_config_cuenta_codigo"}),
        IndexMissing("user_company", {"company_nit"},
            {"ix_user_company_company_nit"}) >>,
     << DropAny("company_puc_config", {"ix_company_puc_config_cuenta_codigo"}),
        DropAny("user_company", {"ix_user_company_company_nit"}) >>)

\* Row-level security as production has it: the tables, and the column of
\* each policy that names the company (alembic_version is not kept here)
RlsTables == <<"ajustes_fiscales", "audit_logs", "chat_messages",
    "chat_sessions", "company_puc_config", "company_rate_overrides",
    "company_settings", "cuentas_puc", "financial_statement_lineage",
    "financial_statements", "ingest_jobs", "journal_entry_lines",
    "national_rates", "perdidas_fiscales_acumuladas", "process_jobs",
    "reteica_tarifas", "special_tax_accumulators", "special_taxes",
    "tarifas_renta", "tax_base_minima", "tax_concepts",
    "tax_declaration_drafts", "terceros", "transactions_pending",
    "transactions_posted", "user_company", "uvt_values", "vector_documents">>

Tenant ==
    [t \in {"ajustes_fiscales", "audit_logs", "chat_sessions",
            "company_puc_config", "company_rate_overrides", "ingest_jobs",
            "journal_entry_lines", "perdidas_fiscales_acumuladas",
            "special_tax_accumulators", "special_taxes",
            "tax_declaration_drafts", "transactions_pending",
            "transactions_posted"} |-> "company_nit"]
    @@ ("company_settings" :> "nit") @@ ("financial_statements" :> "entity_nit")
    @@ ("chat_messages" :> "session_id") @@ ("process_jobs" :> "ingest_id")
    @@ ("user_company" :> "user_id")

Rev_a3c4d5e6f7b8 ==
    LET tables == RlsTables
        policies == SelectSeq(tables, LAMBDA t : t \in DOMAIN Tenant) IN
    Revision({"f2b3c4d5e6a7"},
     IF ~Supabase THEN << >>
     ELSE [i \in DOMAIN tables |-> AddMissing(tables[i], {"rls"})]
          \o << Alter("user_company", {"company_nit", "deleted_at"}) >>
          \o [i \in DOMAIN policies |->
                IndexMissing(policies[i], {Tenant[policies[i]]}, {"policy"})],
     IF ~Supabase THEN << >>
     ELSE [i \in DOMAIN policies |-> DropAny(policies[i], {"policy"})]
          \o [i \in DOMAIN tables |-> Drop(tables[i], {"rls"})])

Rev_f1e2d3c4b5a6 ==
    Revision({"a3c4d5e6f7b8"},
     << AddMissing("vector_documents",
            {"embedding", "ix_vector_documents_embedding_hnsw"}) >>,
     << Alter("vector_documents", {}),
        DropAny("vector_documents",
            {"ix_vector_documents_embedding_hnsw", "embedding"}) >>)

Rev_g2f3e4d5c6b7 ==
    Revision({"f1e2d3c4b5a6"},
     << Create("ingest_files", {"id", "ingest_id", "file_name", "content",
            "created_at"}),
        Add("ingest_files",
            {"ix_ingest_files_ingest_id", "ix_ingest_files_created_at"}) >>,
     << Drop("ingest_files",
            {"ix_ingest_files_ingest_id", "ix_ingest_files_created_at"}),
        DropTable("ingest_files") >>)

Rev_h3i4j5k6l7m8 ==
    Revision({"g2f3e4d5c6b7"},
     << Create("parse_cache", {"content_sha256", "parser_mode", "raw_text",
            "created_at", "ix_parse_cache_created_at"}) >>,
     << Drop("parse_cache", {"ix_parse_cache_created_at"}),
        DropTable("parse_cache") >>)
=============================================================================
