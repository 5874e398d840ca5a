--------------------------------- MODULE Schema ---------------------------------
(***************************************************************************)
(* The database: the statements of createSchema, in their order, and the   *)
(* rows as schema.ts types them for the repositories.  A column is its     *)
(* name; a table tells the columns of its key, those that must have a      *)
(* value and those that need not.                                          *)
(***************************************************************************)
EXTENDS Integers, Sequences, FiniteSets, SequencesExt, TLC

Table(name, key, required, optional) ==
    [kind |-> "table", name |-> name, key |-> key, required |-> required,
     optional |-> optional, parent |-> <<>>]
(* A table whose column refers to the id of another.                       *)
ChildTable(name, key, column, parent, required, optional) ==
    [kind |-> "table", name |-> name, key |-> key, required |-> required,
     optional |-> optional, parent |-> <<[column |-> column, name |-> parent]>>]
Index(name, columns) == [kind |-> "index", name |-> name, columns |-> columns]
Unique(name, columns) == [kind |-> "unique", name |-> name, columns |-> columns]

(* The configuration, control numbers and keys.                            *)
ConfigStatements ==
    <<Table("tenant", {"id"}, {"name", "created_at"}, {}),
      Table("trading_partner", {"id"}, {"tenant_id", "name", "isa_qualifier", "isa_id",
            "created_at"}, {}),
      Table("trading_relationship", {"id"}, {"tenant_id", "partner_id", "mode",
            "format_authority", "tenant_role", "version", "envelope", "active",
            "version_no", "created_at", "updated_at"}, {}),
      Table("relationship_document", {"id"}, {"relationship_id", "doc_type", "direction",
            "enabled"}, {"spec_id", "partner_map_id", "connector_instance_id"}),
      Table("connector_instance", {"id"}, {"tenant_id", "connector_type", "name",
            "settings", "trigger", "created_at"}, {"vault_ref"}),
      Table("connector_map", {"id"}, {"tenant_id", "connector_instance_id", "doc_type",
            "direction", "definition", "version_no", "created_at"}, {}),
      Table("partner_map", {"id"}, {"tenant_id", "doc_type", "direction", "definition",
            "version_no", "created_at"}, {}),
      Table("doc_spec", {"id"}, {"tenant_id", "doc_type", "version", "owner", "definition",
            "created_at"}, {}),
      Table("transport_instance", {"id"}, {"tenant_id", "transport_type", "settings",
            "direction", "created_at"}, {"vault_ref"}),
      Table("control_number_seq", {"id"}, {"tenant_id", "scope", "current_value"}, {}),
      Unique("control_number_seq", {"tenant_id", "scope"}),
      Table("api_key", {"id"}, {"tenant_id", "name", "key_hash", "created_at", "revoked"},
            {}),
      Unique("api_key", {"key_hash"}),
      Table("config_audit", {"id"}, {"tenant_id", "entity_type", "entity_id", "action",
            "actor", "at"}, {"before", "after"})>>

(* What has been received.                                                 *)
ReceiptStatements ==
    <<Table("raw_artifact", {"tenant_id", "id"}, {"source", "bytes", "size",
            "received_at"}, {}),
      Table("dedup_ledger", {"id"}, {"tenant_id", "dedup_key", "first_artifact_id",
            "first_fingerprint", "first_seen_at", "occurrences"}, {}),
      Unique("dedup_ledger", {"tenant_id", "dedup_key"}),
      Table("interchange", {"id"}, {"tenant_id", "artifact_id", "direction", "dedup_key",
            "isa13", "sender_id", "receiver_id", "status", "occurrence", "conflict",
            "received_at"}, {"relationship_id"})>>

(* A translated document in rows of its own.                               *)
TransactionStatements ==
    <<Table("transaction", {"id"}, {"tenant_id", "direction", "doc_type",
            "transaction_control_number", "functional_group_control_number", "line_count",
            "current_state", "conformant", "received_at", "created_at", "updated_at"},
            {"relationship_id", "interchange_id", "po_number", "reason", "validated_at",
            "delivered_at", "acknowledged_at"}),
      Index("transaction", {"tenant_id", "current_state"}),
      Index("transaction", {"tenant_id", "doc_type", "po_number"}),
      ChildTable("transaction_850", {"transaction_id"}, "transaction_id", "transaction",
            {"tenant_id"}, {"purpose_code", "po_type", "po_date", "requested_ship_date"}),
      ChildTable("transaction_810", {"transaction_id"}, "transaction_id", "transaction",
            {"tenant_id", "invoice_number"}, {"invoice_date", "total_amount", "tax_amount",
            "terms"}),
      ChildTable("transaction_855", {"transaction_id"}, "transaction_id", "transaction",
            {"tenant_id"}, {"purpose_code", "ack_type", "ack_date"}),
      ChildTable("transaction_856", {"transaction_id"}, "transaction_id", "transaction",
            {"tenant_id"}, {"shipment_id", "purpose", "ship_date", "carrier_scac",
            "tracking_number", "gross_weight", "weight_uom", "package_count"}),
      ChildTable("transaction_line", {"id"}, "transaction_id", "transaction", {"tenant_id",
            "transaction_id"}, {"line_number", "sku", "sku_qualifier", "quantity", "uom",
            "unit_price", "amount", "description"}),
      Index("transaction_line", {"transaction_id"}),
      Index("transaction_line", {"tenant_id", "sku"}),
      ChildTable("transaction_line_identifier", {"id"}, "line_id", "transaction_line",
            {"tenant_id", "line_id", "qualifier", "value"}, {}),
      Index("transaction_line_identifier", {"line_id"}),
      Index("transaction_line_identifier", {"tenant_id", "qualifier", "value"}),
      ChildTable("transaction_line_856", {"line_id"}, "line_id", "transaction_line",
            {"tenant_id"}, {"shipped_quantity", "ordered_quantity", "uom", "carton_id"}),
      ChildTable("transaction_line_855", {"line_id"}, "line_id", "transaction_line",
            {"tenant_id"}, {"ack_status", "ack_quantity", "reason"}),
      ChildTable("transaction_party", {"id"}, "transaction_id", "transaction", {"tenant_id",
            "transaction_id", "role"}, {"name", "id_code", "id_qualifier", "address1",
            "address2", "city", "region", "postal", "country"}),
      Index("transaction_party", {"transaction_id"}),
      ChildTable("transaction_reference", {"id"}, "transaction_id", "transaction", {"tenant_id",
            "transaction_id", "qualifier", "value"}, {}),
      Index("transaction_reference", {"transaction_id"}),
      ChildTable("transaction_date", {"id"}, "transaction_id", "transaction", {"tenant_id",
            "transaction_id", "qualifier", "value"}, {}),
      Index("transaction_date", {"transaction_id"}),
      Table("transaction_event", {"id"}, {"tenant_id", "transaction_id", "state", "at"},
            {"detail"})>>

(* What became of it.                                                      *)
ProcessingStatements ==
    <<Table("processing_event", {"id"}, {"tenant_id", "relationship_id", "outcome",
            "source", "received_at", "artifact_id", "dedup_key", "occurrence", "delivered",
            "needs_review", "created_at"}, {"transaction_id", "interchange_id", "doc_type",
            "functional_group_control_number", "transaction_control_number",
            "first_artifact_id", "first_seen_at", "valid", "error_count",
            "ack_control_number", "note", "resolution", "resolved_at", "resolved_by",
            "resolution_note", "resolution_event_id"}),
      Index("processing_event", {"tenant_id", "needs_review"}),
      Index("processing_event", {"tenant_id", "dedup_key"}),
      Table("conformance_issue", {"id"}, {"transaction_id", "level", "segment_tag",
            "segment_position", "error_code", "message"}, {"element_position",
            "bad_value"}),
      Table("acknowledgment", {"id"}, {"tenant_id", "relationship_id", "ack_type",
            "control_number", "group_control_number", "edi", "dispatched", "created_at"},
            {"interchange_id", "ak9", "dispatched_at"}),
      Table("delivery", {"id"}, {"tenant_id", "transaction_id", "format", "payload",
            "delivered_at", "status"}, {"connector_instance_id"}),
      Table("dispatch_queue", {"id"}, {"tenant_id", "status", "attempts", "created_at"},
            {"ack_id", "transaction_id", "transport_instance_id", "next_attempt_at"})>>

(* Onboarding.                                                             *)
CertificationStatements ==
    <<Table("certification_session", {"id"}, {"tenant_id", "relationship_id",
            "format_authority", "status", "created_at"}, {"spec_version", "certified_at",
            "certified_by"}),
      Index("certification_session", {"tenant_id", "relationship_id"}),
      Table("certification_doc", {"id"}, {"tenant_id", "session_id", "doc_type", "role",
            "direction", "produced_by", "validated_by", "status", "blocking",
            "attempt_count", "updated_at"}, {"reference_artifact_id"}),
      Index("certification_doc", {"session_id"}),
      Table("certification_test_file", {"id"}, {"tenant_id", "cert_doc_id",
            "raw_artifact_id", "uploaded_by", "attempt_no", "verdict", "correlated",
            "created_at"}, {}),
      Index("certification_test_file", {"cert_doc_id"}),
      Table("certification_issue", {"id"}, {"tenant_id", "test_file_id", "kind",
            "severity", "message", "directed_to", "status"}, {"segment", "element", "code",
            "ai_suggestion"}),
      Index("certification_issue", {"test_file_id"}),
      Table("certification_message", {"id"}, {"tenant_id", "session_id", "author_role",
            "body", "created_at"}, {"cert_doc_id", "related_issue_id", "author_user_id",
            "delivered_at"}),
      Index("certification_message", {"session_id"}),
      Table("certification_event", {"id"}, {"tenant_id", "session_id", "actor", "verb",
            "created_at", "seq"}, {"doc_type", "detail"}),
      Index("certification_event", {"session_id", "seq"})>>

(* Users and sessions.                                                     *)
IdentityStatements ==
    <<Table("console_user", {"id"}, {"tenant_id", "email", "role", "password_hash",
            "password_salt", "created_at", "revoked"}, {}),
      Unique("console_user", {"email"}),
      Table("user_relationship_scope", {"id"}, {"user_id", "relationship_id"}, {}),
      Index("user_relationship_scope", {"user_id"}),
      Table("user_session", {"id"}, {"user_id", "token_hash", "created_at", "revoked"},
            {}),
      Unique("user_session", {"token_hash"})>>

(* Products and shops.                                                     *)
DropshipStatements ==
    <<Table("product_catalog", {"id"}, {"tenant_id", "sellable_sku", "relationship_id",
            "vendor_sku", "active"}, {"pack_size", "uom", "priority"}),
      Index("product_catalog", {"tenant_id", "sellable_sku"}),
      Unique("product_catalog", {"tenant_id", "sellable_sku", "relationship_id"}),
      Table("shopify_registration", {"id"}, {"tenant_id", "shop_domain", "secret",
            "prefixes", "created_at"}, {"connector_instance_id"}),
      Unique("shopify_registration", {"shop_domain"})>>

(* createSchema, statement by statement.                                   *)
Statements ==
    ConfigStatements \o ReceiptStatements \o TransactionStatements
        \o ProcessingStatements \o CertificationStatements
        \o IdentityStatements \o DropshipStatements

-------------------------------------------------------------------------------
(* The rows as the repositories' compiler sees them.                       *)
Row(required, optional) == [required |-> required, optional |-> optional]

ConfigTypes ==
    [tenant |-> Row({"id", "name", "created_at"}, {}),
     trading_partner |-> Row({"id", "tenant_id", "name", "isa_qualifier", "isa_id",
           "created_at"}, {}),
     trading_relationship |-> Row({"id", "tenant_id", "partner_id", "mode",
           "format_authority", "tenant_role", "version", "envelope", "active",
           "version_no", "created_at", "updated_at"}, {}),
     relationship_document |-> Row({"id", "relationship_id", "doc_type", "direction",
           "enabled"}, {"spec_id", "partner_map_id", "connector_instance_id"}),
     connector_instance |-> Row({"id", "tenant_id", "connector_type", "name", "settings",
           "trigger", "created_at"}, {"vault_ref"}),
     connector_map |-> Row({"id", "tenant_id", "connector_instance_id", "doc_type",
           "direction", "definition", "version_no", "created_at"}, {}),
     partner_map |-> Row({"id", "tenant_id", "doc_type", "direction", "definition",
           "version_no", "created_at"}, {}),
     doc_spec |-> Row({"id", "tenant_id", "doc_type", "version", "owner", "definition",
           "created_at"}, {}),
     transport_instance |-> Row({"id", "tenant_id", "transport_type", "settings",
           "direction", "created_at"}, {"vault_ref"}),
     control_number_seq |-> Row({"id", "tenant_id", "scope", "current_value"}, {}),
     api_key |-> Row({"id", "tenant_id", "name", "key_hash", "created_at", "revoked"}, {}),
     config_audit |-> Row({"id", "tenant_id", "entity_type", "entity_id", "action",
           "actor", "at"}, {"before", "after"})]

ReceiptTypes ==
    [raw_artifact |-> Row({"id", "tenant_id", "source", "bytes", "size", "received_at"},
           {}),
     dedup_ledger |-> Row({"id", "tenant_id", "dedup_key", "first_artifact_id",
           "first_fingerprint", "first_seen_at", "occurrences"}, {}),
     interchange |-> Row({"id", "tenant_id", "artifact_id", "direction", "dedup_key",
           "isa13", "sender_id", "receiver_id", "status", "occurrence", "conflict",
           "received_at"}, {"relationship_id"})]

TransactionTypes ==
    [transaction |-> Row({"id", "tenant_id", "direction", "doc_type",
           "transaction_control_number", "functional_group_control_number", "line_count",
           "current_state", "conformant", "received_at", "created_at", "updated_at"},
           {"relationship_id", "interchange_id", "po_number", "reason", "validated_at",
           "delivered_at", "acknowledged_at"}),
     transaction_850 |-> Row({"transaction_id", "tenant_id"}, {"purpose_code", "po_type",
           "po_date", "requested_ship_date"}),
     transaction_810 |-> Row({"transaction_id", "tenant_id", "invoice_number"},
           {"invoice_date", "total_amount", "tax_amount", "terms"}),
     transaction_855 |-> Row({"transaction_id", "tenant_id"}, {"purpose_code", "ack_type",
           "ack_date"}),
     transaction_856 |-> Row({"transaction_id", "tenant_id"}, {"shipment_id", "purpose",
           "ship_date", "carrier_scac", "tracking_number", "gross_weight", "weight_uom",
           "package_count"}),
     transaction_line |-> Row({"id", "tenant_id", "transaction_id"}, {"line_number", "sku",
           "sku_qualifier", "quantity", "uom", "unit_price", "amount", "description"}),
     transaction_line_identifier |-> Row({"id", "tenant_id", "line_id", "qualifier",
           "value"}, {}),
     transaction_line_856 |-> Row({"line_id", "tenant_id"}, {"shipped_quantity",
           "ordered_quantity", "uom", "carton_id"}),
     transaction_line_855 |-> Row({"line_id", "tenant_id"}, {"ack_status", "ack_quantity",
           "reason"}),
     transaction_party |-> Row({"id", "tenant_id", "transaction_id", "role"}, {"name",
           "id_code", "id_qualifier", "address1", "address2", "city", "region", "postal",
           "country"}),
     transaction_reference |-> Row({"id", "tenant_id", "transaction_id", "qualifier",
           "value"}, {}),
     transaction_date |-> Row({"id", "tenant_id", "transaction_id", "qualifier", "value"},
           {})]

ProcessingTypes ==
    [transaction_event |-> Row({"id", "tenant_id", "transaction_id", "state", "at"},
           {"detail"}),
     processing_event |-> Row({"id", "tenant_id", "relationship_id", "outcome", "source",
           "received_at", "artifact_id", "dedup_key", "occurrence", "delivered",
           "needs_review", "created_at"}, {"transaction_id", "interchange_id", "doc_type",
           "functional_group_control_number", "transaction_control_number",
           "first_artifact_id", "first_seen_at", "valid", "error_count",
           "ack_control_number", "note", "resolution", "resolved_at", "resolved_by",
           "resolution_note", "resolution_event_id"}),
     conformance_issue |-> Row({"id", "transaction_id", "level", "segment_tag",
           "segment_position", "error_code", "message"}, {"element_position",
           "bad_value"}),
     acknowledgment |-> Row({"id", "tenant_id", "relationship_id", "ack_type",
           "control_number", "group_control_number", "edi", "dispatched", "created_at"},
           {"interchange_id", "ak9", "dispatched_at"}),
     delivery |-> Row({"id", "tenant_id", "transaction_id", "format", "payload",
           "delivered_at", "status"}, {"connector_instance_id"}),
     dispatch_queue |-> Row({"id", "tenant_id", "status", "attempts", "created_at"},
           {"ack_id", "transaction_id", "transport_instance_id", "next_attempt_at"})]

CertificationTypes ==
    [certification_session |-> Row({"id", "tenant_id", "relationship_id",
           "format_authority", "status", "created_at"}, {"spec_version", "certified_at",
           "certified_by"}),
     certification_doc |-> Row({"id", "tenant_id", "session_id", "doc_type", "role",
           "direction", "produced_by", "validated_by", "status", "blocking",
           "attempt_count", "updated_at"}, {"reference_artifact_id"}),
     certification_test_file |-> Row({"id", "tenant_id", "cert_doc_id", "raw_artifact_id",
           "uploaded_by", "attempt_no", "verdict", "correlated", "created_at"}, {}),
     certification_issue |-> Row({"id", "tenant_id", "test_file_id", "kind", "severity",
           "message", "directed_to", "status"}, {"segment", "element", "code",
           "ai_suggestion"}),
     certification_message |-> Row({"id", "tenant_id", "session_id", "author_role", "body",
           "created_at"}, {"cert_doc_id", "related_issue_id", "author_user_id",
           "delivered_at"}),
     certification_event |-> Row({"id", "tenant_id", "session_id", "actor", "verb",
           "created_at", "seq"}, {"doc_type", "detail"})]

IdentityTypes ==
    [console_user |-> Row({"id", "tenant_id", "email", "role", "password_hash",
           "password_salt", "created_at", "revoked"}, {}),
     user_relationship_scope |-> Row({"id", "user_id", "relationship_id"}, {}),
     user_session |-> Row({"id", "user_id", "token_hash", "created_at", "revoked"}, {})]

DropshipTypes ==
    [product_catalog |-> Row({"id", "tenant_id", "sellable_sku", "relationship_id",
           "vendor_sku", "active"}, {"pack_size", "uom", "priority"}),
     shopify_registration |-> Row({"id", "tenant_id", "shop_domain", "secret", "prefixes",
           "created_at"}, {"connector_instance_id"})]

(* DB: every table of every plane.                                         *)
RowTypes ==
    ConfigTypes @@ ReceiptTypes @@ TransactionTypes @@ ProcessingTypes
        @@ CertificationTypes @@ IdentityTypes @@ DropshipTypes

(* What the upserts of the repositories name as their conflict, and what   *)
(* their lookups take the only row of.                                     *)
Key(name, columns) == [name |-> name, columns |-> columns]
ConflictTargets ==
    {Key("trading_relationship", {"id"}), Key("connector_instance", {"id"}),
     Key("connector_map", {"id"}), Key("partner_map", {"id"}), Key("doc_spec", {"id"}),
     Key("transport_instance", {"id"}), Key("raw_artifact", {"tenant_id", "id"}),
     Key("dedup_ledger", {"tenant_id", "dedup_key"}),
     Key("control_number_seq", {"tenant_id", "scope"}),
     Key("product_catalog", {"tenant_id", "sellable_sku", "relationship_id"}),
     Key("shopify_registration", {"shop_domain"})}
SingleRows ==
    {Key("console_user", {"email"}), Key("user_session", {"token_hash"}),
     Key("api_key", {"key_hash"})}
===============================================================================
