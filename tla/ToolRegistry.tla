---------------------------- MODULE ToolRegistry ----------------------------
(***************************************************************************)
(* The catalog of MCP tools and its filter (packages/mcp/catalog.py).  Of a *)
(* tool's input schema, params keeps the parameters that the dispatcher or  *)
(* the pipeline behind it reads; the rest is "detail".                     *)
(***************************************************************************)
EXTENDS PolicyEngine

NoOperation == "none"   \* operation_type is None: the tool only reads

Tool(name, category, operation, params) ==
  [name |-> name, category |-> category, operation |-> operation,
   params |-> params \cup {"detail"}]

ReadTool(name, category) == Tool(name, category, NoOperation, {})

OrderTools ==
  {Tool("payments_create_order", "ORDERS", "CREATE_ORDER", {"amount", "currency"}),
   ReadTool("payments_fetch_order", "ORDERS"),
   ReadTool("payments_fetch_all_orders", "ORDERS"),
   ReadTool("payments_fetch_payment", "PAYMENTS"),
   ReadTool("payments_fetch_all_payments", "PAYMENTS"),
   Tool("payments_capture_payment", "PAYMENTS", "CAPTURE_PAYMENT",
        {"amount", "currency", "payment_id"})}

PaymentLinkTools ==
  {Tool("payments_create_payment_link", "PAYMENT_LINKS", "CREATE_PAYMENT_LINK",
        {"amount", "currency"}),
   ReadTool("payments_fetch_payment_link", "PAYMENT_LINKS"),
   Tool("payments_cancel_payment_link", "PAYMENT_LINKS", "CANCEL_PAYMENT_LINK", {})}

RefundTools ==
  {Tool("payments_create_refund", "REFUNDS", "CREATE_REFUND", {"amount", "payment_id"}),
   ReadTool("payments_fetch_refund", "REFUNDS"),
   ReadTool("payments_fetch_all_refunds", "REFUNDS")}

(* The amount of a QR code is its payment_amount, which nobody reads. *)
QrCodeTools ==
  {Tool("qr_codes_create", "QR_CODES", "CREATE_ORDER", {}),
   ReadTool("qr_codes_fetch_by_id", "QR_CODES"),
   ReadTool("qr_codes_close", "QR_CODES")}

SettlementTools ==
  {ReadTool("settlements_fetch_all", "SETTLEMENTS"),
   ReadTool("settlements_fetch_by_id", "SETTLEMENTS"),
   ReadTool("settlements_fetch_combined_report", "SETTLEMENTS")}

InvoiceTools ==
  {Tool("invoices_create", "INVOICES", "CREATE_PAYMENT_LINK", {"amount"}),
   ReadTool("invoices_fetch_by_id", "INVOICES"),
   Tool("invoices_cancel", "INVOICES", "CANCEL_PAYMENT_LINK", {})}

CustomerTools ==
  {ReadTool("customers_create", "CUSTOMERS"),
   ReadTool("customers_fetch_by_id", "CUSTOMERS")}

PayoutTools ==
  {Tool("payouts_create", "PAYOUTS", NoOperation, {"amount", "currency"}),
   ReadTool("payouts_fetch_by_id", "PAYOUTS"),
   ReadTool("payouts_cancel", "PAYOUTS")}

Registry ==
  UNION {OrderTools, PaymentLinkTools, RefundTools, QrCodeTools, SettlementTools,
         InvoiceTools, CustomerTools, PayoutTools}
------------------------------------------------------------------------------
(* The categories that the allowed operations open; allowed_operations is a *)
(* list of any strings, some of which are no operation type.               *)
OpenedCategories(allowed) ==
  (IF "CREATE_ORDER" \in allowed THEN {"ORDERS"} ELSE {})
    \cup (IF allowed \cap {"CREATE_PAYMENT_LINK", "CANCEL_PAYMENT_LINK"} # {}
          THEN {"PAYMENT_LINKS"} ELSE {})
    \cup (IF "CREATE_REFUND" \in allowed THEN {"REFUNDS"} ELSE {})
    \cup (IF "CREATE_INVOICE" \in allowed THEN {"INVOICES"} ELSE {})
    \cup (IF "CREATE_SUBSCRIPTION" \in allowed THEN {"SUBSCRIPTIONS"} ELSE {})
    \cup (allowed \cap {"PAYOUTS", "SETTLEMENTS"})

CategoriesOfType(agentType) ==
  CASE agentType = "SHOPPING" -> {"ORDERS", "PAYMENT_LINKS"}
    [] agentType = "PROCUREMENT" -> {"ORDERS"}
    [] agentType = "SUPPORT" -> {"REFUNDS"}
    [] OTHER -> {}

(* No operation opened a category: the agent's type decides. *)
AllowedCategories(agentType, allowed) ==
  IF OpenedCategories(allowed) # {} THEN OpenedCategories(allowed)
  ELSE CategoriesOfType(agentType)

(* Mutation: the category is the only gate. *)
FilteredByCategory(agentType, allowed) ==
  {tool \in Registry : tool.category \in AllowedCategories(agentType, allowed)}

(* get_filtered_mcp_tools *)
Filtered(agentType, allowed) ==
  {tool \in Registry : /\ tool.category \in AllowedCategories(agentType, allowed)
                       /\ tool.operation # NoOperation => tool.operation \in allowed}
==============================================================================
