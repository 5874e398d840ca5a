-------------------------------- MODULE MCPlatform --------------------------------
(***************************************************************************)
(* Instances of the parts of the platform that share no state: every       *)
(* behaviour runs one of them and leaves the others at their start, so that*)
(* the run explores their sum and not their product.                       *)
(***************************************************************************)
EXTENDS Exchange, ExchangeSamples, ShopifyWebhook, Bootstrap, TransactionRows, Configuration,
        Access

CONSTANTS s1, s2   \* two servers

VARIABLE part   \* the part that runs

PlatformInit ==
    /\ part \in {"emission", "receipt", "correlation", "codec",
                 "shopify", "bootstrap", "rows", "config", "access"}
    /\ ExchangeInit /\ ShopifyInit /\ BootstrapInit /\ RowsInit /\ ConfigInit /\ AccessInit

ExchangeRuns ==
    /\ \/ part = "emission" /\ EmissionNext /\ UNCHANGED inspected
       \/ part = "receipt" /\ ReceiptNext
       \/ part = "correlation" /\ CorrelationNext
       \/ part = "codec" /\ CodecNext
    /\ UNCHANGED <<part, shopifyVars, bootstrapVars, rowsVars, configVars, accessVars>>

ShopifyRuns ==
    /\ part = "shopify" /\ ShopifyNext
    /\ UNCHANGED <<part, exchangeVars, bootstrapVars, rowsVars, configVars, accessVars>>

BootstrapRuns ==
    /\ part = "bootstrap" /\ BootstrapNext
    /\ UNCHANGED <<part, exchangeVars, shopifyVars, rowsVars, configVars, accessVars>>

RowsRun ==
    /\ part = "rows" /\ RowsNext
    /\ UNCHANGED <<part, exchangeVars, shopifyVars, bootstrapVars, configVars, accessVars>>

ConfigRuns ==
    /\ part = "config" /\ ConfigNext
    /\ UNCHANGED <<part, exchangeVars, shopifyVars, bootstrapVars, rowsVars, accessVars>>

AccessRuns ==
    /\ part = "access" /\ AccessNext
    /\ UNCHANGED <<part, exchangeVars, shopifyVars, bootstrapVars, rowsVars, configVars>>

PlatformNext ==
    ExchangeRuns \/ ShopifyRuns \/ BootstrapRuns \/ RowsRun \/ ConfigRuns \/ AccessRuns

PlatformSpec == PlatformInit /\ [][PlatformNext]_<<part, exchangeVars, shopifyVars,
                                    bootstrapVars, rowsVars, configVars, accessVars>>

(* Each part is in a state its handlers know.                              *)
PlatformTypeOK == EmissionTypeOK /\ ShopifyTypeOK /\ BootstrapTypeOK /\ RowsTypeOK /\ ConfigTypeOK

-------------------------------------------------------------------------------
(* Exchange                                                                *)
MCModulus == [isa |-> 2, st |-> 2]
MCLevels == <<Text("S", 1), Text("O", 1), Text("I", 1)>>

ServersAlike == Permutations(Servers)

(* ShopifyWebhook: a SKU that two vendors have at different priorities, one*)
(* under two prefixes, one nobody has; a binding that is not active.       *)
ShopLine(sku, quantity, shopMoney, price) ==
    [sku |-> sku, quantity |-> quantity, shopMoney |-> shopMoney, price |-> price]
Binding(sku, vendor, vendorSku, pack, priority, active) ==
    [tenant |-> "t1", sku |-> sku, vendor |-> vendor, vendorSku |-> vendorSku, pack |-> pack,
     uom |-> IF pack = <<>> THEN <<>> ELSE <<"CA">>, priority |-> priority, active |-> active]
Prefix(vendor, prefix) == [vendor |-> vendor, prefix |-> prefix]

ShopOrderA ==
    [id |-> <<"9">>, name |-> <<<<"#", "1">>>>, number |-> <<>>, test |-> FALSE,
     lines |-> <<ShopLine(<<"X">>, 12, <<10>>, <<11>>),
                 ShopLine(<<"A", "B", "7">>, 1, <<>>, <<5>>),
                 ShopLine(<<" ", "X">>, 3, <<10>>, <<>>)>>]
ShopOrderB ==
    [id |-> <<"8">>, name |-> <<>>, number |-> <<<<"2">>>>, test |-> FALSE,
     lines |-> <<ShopLine(<<"A", "B", "7">>, 2, <<>>, <<>>), ShopLine(<<"Z">>, 1, <<4>>, <<>>)>>]
Webhook(shop, id, signed, order) == [shop |-> shop, id |-> id, signed |-> signed, order |-> order]

MCWebhooks ==
    {Webhook("s1", <<<<"w", "1">>>>, TRUE, ShopOrderA),
     Webhook("s1", <<>>, TRUE, ShopOrderB),
     Webhook("s1", <<<<"w", "3">>>>, TRUE, [ShopOrderB EXCEPT !.test = TRUE]),
     Webhook("s1", <<<<"w", "4">>>>, FALSE, ShopOrderB),
     Webhook("none", <<<<"w", "5">>>>, TRUE, ShopOrderB)}
MCRegistrations ==
    {[shop |-> "s1", tenant |-> "t1",
      prefixes |-> <<Prefix("v2", <<"A">>), Prefix("v3", <<"A", "B">>)>>]}
MCCatalog ==
    {Binding(<<"X">>, "v1", <<"x", "1">>, <<6>>, <<>>, TRUE),
     Binding(<<"X">>, "v2", <<"x", "2">>, <<>>, <<1>>, TRUE),
     Binding(<<"A", "B", "7">>, "v1", <<"o">>, <<>>, <<>>, FALSE)}
MCSheets ==
    {<<Binding(<<"Z">>, "v2", <<"z">>, <<1>>, <<>>, TRUE),
       Binding(<<>>, "v2", <<"z">>, <<>>, <<>>, TRUE),
       Binding(<<"X">>, "v2", <<"x">>, <<>>, <<0>>, TRUE)>>}

(* TransactionRows: a plain order, one with codes, and a ship notice of two*)
(* orders whose lines are out of order, unnumbered or unqualified and have *)
(* charges, with more that is not stored.                                  *)
Numbered(v, zeros) == <<[value |-> v, zeros |-> zeros]>>
Typed(type, value) == [type |-> type, value |-> value]
CanonicalLine(number, ids, quantity, charges) ==
    [number |-> number, ids |-> ids, quantity |-> <<quantity>>, price |-> <<5>>,
     description |-> <<>>, charges |-> charges, ack |-> <<>>]
CanonicalOrder(po, items) == [po |-> po, items |-> items]
CanonicalDoc(rest, orders, parties, references) ==
    [header |-> <<"h">>, codes |-> <<>>, rest |-> rest, orders |-> orders,
     parties |-> parties, references |-> references, dates |-> <<>>]
ShipTo(ids) == [role |-> "ST", ids |-> ids, address |-> "x"]
OrderToStore ==
    CanonicalDoc(<<>>, <<CanonicalOrder(<<"p">>,
        <<CanonicalLine(Numbered(1, 0), <<Typed(<<"UP">>, "a"), Typed(<<"VN">>, "b")>>, 3, <<>>),
          CanonicalLine(Numbered(2, 0), <<Typed(<<"VN">>, "c")>>, 1, <<>>)>>)>>,
        <<ShipTo(<<Typed(<<"92">>, "z")>>)>>, <<Typed(<<"r">>, "1")>>)
MCCanonicals ==
    {[docType |-> "850", doc |-> OrderToStore],
     [docType |-> "850",
      doc |-> [CanonicalDoc(<<>>, <<CanonicalOrder(<<"p">>, <<>>)>>, <<>>, <<>>)
                 EXCEPT !.codes = <<"00">>]],
     [docType |-> "856",
      doc |-> CanonicalDoc(<<"inbound">>,
         <<CanonicalOrder(<<"p">>,
              <<CanonicalLine(Numbered(2, 0), <<Typed(<<>>, "a")>>, 3, <<7>>),
                CanonicalLine(<<>>, <<Typed(<<>>, "d"), Typed(<<"VN">>, "b")>>, 3, <<>>)>>),
           CanonicalOrder(<<"q">>, <<CanonicalLine(Numbered(1, 2), <<>>, 4, <<>>)>>)>>,
         <<ShipTo(<<Typed(<<>>, "z"), Typed(<<"92">>, "y")>>)>>,
         <<Typed(<<>>, "1"), Typed(<<"r">>, "2")>>)]}

(* Configuration: a map that is not there yet and may be malformed, and a  *)
(* relationship that names it.                                             *)
Named(kind, id) == [kind |-> kind, id |-> id]
Flat(kind, id, valid) == [kind |-> kind, id |-> id, valid |-> valid]
OldRow(kind, id) ==
    [kind |-> kind, id |-> id, tenant |-> "t1", at |-> 0, born |-> 0, valid |-> TRUE]
OldPart(kind, id, refs) ==
    [kind |-> kind, id |-> id, tenant |-> "t1", at |-> 0, refs |-> refs]
MCFlats ==
    {Flat("map", "m1", TRUE), Flat("map", "m1", FALSE)}
MCBindings == {[id |-> "r1", refs |-> {Named("map", "m1"), Named("spec", "sp1")}]}
MCFirstFlats == {OldRow("spec", "sp1"), OldRow("transport", "x1")}
MCFirstHeaders == {OldRow("connector", "c1"), OldRow("relationship", "r1")}
MCFirstParts == {OldPart("connector", "c1", {}), OldPart("relationship", "r1", {Named("spec", "sp1")})}

(* Access: a partner scoped to two relationships, an operator.             *)
MCAccounts ==
    {[email |-> "p", role |-> "partner", scopes |-> <<"r1", "r2">>],
     [email |-> "o", role |-> "client_ops", scopes |-> <<>>]}
===================================================================================
