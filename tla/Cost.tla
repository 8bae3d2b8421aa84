-------------------------------- MODULE Cost --------------------------------
(***************************************************************************)
(* The cost of a stream: Calculator.Calculate and BuildEvent.  Prices per  *)
(* thousand tokens are integers here, so a truncated quotient stands for   *)
(* the conversion of Go's float64 to int.  Nil is a price not configured.  *)
(***************************************************************************)
EXTENDS GatewayConfig

\* The row of (vendor, model); 0 when there is none.
PriceRowByModel(pricing, vendor, model) ==
    LET rows == {i \in DOMAIN pricing : pricing[i].model = model}
    IN  IF rows = {} THEN 0 ELSE CHOOSE i \in rows : \A j \in rows : i <= j

lookupPrice(pricing, vendor, model) ==
    LET rows == {i \in DOMAIN pricing : pricing[i].vendor = vendor /\ pricing[i].model = model}
    IN  IF rows = {} THEN 0 ELSE CHOOSE i \in rows : \A j \in rows : i <= j

\* effectiveCacheReadPrice and effectiveCacheCreatePrice.
effectivePrice(price, fallback) == IF price = Nil THEN fallback ELSE price

Calculate(pricing, vendor, model, usage) ==
    LET n == lookupPrice(pricing, vendor, model)
        row == pricing[n]
        input == usage.input * row.input
        output == usage.output * row.output
        cacheRead == usage.cacheRead * effectivePrice(row.cacheRead, row.input)
        cacheCreate == usage.cacheCreate * effectivePrice(row.cacheCreate, row.input)
        guessed == \/ usage.cacheRead > 0 /\ row.cacheRead = Nil
                   \/ usage.cacheCreate > 0 /\ row.cacheCreate = Nil
    IN  IF n = 0
        THEN [total |-> 0, parts |-> <<0, 0, 0, 0>>, currency |-> "USD", source |-> "estimated"]
        ELSE [total    |-> (input + output + cacheRead + cacheCreate) \div 1000,
              parts    |-> <<input \div 1000, output \div 1000,
                             cacheRead \div 1000, cacheCreate \div 1000>>,
              currency |-> IF row.currency = "" THEN "USD" ELSE row.currency,
              source   |-> IF guessed THEN "estimated" ELSE "provider_usage"]

=============================================================================
