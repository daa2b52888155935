---------------------------- MODULE MCAnalytics ----------------------------
EXTENDS Analytics

Webhook(status, issuer, code) ==
  [event |-> IF status = "captured" THEN "payment.captured" ELSE "payment.failed",
   valid |-> TRUE, status |-> status, method |-> "card", currency |-> "INR",
   amount |-> 49999, bank |-> None, wallet |-> None, card |-> TRUE, issuer |-> issuer,
   network |-> "visa", error_code |-> code, error_reason |-> None]

ApiEvent(status, issuer, code) ==
  [method |-> "card", issuer |-> issuer, provider |-> "visa", amount |-> 49999,
   status |-> status, error_code |-> code]

Sent(name, entry, message, count, occurred) ==
  [name |-> name, entry |-> entry, message |-> message, count |-> count, occurred |-> occurred]

\* A baseline of successes, then three kinds of failures and a success at the
\* edges of windows and of the day; one cohort lacks its issuer.
Mixed ==
  {Sent("b1", "webhook", Webhook("captured", "hdfc", None), 10, 1),
   Sent("o1", "webhook", Webhook("failed", "hdfc", "A"), 6, 3),
   Sent("o2", "api", ApiEvent("failed", "hdfc", "B"), 6, 5),
   Sent("o3", "webhook", Webhook("failed", "hdfc", "C"), 2, 5),
   Sent("o4", "webhook", Webhook("failed", "spaces", "C"), 2, 4),
   Sent("o5", "webhook", Webhook("failed", "hdfc", "tab"), 1, 4),
   Sent("o7", "webhook", Webhook("failed", "nul", "A"), 1, 4),
   Sent("o6", "api", ApiEvent("success", "hdfc", "A"), 5, 4),
   Sent("b2", "webhook", Webhook("captured", "hdfc", None), 12, 6)}

\* An API event whose issuer is a tab.
Tabbed ==
  {Sent("o1", "webhook", Webhook("failed", "hdfc", "A"), 1, 4),
   Sent("o2", "api", ApiEvent("success", "tab", None), 1, 4)}

Collated == <<"A", "B", "C", "tab">>

Texts == {None, "spaces", "tab", "nul", "x"}

\* Webhooks with every field missing, blank, with a NUL or there.
AllWebhooks ==
  [event : {"payment.captured", "payment.failed", "payment.authorized"}, valid : BOOLEAN,
   status : {"captured", "failed"}, method : SUPPORTED_PAYMENT_METHODS \cup {"paylater"},
   currency : {"INR", "USD"}, amount : {50000, MaxAmount + 1}, bank : {None, "tab", "nul", "x"},
   wallet : {None, "tab", "nul"}, card : BOOLEAN, issuer : {None, "tab", "x"},
   network : {None, "spaces", "nul"}, error_code : Texts, error_reason : {None, "tab", "nul"}]

NoWebhooks == {}
=============================================================================
