----------------------------- MODULE MCExchange -----------------------------
(***************************************************************************)
(* InvokeExchange for TLC: all requests, and one reject code of a handler  *)
(* for each way EncodeInvokeRejectResponse treats them.                    *)
(***************************************************************************)
EXTENDS InvokeExchange

MCHandlerRejects == AuthCodes \cup {"INVALIDSESSIONID"}
=============================================================================
