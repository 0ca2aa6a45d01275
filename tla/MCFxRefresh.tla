---------------------------- MODULE MCFxRefresh -----------------------------
(***************************************************************************)
(* The three currencies of fx_rate.py.                                     *)
(***************************************************************************)
EXTENDS FxRefresh

Supported == <<"USD", "KRW", "EUR">>
=============================================================================
