------------------------------- MODULE MCHub -------------------------------
(***************************************************************************)
(* Hub for TLC: the frames the world feeds in.                              *)
(***************************************************************************)
EXTENDS Hub

MCInputs ==
  {<<"can1", "estop">>, <<"can2", "audio">>, <<"spi", "estop">>, <<"spi", "clear">>,
   <<"spi", "mode">>, <<"spi", "sync">>, <<"local", "estop">>, <<"local", "telem">>}
MCModes == {OPERATIONAL}
=============================================================================
