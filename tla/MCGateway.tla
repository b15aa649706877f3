------------------------------ MODULE MCGateway ------------------------------
(***************************************************************************)
(* Values for the constants of Gateway: one path of each kind of handler.  *)
(***************************************************************************)
EXTENDS Gateway

CONSTANTS r1, r2

MCTargets ==
  {<<"GET", "/osgw_v2/resp5">>,
   <<"GET", "/osgw_v2/new/dispose/rd1">>,
   <<"GET", "/osgw_v2/poison1">>,
   <<"GET", "/osgw_v2/test_captcha">>,
   <<"POST", "/osgw_v2/mock/idv">>,
   <<"GET", "/osgw_v2/autotest/idv">>,
   <<"POST", "/osgw_v4/api/osgw/wares_alarm/alarm_detail/callback">>,
   <<"GET", "/nowhere">>}

=============================================================================
