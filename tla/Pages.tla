-------------------------------- MODULE Pages --------------------------------
(***************************************************************************)
(* The routes of the callback service (router.go, router_gen.go) and the   *)
(* answers of the test pages, of which a body is the name of its text: the *)
(* constant ones, and those read from a key of TCC, the configuration      *)
(* platform, with a constant one in reserve.                               *)
(***************************************************************************)
EXTENDS Integers, Sequences, TLC

Answer(status, body) == [status |-> status, body |-> body, version |-> 0]
Page(body) == Answer(200, body)

\* the text of a version of a key
Text(v) == [status |-> 200, body |-> "text", version |-> v]

\* a handler that writes nothing; one that panics, which Default() recovers
Empty == Page("")
Panic == Answer(500, "panic")

\* the tables of a set, no two of which have a name in common, as one (the provers have
\* no rule for @@)
Merged(tables) ==
  [name \in UNION {DOMAIN f : f \in tables} |->
     (CHOOSE f \in tables : name \in DOMAIN f)[name]]

-----------------------------------------------------------------------------
(***************************************************************************)
(* Constant pages.                                                         *)
(***************************************************************************)
Ping       == Page("pong")
TestBack1  == Page("/api/v1/test1")
TestBack4  == Page("/api/v1/test4_and_the_headers")
TestBack5  == Page("/api/v1/test5_and_the_headers")
TestBack11 == Page("2_products")
TestBack12 == Page("long_list_of_products")
TestBack13 == Page("longer_list_of_products")
TestBack14 == Page("products_with_long_names")
TestBack15 == Page("deeply_nested_products")
TestBack16 == Page("list_of_products")

ColorTests  == [DisposeColorTest1 |-> Page("products_1"),
                DisposeColorTest2 |-> Page("products_2"),
                DisposeColorTest3 |-> Page("products_3")]
TuoMinTests == [DisposeTuoMinTest1 |-> Page("products_1"),
                DisposeTuoMinTest2 |-> Page("products_2"),
                DisposeTuoMinTest3 |-> Page("products_3")]
PoisonPages == [DisposePoisonTest1 |-> Page("products_1"),
                DisposePoisonTest2 |-> Page("products_2"),
                DisposePoisonTest3 |-> Page("products_3")]

Message == Page("this_response_is_from_oec.governance.oncall_opinion_analyse")
Stress1to4  == [DisposeStress1 |-> Message, DisposeStress2 |-> Message,
                DisposeStress3 |-> Message, DisposeStress4 |-> Message]
Stress5     == Page("zeros")
Stress6to8  == [DisposeStress6 |-> Message, DisposeStress7 |-> Message,
                DisposeStress8 |-> Message]
Stress9to10 == [DisposeStress9 |-> Page("zeros"), DisposeStress10 |-> Page("zeros")]
Stress11to20 == [DisposeStress11 |-> Page("seller"),
                 DisposeStress12 |-> Page("product_base_12"),
                 DisposeStress13 |-> Page("product_base_13"),
                 DisposeStress20 |-> Page("product_base_20")]
Stress23to26 == [DisposeStress23 |-> Page("review_entries"),
                 DisposeStress24 |-> Page("product_base_24"),
                 DisposeStress25 |-> Page("product_base_25"),
                 DisposeStress26 |-> Page("success")]
Stress101to103 == [DisposeStress101 |-> Page("review_entries_1200"),
                   DisposeStress102 |-> Page("product_base_102"),
                   DisposeStress103 |-> Page("product_base_103")]

Tests1to3 == [Test1 |-> Page("/api/v1/dispose"), Test2 |-> Page("/api/v1/dispose"),
              Test3 |-> Page("/api/v1/dispose1")]

TestBacks ==
  [Ping |-> Ping, TestBack1 |-> TestBack1, TestBack4 |-> TestBack4,
   TestBack5 |-> TestBack5, TestBack11 |-> TestBack11, TestBack12 |-> TestBack12,
   TestBack13 |-> TestBack13, TestBack14 |-> TestBack14,
   TestBack15 |-> TestBack15, TestBack16 |-> TestBack16, DisposeStress5 |-> Stress5]

ConstantPages ==
  Merged({TestBacks, Tests1to3, ColorTests, TuoMinTests, PoisonPages, Stress1to4,
          Stress6to8, Stress9to10, Stress11to20, Stress23to26, Stress101to103})

-----------------------------------------------------------------------------
(***************************************************************************)
(* Keys of TCC, and the key each page reads.                               *)
(***************************************************************************)
ColorPosionTest(n) == <<"color_posion_test", n>>
ColorPosionStress(n) == <<"color_posion_stress", n>>
PosionTest(n) == <<"posion_test", n>>

DisposeTests1to3 ==
  [DisposeTest1 |-> ColorPosionTest(1), DisposeTest2 |-> ColorPosionTest(2),
   DisposeTest3 |-> ColorPosionTest(3)]

DisposeTests5to8 ==
  [DisposeTest5 |-> ColorPosionTest(5), DisposeTest6 |-> ColorPosionTest(6),
   DisposeTest7 |-> ColorPosionTest(7), DisposeTest8 |-> ColorPosionTest(8)]

Stress21to22 ==
  [DisposeStress21 |-> ColorPosionStress(21), DisposeStress22 |-> ColorPosionStress(22)]

Stress27to28 ==
  [DisposeStress27 |-> ColorPosionStress(27), DisposeStress28 |-> ColorPosionStress(28)]

PoisonTests ==
  [PoisonTest1 |-> PosionTest(1), PoisonTest2 |-> PosionTest(2),
   PoisonTest3 |-> PosionTest(3), PoisonTest4 |-> PosionTest(4),
   PoisonTest5 |-> PosionTest(5), PoisonTest6 |-> PosionTest(6),
   PoisonTest7 |-> PosionTest(7)]

TccPages ==
  Merged({DisposeTests1to3, DisposeTests5to8, Stress21to22, Stress27to28, PoisonTests})

\* these read their key and write nothing
SilentPages ==
  [DisposeTest9 |-> ColorPosionTest(9), DisposeTest10 |-> ColorPosionTest(10)]

\* DisposeStress asks for the key its path spells
PathKey(path) == <<"path", path>>

-----------------------------------------------------------------------------
(***************************************************************************)
(* Routes.                                                                 *)
(***************************************************************************)
\* the pages of one directory, by the last segment of their paths
Under(dir, pages) == [p \in {dir \o s : s \in DOMAIN pages} |->
                        pages[CHOOSE s \in DOMAIN pages : dir \o s = p]]

ForBoth ==
  Under("/osgw_v2/new/dispose/",
        [rd1 |-> "DisposeTest1", rd2 |-> "DisposeTest2", rd3 |-> "DisposeTest3",
         qa1 |-> "DisposeTest5", qa2 |-> "DisposeTest6", qa3 |-> "DisposeTest7",
         qa4 |-> "DisposeTest8"])
  @@ Under("/oncall2/api/v1/dispose/",
           [test9 |-> "DisposeTest9", test10 |-> "DisposeTest10"])
  @@ ("/osgw_v2/test_captcha" :> "DisposeTest4")
  @@ Under("/osgw1/",
       ("regex/v:version/" :> "DisposeStress1")
         @@ ("regex2/v:version/" :> "DisposeStress2")
         @@ ("regex3/v:version/" :> "DisposeStress3")
         @@ ("regex/api/v:version" :> "DisposeStress4")
         @@ ("exact/case/t1" :> "DisposeStress5") @@ ("exact/user/" :> "DisposeStress5")
         @@ ("prefix/prod:version" :> "DisposeStress7")
         @@ ("prefix/order/:version" :> "DisposeStress8")
         @@ ("regex/tts/open/:version" :> "DisposeStress9")
         @@ ("regex/full:version" :> "DisposeStress10")
         @@ [p \in {"regex2/tts/open/:version", "regex3/tts/open/:version",
                    "regex4/tts/open/:version"} |-> "DisposeStress20"]
         @@ ("regex5/tts/open/:version" :> "DisposeStress23")
         @@ ("regex7/tts/open/:version" :> "DisposeStress24")
         @@ [p \in {"regex8/tts/open/:version", "regex9/tts/open/:version",
                    "regex10/tts/open/:version", "regex11/tts/open/:version"}
               |-> "DisposeStress25"])
  @@ [p \in {"/oncall2/shasha/dispose/test" \o ToString(n) : n \in 1..10}
        |-> "DisposeStress25"]

ForGet ==
  Under("/oncall2/api/v1/",
        [test1 |-> "TestBack1", test4 |-> "TestBack4", test5 |-> "TestBack5"])
  @@ ("/osgw_v2/new/dispose/rd4" :> "DisposeStress")
  @@ ("/osgw_v2/oldixnew/exact/case/t1" :> "TestBack11")
  @@ Under("/osgw_v2/",
           [resp1 |-> "TestBack16", resp2 |-> "TestBack15", resp3 |-> "TestBack14",
            resp4 |-> "TestBack13", resp5 |-> "TestBack12"])
  @@ Under("/oncall2/api/v1/dispose/color/",
           [test1 |-> "DisposeColorTest1", test2 |-> "DisposeColorTest2",
            test3 |-> "DisposeColorTest3"])
  @@ Under("/oncall2/api/v1/dispose/tuomin/",
           [test1 |-> "DisposeTuoMinTest1", test2 |-> "DisposeTuoMinTest2",
            test3 |-> "DisposeTuoMinTest3"])
  @@ Under("/oncall2/api/v1/dispose/poison/",
           [test1 |-> "DisposePoisonTest1", test2 |-> "DisposePoisonTest2",
            test3 |-> "DisposePoisonTest3"])
  @@ ForBoth

ForPost == ("/testserver3/dispose/test1" :> "DisposeTest1") @@ ForBoth

ForAny ==
  Under("/osgw_v2/new/dispose/",
        [qa5 |-> "DisposeTest8", qa6 |-> "DisposeTest7", qa7 |-> "DisposeTest8",
         qa8 |-> "DisposeTest7", qa9 |-> "DisposeTest8", qa10 |-> "DisposeTest7"])
  @@ Under("/osgw_v2/",
       [p \in {"regex2/tts/open", "regex3/tts/open", "regex4/tts/open", "poison1",
               "poison2", "poison3", "poison4", "poison5"} |-> "DisposeStress"]
         @@ ("regex5/tts/open" :> "DisposeStress101")
         @@ ("regex7/tts/open" :> "DisposeStress102")
         @@ [p \in {"regex8/tts/open", "regex9/tts/open", "regex10/tts/open",
                    "regex11/tts/open"} |-> "DisposeStress103"])
  @@ [p \in {"/poison6", "/poison7"} |-> "DisposeStress"]

\* the routes of the IDL, without middleware
Register ==
  [GET |-> "/ping" :> "Ping",
   POST |-> ("/api/v:version/oec/governance/qa/argos/callback"
               :> "GetOncallArgosDIYCardCallback")
            @@ ("/api/v:version/oec/oncall/workorder/callback" :> "GetOncallCallback")
            @@ ("/osgw_v4/api/osgw/wares_alarm/alarm_detail/callback"
                  :> "HandleAlarmCallback"),
   ANY |-> ("/osgw_v2/autotest/idv" :> "AutoTestIdv") @@ ("/osgw_v2/mock/idv" :> "IDVMock")]

Routes(method) ==
  Register[method] @@ (IF method = "GET" THEN ForGet ELSE ForPost)
    @@ Register["ANY"] @@ ForAny

\* the catch-all /*action logs the headers and writes nothing
Dispatch(method, path) ==
  IF path \in DOMAIN Routes(method) THEN Routes(method)[path] ELSE "action"

=============================================================================
