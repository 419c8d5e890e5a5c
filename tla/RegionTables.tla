---------------------------- MODULE RegionTables -----------------------------
(***************************************************************************)
(* GeoIP_region_name_by_code (regionName.c), which looks the number of a   *)
(* region code up in one function per country.  Names are told apart by    *)
(* the case they stand in, not by their wording.                           *)
(***************************************************************************)
EXTENDS RegionCodes

CONSTANT Null         \* a NULL pointer

-----------------------------------------------------------------------------
(* regionName.c: the numbers each country has a name for. *)

get_region_name_AD == 3 .. 8
get_region_name_AE == 1 .. 7
get_region_name_AF == (1 .. 3) \cup (5 .. 11) \cup (17 .. 19) \cup (26 .. 42)
    \cup {13, 14, 23, 24}
get_region_name_AG == (3 .. 9) \cup {1}
get_region_name_AL == 40 .. 51
get_region_name_AM == 1 .. 11
get_region_name_AO == (1 .. 9) \cup (12 .. 20)
get_region_name_AR == 1 .. 24
get_region_name_AT == 1 .. 9
get_region_name_AU == 1 .. 8
get_region_name_AZ == 1 .. 71
get_region_name_BA == 1 .. 3
get_region_name_BB == 1 .. 11
get_region_name_BD == 81 .. 87
get_region_name_BE == (3 .. 14) \cup {1}
get_region_name_BF == (19 .. 21) \cup (44 .. 78) \cup {15, 28, 33, 34, 36, 40,
    42}
get_region_name_BG == (38 .. 65) \cup {33}
get_region_name_BH == (8 .. 19) \cup {1, 2, 5, 6}
get_region_name_BI == (9 .. 23) \cup {2}
get_region_name_BJ == 7 .. 18
get_region_name_BM == 1 .. 11
get_region_name_BN == 7 .. 18
get_region_name_BO == 1 .. 9
get_region_name_BR == (1 .. 8) \cup (13 .. 18) \cup (20 .. 31) \cup {11}
get_region_name_BS == (22 .. 35) \cup {5, 6, 10, 13, 15, 16, 18}
get_region_name_BT == 5 .. 22
get_region_name_BW == (3 .. 6) \cup (8 .. 11) \cup {1}
get_region_name_BY == 1 .. 7
get_region_name_BZ == 1 .. 6
get_region_name_CA == (1425 .. 1427) \cup {849, 893, 1365, 1408, 1418, 1463,
    1497, 1538, 1632, 1899}
get_region_name_CD == (4 .. 6) \cup (8 .. 12) \cup {1, 2}
get_region_name_CF == (1 .. 9) \cup (11 .. 18)
get_region_name_CG == (4 .. 8) \cup (10 .. 14) \cup {1}
get_region_name_CH == 1 .. 26
get_region_name_CI == 74 .. 92
get_region_name_CL == 1 .. 17
get_region_name_CM == (7 .. 14) \cup {4, 5}
get_region_name_CN == (1 .. 16) \cup (18 .. 26) \cup (28 .. 33)
get_region_name_CO == (1 .. 4) \cup (8 .. 12) \cup (14 .. 17) \cup (19 .. 38)
get_region_name_CR == (1 .. 4) \cup (6 .. 8)
get_region_name_CU == (1 .. 5) \cup (7 .. 16)
get_region_name_CV == (13 .. 20) \cup {1, 2, 4, 5, 7, 8, 10, 11}
get_region_name_CY == 1 .. 6
get_region_name_CZ == (78 .. 90) \cup {52}
get_region_name_DE == 1 .. 16
get_region_name_DJ == (4 .. 8) \cup {1}
get_region_name_DK == 17 .. 21
get_region_name_DM == 2 .. 11
get_region_name_DO == (1 .. 6) \cup (8 .. 12) \cup (14 .. 21) \cup (23 .. 37)
get_region_name_DZ == (12 .. 15) \cup (18 .. 27) \cup (29 .. 31) \cup (33 ..
    56) \cup {1, 3, 4, 6, 7, 9, 10}
get_region_name_EC == (1 .. 15) \cup (17 .. 20) \cup (22 .. 24)
get_region_name_EE == 1 .. 21
get_region_name_EG == (1 .. 24) \cup (26 .. 28)
get_region_name_ER == 1 .. 6
get_region_name_ES == (51 .. 60) \cup {7, 27, 29, 31, 32, 34, 39}
get_region_name_ET == 44 .. 54
get_region_name_FI == (13 .. 15) \cup {1, 6, 8}
get_region_name_FJ == 1 .. 5
get_region_name_FM == 1 .. 4
get_region_name_FR == (97 .. 99) \cup (832 .. 840) \cup (875 .. 883) \cup
    {918}
get_region_name_GA == 1 .. 9
get_region_name_GB == (832 .. 840) \cup (875 .. 883) \cup (918 .. 926) \cup
    (961 .. 969) \cup (1004 .. 1012) \cup (1047 .. 1055) \cup (1090 .. 1098)
    \cup (1133 .. 1141) \cup (1176 .. 1184) \cup (1219 .. 1227) \cup (1262 ..
    1270) \cup (1305 .. 1313) \cup (1348 .. 1356) \cup (1391 .. 1399) \cup
    (1434 .. 1442) \cup (1477 .. 1485) \cup (1520 .. 1528) \cup (1563 .. 1571)
    \cup (1606 .. 1614) \cup (1649 .. 1657) \cup (1692 .. 1700) \cup (1735 ..
    1743) \cup (1778 .. 1786) \cup (1821 .. 1829) \cup (1864 .. 1872) \cup
    (1907 .. 1915)
get_region_name_GD == 1 .. 6
get_region_name_GE == 1 .. 64
get_region_name_GH == (1 .. 6) \cup (8 .. 11)
get_region_name_GL == 1 .. 3
get_region_name_GM == (1 .. 5) \cup {7}
get_region_name_GN == (1 .. 7) \cup (9 .. 13) \cup (15 .. 19) \cup (21 .. 23)
    \cup (27 .. 39) \cup {25}
get_region_name_GQ == 3 .. 9
get_region_name_GR == 1 .. 51
get_region_name_GT == 1 .. 22
get_region_name_GW == (4 .. 7) \cup (10 .. 12) \cup {1, 2}
get_region_name_GY == 10 .. 19
get_region_name_HN == 1 .. 18
get_region_name_HR == 1 .. 21
get_region_name_HT == (9 .. 15) \cup {3, 6, 7}
get_region_name_HU == 1 .. 43
get_region_name_ID == (1 .. 5) \cup (10 .. 15) \cup (28 .. 41) \cup {7, 8, 17,
    18, 21, 22, 24, 26}
get_region_name_IE == (1 .. 4) \cup (10 .. 16) \cup (18 .. 27) \cup (29 .. 31)
    \cup {6, 7}
get_region_name_IL == 1 .. 6
get_region_name_IN == (1 .. 3) \cup (5 .. 7) \cup (9 .. 14) \cup (16 .. 26)
    \cup (28 .. 39)
get_region_name_IQ == 1 .. 18
get_region_name_IR == (3 .. 5) \cup (7 .. 13) \cup (15 .. 19) \cup (21 .. 44)
    \cup {1}
get_region_name_IS == (5 .. 7) \cup (28 .. 32) \cup (34 .. 45) \cup {3, 9, 10,
    15, 17, 20, 21, 23}
get_region_name_IT == 1 .. 20
get_region_name_JM == (7 .. 17) \cup {1, 2, 4}
get_region_name_JO == (15 .. 23) \cup {2, 9, 12}
get_region_name_JP == 1 .. 47
get_region_name_KE == (1 .. 3) \cup (5 .. 9)
get_region_name_KG == 1 .. 9
get_region_name_KH == (1 .. 19) \cup (28 .. 30) \cup {22, 23, 25}
get_region_name_KI == 1 .. 3
get_region_name_KM == 1 .. 3
get_region_name_KN == (1 .. 13) \cup {15}
get_region_name_KP == (6 .. 9) \cup (11 .. 15) \cup {1, 3, 17, 18}
get_region_name_KR == (10 .. 21) \cup {1, 3, 5, 6}
get_region_name_KW == (7 .. 9) \cup {1, 2, 5}
get_region_name_KY == 1 .. 8
get_region_name_KZ == 1 .. 17
get_region_name_LA == (1 .. 5) \cup (7 .. 11) \cup {13, 14, 17}
get_region_name_LB == 1 .. 11
get_region_name_LC == 1 .. 11
get_region_name_LI == (1 .. 11) \cup {21, 22}
get_region_name_LK == (32 .. 38) \cup {29, 30}
get_region_name_LR == (4 .. 7) \cup (9 .. 14) \cup (17 .. 22) \cup {1}
get_region_name_LS == 10 .. 19
get_region_name_LT == 56 .. 65
get_region_name_LU == 1 .. 3
get_region_name_LV == 1 .. 33
get_region_name_LY == (47 .. 62) \cup {3, 5, 8, 13, 30, 34, 41, 42, 45}
get_region_name_MA == 45 .. 59
get_region_name_MC == 1 .. 3
get_region_name_MD == (57 .. 92) \cup {51}
get_region_name_MG == 1 .. 6
get_region_name_MK == (1 .. 99) \cup (832 .. 840) \cup (875 .. 883) \cup (918
    .. 923) \cup (962 .. 968) \cup (1008 .. 1012) \cup {925, 926, 1005, 1006,
    1047, 1048}
get_region_name_ML == (3 .. 10) \cup {1}
get_region_name_MM == (1 .. 14) \cup {17}
get_region_name_MN == (1 .. 3) \cup (5 .. 25)
get_region_name_MO == {1, 2}
get_region_name_MR == 1 .. 12
get_region_name_MS == 1 .. 3
get_region_name_MU == 12 .. 23
get_region_name_MV == (30 .. 47) \cup {1, 5}
get_region_name_MW == (2 .. 9) \cup (11 .. 13) \cup (15 .. 30)
get_region_name_MX == 1 .. 32
get_region_name_MY == (1 .. 9) \cup (11 .. 17)
get_region_name_MZ == 1 .. 11
get_region_name_NA == (1 .. 18) \cup (20 .. 39)
get_region_name_NE == 1 .. 8
get_region_name_NG == (21 .. 32) \cup (35 .. 37) \cup (39 .. 57) \cup {5, 11,
    16}
get_region_name_NI == 1 .. 18
get_region_name_NL == (1 .. 7) \cup (9 .. 11) \cup {15, 16}
get_region_name_NO == (4 .. 20) \cup {1, 2}
get_region_name_NP == 1 .. 14
get_region_name_NR == 1 .. 14
get_region_name_NZ == (1010 .. 1012) \cup (1047 .. 1055) \cup (1090 .. 1092)
    \cup {10}
get_region_name_OM == 1 .. 8
get_region_name_PA == 1 .. 10
get_region_name_PE == 1 .. 25
get_region_name_PG == 1 .. 20
get_region_name_PH == (1 .. 51) \cup (53 .. 72) \cup (832 .. 840) \cup (875 ..
    883) \cup (918 .. 926) \cup (961 .. 969) \cup (1004 .. 1012) \cup (1047 ..
    1055) \cup (1090 .. 1097) \cup {1134, 1135, 1141, 1181, 1182, 1221, 1222,
    1225, 1262, 1266, 1267, 1308, 1309, 1311, 1313, 1352, 1353, 1355, 1356,
    1391, 1393, 1477, 1478}
get_region_name_PK == 1 .. 8
get_region_name_PL == 72 .. 87
get_region_name_PS == {1131, 1798}
get_region_name_PT == (2 .. 11) \cup (16 .. 23) \cup {13, 14}
get_region_name_PY == (4 .. 8) \cup (10 .. 13) \cup (15 .. 17) \cup (22 .. 24)
    \cup {1, 2, 19}
get_region_name_QA == (1 .. 6) \cup (8 .. 12)
get_region_name_RO == (1 .. 23) \cup (25 .. 43)
get_region_name_RS == {1, 2}
get_region_name_RU == (1 .. 34) \cup (36 .. 81) \cup (83 .. 93)
get_region_name_RW == (11 .. 15) \cup {1, 6, 7, 9}
get_region_name_SA == (13 .. 17) \cup {2, 5, 6, 8, 10, 11, 19, 20}
get_region_name_SB == (6 .. 13) \cup {3}
get_region_name_SC == 1 .. 23
get_region_name_SD == (27 .. 35) \cup {40, 44, 49, 50, 52, 53, 55}
get_region_name_SE == (5 .. 10) \cup (14 .. 16) \cup (21 .. 28) \cup {2, 3,
    12, 18}
get_region_name_SH == 1 .. 3
get_region_name_SI == (1 .. 9) \cup (11 .. 17) \cup (24 .. 32) \cup (34 .. 40)
    \cup (44 .. 47) \cup (49 .. 55) \cup (71 .. 74) \cup (76 .. 84) \cup (86
    .. 89) \cup (97 .. 99) \cup (832 .. 834) \cup (837 .. 839) \cup (875 ..
    878) \cup (880 .. 883) \cup (921 .. 926) \cup (961 .. 968) \cup (1004 ..
    1006) \cup (1008 .. 1010) \cup (1047 .. 1055) \cup (1090 .. 1098) \cup
    (1133 .. 1141) \cup (1176 .. 1184) \cup (1219 .. 1227) \cup (1262 .. 1270)
    \cup (1305 .. 1313) \cup (1348 .. 1356) \cup (1391 .. 1399) \cup (1434 ..
    1442) \cup (1477 .. 1481) \cup {19, 20, 22, 42, 57, 61, 62, 64, 66, 68,
    91, 92, 94, 918, 919, 1012, 1483}
get_region_name_SK == 1 .. 8
get_region_name_SL == 1 .. 4
get_region_name_SM == 1 .. 9
get_region_name_SN == (9 .. 15) \cup {1, 3, 5, 7}
get_region_name_SO == (1 .. 14) \cup (18 .. 22) \cup {16}
get_region_name_SR == 10 .. 19
get_region_name_SS == 1 .. 10
get_region_name_ST == {1, 2}
get_region_name_SV == 1 .. 14
get_region_name_SY == 1 .. 14
get_region_name_SZ == 1 .. 5
get_region_name_TD == 1 .. 14
get_region_name_TG == 22 .. 26
get_region_name_TH == (1 .. 18) \cup (20 .. 81)
get_region_name_TJ == 1 .. 5
get_region_name_TL == {6}
get_region_name_TM == 1 .. 5
get_region_name_TN == (14 .. 19) \cup (27 .. 29) \cup (31 .. 39) \cup {2, 3,
    6, 10, 22, 23}
get_region_name_TO == 1 .. 3
get_region_name_TR == (2 .. 5) \cup (7 .. 17) \cup (19 .. 26) \cup (31 .. 35)
    \cup (37 .. 41) \cup (43 .. 46) \cup (48 .. 50) \cup (52 .. 55) \cup (57
    .. 66) \cup (68 .. 93) \cup {28}
get_region_name_TT == 1 .. 12
get_region_name_TW == 1 .. 4
get_region_name_TZ == 2 .. 27
get_region_name_UA == 1 .. 27
get_region_name_UG == (28 .. 31) \cup (36 .. 43) \cup (45 .. 47) \cup (58 ..
    61) \cup (65 .. 67) \cup (69 .. 74) \cup (76 .. 97) \cup {26, 33, 50, 52,
    56}
get_region_name_US == (1377 .. 1379) \cup (1409 .. 1411) \cup {848, 852, 858,
    859, 863, 865, 866, 873, 934, 948, 953, 979, 981, 1074, 1075, 1106, 1126,
    1157, 1192, 1195, 1203, 1205, 1296, 1302, 1321, 1364, 1367, 1368, 1371,
    1372, 1382, 1383, 1414, 1416, 1419, 1428, 1431, 1457, 1460, 1467, 1493,
    1515, 1587, 1624, 1625, 1678, 1688, 1727, 1751, 1759, 1770, 1794, 1802,
    1815, 1818}
get_region_name_UY == 1 .. 19
get_region_name_UZ == 1 .. 15
get_region_name_VC == 1 .. 6
get_region_name_VE == (1 .. 9) \cup (11 .. 26)
get_region_name_VN == (32 .. 35) \cup (43 .. 47) \cup (52 .. 55) \cup (58 ..
    93) \cup {1, 3, 5, 9, 13, 20, 21, 23, 24, 30, 37, 39, 49, 50}
get_region_name_VU == 5 .. 18
get_region_name_WS == 2 .. 11
get_region_name_YE == 1 .. 25
get_region_name_ZA == (1 .. 3) \cup (5 .. 11)
get_region_name_ZM == 1 .. 9
get_region_name_ZW == 1 .. 10

\* The dispatch by country (BY and IN are keywords of TLA+).
RegionsOf ==
    LET regions ==
        [ AD |-> get_region_name_AD, AE |-> get_region_name_AE,
          AF |-> get_region_name_AF, AG |-> get_region_name_AG,
          AL |-> get_region_name_AL, AM |-> get_region_name_AM,
          AO |-> get_region_name_AO, AR |-> get_region_name_AR,
          AT |-> get_region_name_AT, AU |-> get_region_name_AU,
          AZ |-> get_region_name_AZ, BA |-> get_region_name_BA,
          BB |-> get_region_name_BB, BD |-> get_region_name_BD,
          BE |-> get_region_name_BE, BF |-> get_region_name_BF,
          BG |-> get_region_name_BG, BH |-> get_region_name_BH,
          BI |-> get_region_name_BI, BJ |-> get_region_name_BJ,
          BM |-> get_region_name_BM, BN |-> get_region_name_BN,
          BO |-> get_region_name_BO, BR |-> get_region_name_BR,
          BS |-> get_region_name_BS, BT |-> get_region_name_BT,
          BW |-> get_region_name_BW, BZ |-> get_region_name_BZ,
          CA |-> get_region_name_CA, CD |-> get_region_name_CD,
          CF |-> get_region_name_CF, CG |-> get_region_name_CG,
          CH |-> get_region_name_CH, CI |-> get_region_name_CI,
          CL |-> get_region_name_CL, CM |-> get_region_name_CM,
          CN |-> get_region_name_CN, CO |-> get_region_name_CO,
          CR |-> get_region_name_CR, CU |-> get_region_name_CU,
          CV |-> get_region_name_CV, CY |-> get_region_name_CY,
          CZ |-> get_region_name_CZ, DE |-> get_region_name_DE,
          DJ |-> get_region_name_DJ, DK |-> get_region_name_DK,
          DM |-> get_region_name_DM, DO |-> get_region_name_DO,
          DZ |-> get_region_name_DZ, EC |-> get_region_name_EC,
          EE |-> get_region_name_EE, EG |-> get_region_name_EG,
          ER |-> get_region_name_ER, ES |-> get_region_name_ES,
          ET |-> get_region_name_ET, FI |-> get_region_name_FI,
          FJ |-> get_region_name_FJ, FM |-> get_region_name_FM,
          FR |-> get_region_name_FR, GA |-> get_region_name_GA,
          GB |-> get_region_name_GB, GD |-> get_region_name_GD,
          GE |-> get_region_name_GE, GH |-> get_region_name_GH,
          GL |-> get_region_name_GL, GM |-> get_region_name_GM,
          GN |-> get_region_name_GN, GQ |-> get_region_name_GQ,
          GR |-> get_region_name_GR, GT |-> get_region_name_GT,
          GW |-> get_region_name_GW, GY |-> get_region_name_GY,
          HN |-> get_region_name_HN, HR |-> get_region_name_HR,
          HT |-> get_region_name_HT, HU |-> get_region_name_HU,
          ID |-> get_region_name_ID, IE |-> get_region_name_IE,
          IL |-> get_region_name_IL, IQ |-> get_region_name_IQ,
          IR |-> get_region_name_IR, IS |-> get_region_name_IS,
          IT |-> get_region_name_IT, JM |-> get_region_name_JM,
          JO |-> get_region_name_JO, JP |-> get_region_name_JP,
          KE |-> get_region_name_KE, KG |-> get_region_name_KG,
          KH |-> get_region_name_KH, KI |-> get_region_name_KI,
          KM |-> get_region_name_KM, KN |-> get_region_name_KN,
          KP |-> get_region_name_KP, KR |-> get_region_name_KR,
          KW |-> get_region_name_KW, KY |-> get_region_name_KY,
          KZ |-> get_region_name_KZ, LA |-> get_region_name_LA,
          LB |-> get_region_name_LB, LC |-> get_region_name_LC,
          LI |-> get_region_name_LI, LK |-> get_region_name_LK,
          LR |-> get_region_name_LR, LS |-> get_region_name_LS,
          LT |-> get_region_name_LT, LU |-> get_region_name_LU,
          LV |-> get_region_name_LV, LY |-> get_region_name_LY,
          MA |-> get_region_name_MA, MC |-> get_region_name_MC,
          MD |-> get_region_name_MD, MG |-> get_region_name_MG,
          MK |-> get_region_name_MK, ML |-> get_region_name_ML,
          MM |-> get_region_name_MM, MN |-> get_region_name_MN,
          MO |-> get_region_name_MO, MR |-> get_region_name_MR,
          MS |-> get_region_name_MS, MU |-> get_region_name_MU,
          MV |-> get_region_name_MV, MW |-> get_region_name_MW,
          MX |-> get_region_name_MX, MY |-> get_region_name_MY,
          MZ |-> get_region_name_MZ, NA |-> get_region_name_NA,
          NE |-> get_region_name_NE, NG |-> get_region_name_NG,
          NI |-> get_region_name_NI, NL |-> get_region_name_NL,
          NO |-> get_region_name_NO, NP |-> get_region_name_NP,
          NR |-> get_region_name_NR, NZ |-> get_region_name_NZ,
          OM |-> get_region_name_OM, PA |-> get_region_name_PA,
          PE |-> get_region_name_PE, PG |-> get_region_name_PG,
          PH |-> get_region_name_PH, PK |-> get_region_name_PK,
          PL |-> get_region_name_PL, PS |-> get_region_name_PS,
          PT |-> get_region_name_PT, PY |-> get_region_name_PY,
          QA |-> get_region_name_QA, RO |-> get_region_name_RO,
          RS |-> get_region_name_RS, RU |-> get_region_name_RU,
          RW |-> get_region_name_RW, SA |-> get_region_name_SA,
          SB |-> get_region_name_SB, SC |-> get_region_name_SC,
          SD |-> get_region_name_SD, SE |-> get_region_name_SE,
          SH |-> get_region_name_SH, SI |-> get_region_name_SI,
          SK |-> get_region_name_SK, SL |-> get_region_name_SL,
          SM |-> get_region_name_SM, SN |-> get_region_name_SN,
          SO |-> get_region_name_SO, SR |-> get_region_name_SR,
          SS |-> get_region_name_SS, ST |-> get_region_name_ST,
          SV |-> get_region_name_SV, SY |-> get_region_name_SY,
          SZ |-> get_region_name_SZ, TD |-> get_region_name_TD,
          TG |-> get_region_name_TG, TH |-> get_region_name_TH,
          TJ |-> get_region_name_TJ, TL |-> get_region_name_TL,
          TM |-> get_region_name_TM, TN |-> get_region_name_TN,
          TO |-> get_region_name_TO, TR |-> get_region_name_TR,
          TT |-> get_region_name_TT, TW |-> get_region_name_TW,
          TZ |-> get_region_name_TZ, UA |-> get_region_name_UA,
          UG |-> get_region_name_UG, US |-> get_region_name_US,
          UY |-> get_region_name_UY, UZ |-> get_region_name_UZ,
          VC |-> get_region_name_VC, VE |-> get_region_name_VE,
          VN |-> get_region_name_VN, VU |-> get_region_name_VU,
          WS |-> get_region_name_WS, YE |-> get_region_name_YE,
          ZA |-> get_region_name_ZA, ZM |-> get_region_name_ZM,
          ZW |-> get_region_name_ZW ]
    IN  [c \in DOMAIN regions \cup {"BY", "IN"} |->
            CASE c = "BY" -> get_region_name_BY
              [] c = "IN" -> get_region_name_IN
              [] OTHER -> regions[c]]

-----------------------------------------------------------------------------
\* The name, as the country and the number it stands under, or Null.
RegionName(country, region) ==
    IF region # Null /\ RegionCode2(region) # -1 /\ country \in DOMAIN RegionsOf
       /\ RegionCode2(region) \in RegionsOf[country]
    THEN <<country, RegionCode2(region)>>
    ELSE Null
=============================================================================
