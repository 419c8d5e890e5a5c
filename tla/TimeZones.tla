------------------------------ MODULE TimeZones -------------------------------
(***************************************************************************)
(* GeoIP_time_zone_by_country_and_region (timeZone.c), which compares the  *)
(* text of the region code in countries that have several zones.  Zones    *)
(* are told apart from no zone only.                                       *)
(***************************************************************************)
EXTENDS RegionTables

\* The region codes that countries with several zones tell apart, by their
\* numbers; every one is two characters long.

zone_regions_AR == 1 .. 24
zone_regions_AU == 1 .. 8
zone_regions_BR == (1 .. 8) \cup (13 .. 18) \cup (20 .. 31) \cup {11}
zone_regions_CA == (1425 .. 1427) \cup {849, 893, 1365, 1408, 1418, 1463,
    1497, 1538, 1632, 1899}
zone_regions_CD == 1 .. 12
zone_regions_CN == (1 .. 16) \cup (18 .. 26) \cup (28 .. 33)
zone_regions_EC == (1 .. 15) \cup (17 .. 20) \cup {22, 24}
zone_regions_ES == (51 .. 60) \cup {7, 27, 29, 31, 32, 34, 39}
zone_regions_GL == 1 .. 3
zone_regions_ID == (1 .. 26) \cup (28 .. 41)
zone_regions_KZ == 1 .. 17
zone_regions_MN == (19 .. 21) \cup {6, 11, 17, 25}
zone_regions_MX == 1 .. 32
zone_regions_MY == (1 .. 9) \cup (11 .. 16)
zone_regions_NZ == (1010 .. 1012) \cup (1047 .. 1055) \cup (1090 .. 1092) \cup
    {85}
zone_regions_PT == (2 .. 11) \cup (16 .. 23) \cup {13, 14}
zone_regions_RU == (1 .. 18) \cup (20 .. 93)
zone_regions_UA == 1 .. 27
zone_regions_US == (1409 .. 1411) \cup {858, 859, 865, 873, 934, 948, 953,
    979, 981, 1074, 1106, 1157, 1192, 1195, 1203, 1205, 1296, 1302, 1321,
    1364, 1367, 1368, 1372, 1377, 1378, 1382, 1383, 1414, 1416, 1419, 1428,
    1431, 1457, 1460, 1467, 1493, 1587, 1624, 1625, 1678, 1688, 1727, 1751,
    1770, 1794, 1802, 1815, 1818}
zone_regions_UZ == (1 .. 3) \cup (5 .. 10) \cup (12 .. 14)

ZoneRegionsOf ==
    [ AR |-> zone_regions_AR, AU |-> zone_regions_AU,
      BR |-> zone_regions_BR, CA |-> zone_regions_CA,
      CD |-> zone_regions_CD, CN |-> zone_regions_CN,
      EC |-> zone_regions_EC, ES |-> zone_regions_ES,
      GL |-> zone_regions_GL, ID |-> zone_regions_ID,
      KZ |-> zone_regions_KZ, MN |-> zone_regions_MN,
      MX |-> zone_regions_MX, MY |-> zone_regions_MY,
      NZ |-> zone_regions_NZ, PT |-> zone_regions_PT,
      RU |-> zone_regions_RU, UA |-> zone_regions_UA,
      US |-> zone_regions_US, UZ |-> zone_regions_UZ ]

\* The countries with one zone.
OneZone ==
    { "AD", "AE", "AF", "AG", "AI", "AL", "AM", "AN", "AO", "AQ", "AS",
      "AT", "AW", "AX", "AZ", "BA", "BB", "BD", "BE", "BF", "BG", "BH",
      "BI", "BJ", "BL", "BM", "BN", "BO", "BQ", "BS", "BT", "BV", "BW",
      "BY", "BZ", "CC", "CF", "CG", "CH", "CI", "CK", "CL", "CM", "CO",
      "CR", "CU", "CV", "CW", "CX", "CY", "CZ", "DE", "DJ", "DK", "DM",
      "DO", "DZ", "EE", "EG", "EH", "ER", "ET", "FI", "FJ", "FK", "FM",
      "FO", "FR", "FX", "GA", "GB", "GD", "GE", "GF", "GG", "GH", "GI",
      "GM", "GN", "GP", "GQ", "GR", "GS", "GT", "GU", "GW", "GY", "HK",
      "HN", "HR", "HT", "HU", "IE", "IL", "IM", "IN", "IO", "IQ", "IR",
      "IS", "IT", "JE", "JM", "JO", "JP", "KE", "KG", "KH", "KI", "KM",
      "KN", "KP", "KR", "KW", "KY", "LA", "LB", "LC", "LI", "LK", "LR",
      "LS", "LT", "LU", "LV", "LY", "MA", "MC", "MD", "ME", "MF", "MG",
      "MH", "MK", "ML", "MM", "MO", "MP", "MQ", "MR", "MS", "MT", "MU",
      "MV", "MW", "MZ", "NA", "NC", "NE", "NF", "NG", "NI", "NL", "NO",
      "NP", "NR", "NU", "OM", "PA", "PE", "PF", "PG", "PH", "PK", "PL",
      "PM", "PN", "PR", "PS", "PW", "PY", "QA", "RE", "RO", "RS", "RW",
      "SA", "SB", "SC", "SD", "SE", "SG", "SH", "SI", "SJ", "SK", "SL",
      "SM", "SN", "SO", "SR", "SS", "ST", "SV", "SX", "SY", "SZ", "TC",
      "TD", "TF", "TG", "TH", "TJ", "TK", "TL", "TM", "TN", "TO", "TR",
      "TT", "TV", "TW", "TZ", "UG", "UM", "UY", "VA", "VC", "VE", "VG",
      "VI", "VN", "VU", "WF", "WS", "YE", "YT", "YU", "ZA", "ZM", "ZW" }

-----------------------------------------------------------------------------
\* Mutant: regions are compared by their numbers.
HasZoneByNumber(country, region) ==
    \/ country \in OneZone
    \/ /\ region # Null /\ country \in DOMAIN ZoneRegionsOf
       /\ RegionCode2(region) \in ZoneRegionsOf[country]

\* Whether there is a time zone; a NULL region is the empty text, and no
\* region of the tables.
HasZone(country, region) ==
    \/ country \in OneZone
    \/ /\ country \in DOMAIN ZoneRegionsOf
       /\ \E n \in ZoneRegionsOf[country] : region = RegionText(n)
=============================================================================
