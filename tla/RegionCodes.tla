---------------------------- MODULE RegionCodes ----------------------------
(***************************************************************************)
(* The table of region codes (region-code-map.data.ts, generated from the  *)
(* administrative map of 2026-07-01; the device has the same one as JSON).  *)
(* A legal district, <<legal area, district>>, has the legacy area and      *)
(* sigungu codes that Tripic stores; several districts may be parts of one  *)
(* city.  Sejong has no sigungu.                                            *)
(***************************************************************************)
EXTENDS Naturals, FiniteSets, TLC

CONSTANT None

\* The entries of one legal area: pairs of a district and a sigungu.
Districts(legal, area, pairs) ==
    {[code |-> <<legal, ToString(p[1])>>,
      legacy |-> [area |-> area, sigungu |-> ToString(p[2])]] : p \in pairs}

Seoul ==
    Districts("11", "1", {
        <<110,23>>, <<140,24>>, <<170,21>>, <<200,16>>, <<215,6>>, <<230,11>>, <<260,25>>,
        <<290,17>>, <<305,3>>, <<320,10>>, <<350,9>>, <<380,22>>, <<410,14>>, <<440,13>>,
        <<470,19>>, <<500,4>>, <<530,7>>, <<545,8>>, <<560,20>>, <<590,12>>, <<620,5>>,
        <<650,15>>, <<680,1>>, <<710,18>>, <<740,2>>})

GwangjuJeonnam ==
    Districts("12", "5", {
        <<210,3>>, <<240,5>>, <<270,2>>, <<300,4>>, <<330,1>>})
    \cup Districts("12", "38", {
        <<110,8>>, <<130,13>>, <<150,11>>, <<170,6>>, <<190,4>>, <<710,7>>, <<720,3>>,
        <<730,5>>, <<740,2>>, <<750,10>>, <<760,24>>, <<770,20>>, <<780,1>>, <<790,23>>,
        <<800,17>>, <<810,9>>, <<820,22>>, <<830,16>>, <<840,19>>, <<850,18>>, <<860,21>>,
        <<870,12>>})

Busan ==
    Districts("26", "6", {
        <<110,15>>, <<140,11>>, <<170,5>>, <<200,14>>, <<230,7>>, <<260,6>>, <<290,4>>,
        <<320,8>>, <<350,16>>, <<380,10>>, <<410,2>>, <<440,1>>, <<470,13>>, <<500,12>>,
        <<530,9>>, <<710,3>>})

Daegu ==
    Districts("27", "4", {
        <<110,8>>, <<140,4>>, <<170,6>>, <<200,1>>, <<230,5>>, <<260,7>>, <<290,2>>, <<710,3>>,
        <<720,9>>})

Incheon ==
    Districts("28", "2", {
        <<125,125>>, <<155,155>>, <<177,3>>, <<185,8>>, <<200,4>>, <<237,6>>, <<245,2>>,
        <<275,275>>, <<290,290>>, <<710,1>>, <<720,9>>})

Daejeon ==
    Districts("30", "3", {
        <<110,2>>, <<140,5>>, <<170,3>>, <<200,4>>, <<230,1>>})

Ulsan ==
    Districts("31", "7", {
        <<110,1>>, <<140,2>>, <<170,3>>, <<200,4>>, <<710,5>>})

Sejong == {[code |-> <<"36", "110">>, legacy |-> [area |-> "8", sigungu |-> None]]}

Gyeonggi ==
    Districts("41", "31", {
        <<111,13>>, <<113,13>>, <<115,13>>, <<117,13>>, <<131,12>>, <<133,12>>, <<135,12>>,
        <<150,25>>, <<171,17>>, <<173,17>>, <<192,11>>, <<194,11>>, <<196,11>>, <<210,4>>,
        <<220,28>>, <<250,10>>, <<271,15>>, <<273,15>>, <<281,2>>, <<285,2>>, <<287,2>>,
        <<290,3>>, <<310,6>>, <<360,9>>, <<370,22>>, <<390,14>>, <<410,7>>, <<430,24>>,
        <<450,30>>, <<461,23>>, <<463,23>>, <<465,23>>, <<480,27>>, <<500,26>>, <<550,16>>,
        <<570,8>>, <<591,31>>, <<593,31>>, <<595,31>>, <<597,31>>, <<610,5>>, <<630,18>>,
        <<650,29>>, <<670,20>>, <<800,21>>, <<820,1>>, <<830,19>>})

Chungbuk ==
    Districts("43", "33", {
        <<111,10>>, <<112,10>>, <<113,10>>, <<114,10>>, <<130,11>>, <<150,7>>, <<720,3>>,
        <<730,5>>, <<740,4>>, <<745,12>>, <<750,8>>, <<760,1>>, <<770,6>>, <<800,2>>})

Chungnam ==
    Districts("44", "34", {
        <<131,12>>, <<133,12>>, <<150,1>>, <<180,5>>, <<200,9>>, <<210,7>>, <<230,3>>,
        <<250,16>>, <<270,4>>, <<710,2>>, <<760,6>>, <<770,8>>, <<790,13>>, <<800,15>>,
        <<810,11>>, <<825,14>>})

Gyeongbuk ==
    Districts("47", "35", {
        <<111,23>>, <<113,23>>, <<130,2>>, <<150,6>>, <<170,11>>, <<190,4>>, <<210,14>>,
        <<230,15>>, <<250,9>>, <<280,7>>, <<290,1>>, <<730,19>>, <<750,21>>, <<760,13>>,
        <<770,12>>, <<820,20>>, <<830,3>>, <<840,10>>, <<850,22>>, <<900,16>>, <<920,8>>,
        <<930,18>>, <<940,17>>})

Gyeongnam ==
    Districts("48", "36", {
        <<121,16>>, <<123,16>>, <<125,16>>, <<127,16>>, <<129,16>>, <<170,13>>, <<220,17>>,
        <<240,8>>, <<250,4>>, <<270,7>>, <<310,1>>, <<330,10>>, <<720,12>>, <<730,19>>,
        <<740,15>>, <<820,3>>, <<840,5>>, <<850,18>>, <<860,9>>, <<870,20>>, <<880,2>>,
        <<890,21>>})

Jeju ==
    Districts("50", "39", {
        <<110,4>>, <<130,3>>})

Gangwon ==
    Districts("51", "32", {
        <<110,13>>, <<130,9>>, <<150,1>>, <<170,3>>, <<190,14>>, <<210,5>>, <<230,4>>,
        <<720,16>>, <<730,18>>, <<750,8>>, <<760,15>>, <<770,11>>, <<780,12>>, <<790,17>>,
        <<800,6>>, <<810,10>>, <<820,2>>, <<830,7>>})

Jeonbuk ==
    Districts("52", "37", {
        <<111,12>>, <<113,12>>, <<130,2>>, <<140,9>>, <<180,13>>, <<190,4>>, <<210,3>>,
        <<710,8>>, <<720,14>>, <<730,5>>, <<740,11>>, <<750,10>>, <<770,7>>, <<790,1>>,
        <<800,6>>})

Entries ==
    UNION {Seoul, GwangjuJeonnam, Busan, Daegu, Incheon, Daejeon, Ulsan, Sejong, Gyeonggi, Chungbuk,
           Chungnam, Gyeongbuk, Gyeongnam, Jeju, Gangwon, Jeonbuk}

administrativeCodeToLegacy ==
    [code \in {e.code : e \in Entries} |-> (CHOOSE e \in Entries : e.code = code).legacy]

\* Legal area 12 is shared by Gwangju and Jeonnam and has no legacy area.
legalAreaCodeToLegacy ==
    "11" :> "1" @@ "26" :> "6" @@ "27" :> "4" @@ "28" :> "2" @@ "30" :> "3" @@ "31" :> "7"
        @@ "36" :> "8" @@ "41" :> "31" @@ "43" :> "33" @@ "44" :> "34" @@ "47" :> "35"
        @@ "48" :> "36" @@ "50" :> "39" @@ "51" :> "32" @@ "52" :> "37"

legacyAreaCodeToLegal ==
    "1" :> "11" @@ "2" :> "28" @@ "3" :> "30" @@ "31" :> "41" @@ "32" :> "51" @@ "33" :> "43"
        @@ "34" :> "44" @@ "35" :> "47" @@ "36" :> "48" @@ "37" :> "52" @@ "38" :> "12"
        @@ "39" :> "50" @@ "4" :> "27" @@ "5" :> "12" @@ "6" :> "26" @@ "7" :> "31" @@ "8" :> "36"

SharesLegalArea(area) ==
    \E other \in DOMAIN legacyAreaCodeToLegal \ {area} :
        legacyAreaCodeToLegal[other] = legacyAreaCodeToLegal[area]

\* The three parts of the table agree: every district has one entry, the legal
\* area under which its legacy area is asked for is its own, and a legal area
\* has a legacy area exactly when it is that of one area only; None is no code.
ASSUME RegionCodesAgree ==
    /\ Entries \subseteq [code : STRING \X STRING,
                         legacy : [area : STRING, sigungu : STRING \cup {None}]]
    /\ Cardinality(Entries) = Cardinality(DOMAIN administrativeCodeToLegacy)
    /\ \A e \in Entries :
          /\ e.legacy.area \in DOMAIN legacyAreaCodeToLegal
          /\ legacyAreaCodeToLegal[e.legacy.area] = e.code[1]
    /\ \A area \in DOMAIN legacyAreaCodeToLegal :
          LET legal == legacyAreaCodeToLegal[area]
          IN  IF SharesLegalArea(area)
              THEN area \in {"5", "38"} /\ legal \notin DOMAIN legalAreaCodeToLegacy
              ELSE legalAreaCodeToLegacy[legal] = area
    /\ None \notin DOMAIN legacyAreaCodeToLegal \cup {e.code[2] : e \in Entries}

=============================================================================
