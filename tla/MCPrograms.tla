------------------------------ MODULE MCPrograms ------------------------------
EXTENDS DdsBus, CppPrograms

CEnds  == IntegrationEnds @@ ExampleEnds
CStart == IntegrationStart @@ ExampleStart
CppNames == DOMAIN CppCode

AllEnds  == CEnds @@ [s \in CppNames |-> CEnds[CppPortOf[s]]]
AllCode  == IntegrationCode @@ ExampleCode @@ CppCode
AllStart == CStart @@ [s \in CppNames |-> CStart[CppPortOf[s]]]
AllUnwinds == [s \in DOMAIN AllCode |-> IF s \in CppNames THEN CppSides(s) ELSE {}]
===============================================================================
