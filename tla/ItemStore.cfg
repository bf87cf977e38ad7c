SPECIFICATION StoreSpec
CONSTANTS
    k1 = k1
    k2 = k2
    k3 = k3
    Keys = {k1, k2}
    Albums = {"a", "b"}
    MaxItemFailures = 1
    Sha <- MCSha
    Name <- MCName
    Size <- MCSize
    Photo <- MCPhoto
CONSTRAINT FewPageVisits
INVARIANTS StoreTypeOK RowsAgree NeverLostInSilence
PROPERTY FileRecordsSurvive
