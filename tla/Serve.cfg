SPECIFICATION Spec
PROPERTIES
    InboxIsWhole WorkloadsConverge ReleasesSettle MakersWatched NothingPassedOver
\* A loop may have nothing left to do.
CHECK_DEADLOCK FALSE
