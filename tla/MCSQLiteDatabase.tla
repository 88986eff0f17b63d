------------------------- MODULE MCSQLiteDatabase -------------------------
\* Instances of SQLiteDatabase for TLC.
EXTENDS SQLiteDatabase, TLC

=============================================================================
