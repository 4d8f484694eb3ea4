------------------------------ MODULE MCGoroutines ------------------------------
EXTENDS Goroutines
Everything == DOMAIN AllPrograms
================================================================================
