------------------------------ MODULE PvbWindow ------------------------------
(***************************************************************************)
(* The hundred buttons of the enemy's board in src/BattleshipGui's          *)
(* PvbWindow.  Each has a handler of its own, the same but for the button   *)
(* that is painted when the bomb hits: the one that was pressed, for the    *)
(* first seven and for those from (7,7) on except (9,9); else e_1_1, and    *)
(* e_9_8 for (9,9).                                                         *)
(***************************************************************************)
EXTENDS Gui

\* The window has ten rows of ten buttons.
ASSUME TenByTen == Side = 10

\* on_pushButton_e_<row>_<column>_released, named by row and column.
e_1_1_released == Released(<<1, 1>>)
e_1_2_released == Released(<<1, 2>>)
e_1_3_released == Released(<<1, 3>>)
e_1_4_released == Released(<<1, 4>>)
e_1_5_released == Released(<<1, 5>>)
e_1_6_released == Released(<<1, 6>>)
e_1_7_released == Released(<<1, 7>>)
e_1_8_released == Released(<<1, 1>>)
e_1_9_released == Released(<<1, 1>>)
e_1_10_released == Released(<<1, 1>>)
e_2_1_released == Released(<<1, 1>>)
e_2_2_released == Released(<<1, 1>>)
e_2_3_released == Released(<<1, 1>>)
e_2_4_released == Released(<<1, 1>>)
e_2_5_released == Released(<<1, 1>>)
e_2_6_released == Released(<<1, 1>>)
e_2_7_released == Released(<<1, 1>>)
e_2_8_released == Released(<<1, 1>>)
e_2_9_released == Released(<<1, 1>>)
e_2_10_released == Released(<<1, 1>>)
e_3_1_released == Released(<<1, 1>>)
e_3_2_released == Released(<<1, 1>>)
e_3_3_released == Released(<<1, 1>>)
e_3_4_released == Released(<<1, 1>>)
e_3_5_released == Released(<<1, 1>>)
e_3_6_released == Released(<<1, 1>>)
e_3_7_released == Released(<<1, 1>>)
e_3_8_released == Released(<<1, 1>>)
e_3_9_released == Released(<<1, 1>>)
e_3_10_released == Released(<<1, 1>>)
e_4_1_released == Released(<<1, 1>>)
e_4_2_released == Released(<<1, 1>>)
e_4_3_released == Released(<<1, 1>>)
e_4_4_released == Released(<<1, 1>>)
e_4_5_released == Released(<<1, 1>>)
e_4_6_released == Released(<<1, 1>>)
e_4_7_released == Released(<<1, 1>>)
e_4_8_released == Released(<<1, 1>>)
e_4_9_released == Released(<<1, 1>>)
e_4_10_released == Released(<<1, 1>>)
e_5_1_released == Released(<<1, 1>>)
e_5_2_released == Released(<<1, 1>>)
e_5_3_released == Released(<<1, 1>>)
e_5_4_released == Released(<<1, 1>>)
e_5_5_released == Released(<<1, 1>>)
e_5_6_released == Released(<<1, 1>>)
e_5_7_released == Released(<<1, 1>>)
e_5_8_released == Released(<<1, 1>>)
e_5_9_released == Released(<<1, 1>>)
e_5_10_released == Released(<<1, 1>>)
e_6_1_released == Released(<<1, 1>>)
e_6_2_released == Released(<<1, 1>>)
e_6_3_released == Released(<<1, 1>>)
e_6_4_released == Released(<<1, 1>>)
e_6_5_released == Released(<<1, 1>>)
e_6_6_released == Released(<<1, 1>>)
e_6_7_released == Released(<<1, 1>>)
e_6_8_released == Released(<<1, 1>>)
e_6_9_released == Released(<<1, 1>>)
e_6_10_released == Released(<<1, 1>>)
e_7_1_released == Released(<<1, 1>>)
e_7_2_released == Released(<<1, 1>>)
e_7_3_released == Released(<<1, 1>>)
e_7_4_released == Released(<<1, 1>>)
e_7_5_released == Released(<<1, 1>>)
e_7_6_released == Released(<<1, 1>>)
e_7_7_released == Released(<<7, 7>>)
e_7_8_released == Released(<<7, 8>>)
e_7_9_released == Released(<<7, 9>>)
e_7_10_released == Released(<<7, 10>>)
e_8_1_released == Released(<<8, 1>>)
e_8_2_released == Released(<<8, 2>>)
e_8_3_released == Released(<<8, 3>>)
e_8_4_released == Released(<<8, 4>>)
e_8_5_released == Released(<<8, 5>>)
e_8_6_released == Released(<<8, 6>>)
e_8_7_released == Released(<<8, 7>>)
e_8_8_released == Released(<<8, 8>>)
e_8_9_released == Released(<<8, 9>>)
e_8_10_released == Released(<<8, 10>>)
e_9_1_released == Released(<<9, 1>>)
e_9_2_released == Released(<<9, 2>>)
e_9_3_released == Released(<<9, 3>>)
e_9_4_released == Released(<<9, 4>>)
e_9_5_released == Released(<<9, 5>>)
e_9_6_released == Released(<<9, 6>>)
e_9_7_released == Released(<<9, 7>>)
e_9_8_released == Released(<<9, 8>>)
e_9_9_released == Released(<<9, 8>>)
e_9_10_released == Released(<<9, 10>>)
e_10_1_released == Released(<<10, 1>>)
e_10_2_released == Released(<<10, 2>>)
e_10_3_released == Released(<<10, 3>>)
e_10_4_released == Released(<<10, 4>>)
e_10_5_released == Released(<<10, 5>>)
e_10_6_released == Released(<<10, 6>>)
e_10_7_released == Released(<<10, 7>>)
e_10_8_released == Released(<<10, 8>>)
e_10_9_released == Released(<<10, 9>>)
e_10_10_released == Released(<<10, 10>>)

Row1 ==
    \/ e_1_1_released \/ e_1_2_released \/ e_1_3_released \/ e_1_4_released \/ e_1_5_released
    \/ e_1_6_released \/ e_1_7_released \/ e_1_8_released \/ e_1_9_released \/ e_1_10_released
Row2 ==
    \/ e_2_1_released \/ e_2_2_released \/ e_2_3_released \/ e_2_4_released \/ e_2_5_released
    \/ e_2_6_released \/ e_2_7_released \/ e_2_8_released \/ e_2_9_released \/ e_2_10_released
Row3 ==
    \/ e_3_1_released \/ e_3_2_released \/ e_3_3_released \/ e_3_4_released \/ e_3_5_released
    \/ e_3_6_released \/ e_3_7_released \/ e_3_8_released \/ e_3_9_released \/ e_3_10_released
Row4 ==
    \/ e_4_1_released \/ e_4_2_released \/ e_4_3_released \/ e_4_4_released \/ e_4_5_released
    \/ e_4_6_released \/ e_4_7_released \/ e_4_8_released \/ e_4_9_released \/ e_4_10_released
Row5 ==
    \/ e_5_1_released \/ e_5_2_released \/ e_5_3_released \/ e_5_4_released \/ e_5_5_released
    \/ e_5_6_released \/ e_5_7_released \/ e_5_8_released \/ e_5_9_released \/ e_5_10_released
Row6 ==
    \/ e_6_1_released \/ e_6_2_released \/ e_6_3_released \/ e_6_4_released \/ e_6_5_released
    \/ e_6_6_released \/ e_6_7_released \/ e_6_8_released \/ e_6_9_released \/ e_6_10_released
Row7 ==
    \/ e_7_1_released \/ e_7_2_released \/ e_7_3_released \/ e_7_4_released \/ e_7_5_released
    \/ e_7_6_released \/ e_7_7_released \/ e_7_8_released \/ e_7_9_released \/ e_7_10_released
Row8 ==
    \/ e_8_1_released \/ e_8_2_released \/ e_8_3_released \/ e_8_4_released \/ e_8_5_released
    \/ e_8_6_released \/ e_8_7_released \/ e_8_8_released \/ e_8_9_released \/ e_8_10_released
Row9 ==
    \/ e_9_1_released \/ e_9_2_released \/ e_9_3_released \/ e_9_4_released \/ e_9_5_released
    \/ e_9_6_released \/ e_9_7_released \/ e_9_8_released \/ e_9_9_released \/ e_9_10_released
Row10 ==
    \/ e_10_1_released \/ e_10_2_released \/ e_10_3_released \/ e_10_4_released \/ e_10_5_released
    \/ e_10_6_released \/ e_10_7_released \/ e_10_8_released \/ e_10_9_released \/ e_10_10_released

on_pushButton_released ==
    Row1 \/ Row2 \/ Row3 \/ Row4 \/ Row5 \/ Row6 \/ Row7 \/ Row8 \/ Row9 \/ Row10

Next ==
    \/ on_pvpButton_clicked \/ on_pvbButton_clicked
    \/ Submit \/ AddNext \/ Refuse \/ OpenPvp \/ OpenPvb
    \/ on_pushButton_released
    \/ Idle

Spec == Init /\ [][Next]_vars
=============================================================================
