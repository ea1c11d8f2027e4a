--------------------------- MODULE HookInventory ---------------------------
(***************************************************************************)
(* BuildHookInventorySkeleton (common/hook_inventory.cpp): the address,    *)
(* the patch_span and the expected_prologue of each hook.                  *)
(***************************************************************************)
EXTENDS Integers

Inventory ==
  [
   process_ui_event |-> <<4266240, 8,
     <<100, 161, 0, 0, 0, 0, 106, 255, 104, 114, 134, 129, 0, 80, 139, 68>>>>,
   handle_ui_message |-> <<4976864, 8,
     <<86, 139, 241, 87, 139, 124, 36, 16, 139, 142, 152, 1, 0, 0, 198, 134>>>>,
   ui_frame_manager_set_cursor |-> <<4963184, 7,
     <<106, 255, 104, 56, 52, 130, 0, 100, 161, 0, 0, 0, 0, 80, 100, 137>>>>,
   simulate_key_press_and_release |-> <<4980080, 6,
     <<86, 87, 139, 124, 36, 12, 139, 241, 106, 0, 87, 139, 142, 152, 1, 0>>>>,
   process_inputs |-> <<4227248, 7,
     <<86, 87, 232, 169, 255, 255, 255, 139, 200, 232, 82, 248, 255, 255, 139, 61>>>>,
   update_input_device_state |-> <<4225296, 5,
     <<131, 236, 8, 83, 85, 86, 139, 241, 87, 139, 134, 112, 24, 0, 0, 133>>>>,
   initialize_direct_input |-> <<4224576, 5,
     <<139, 68, 36, 4, 85, 86, 139, 241, 106, 0, 86, 104, 24, 208, 134, 0>>>>,
   player_control_update |-> <<4355680, 6,
     <<86, 139, 241, 139, 70, 20, 199, 70, 16, 0, 0, 0, 0, 133, 192, 116>>>>,
   main_camera_tail_follow_update |-> <<4342848, 8,
     <<81, 139, 84, 36, 12, 139, 65, 20, 83, 86, 141, 113, 20, 87, 139, 124>>>>,
   flush_main_camera_tail_yaw |-> <<4341744, 7,
     <<131, 236, 12, 86, 87, 139, 249, 139, 71, 4, 133, 192, 15, 132, 173, 0>>>>,
   set_camera_mode_script |-> <<6014544, 6,
     <<86, 139, 116, 36, 8, 87, 106, 1, 86, 232, 242, 236, 255, 255, 131, 196>>>>,
   gi_talk |-> <<6159120, 8,
     <<100, 161, 0, 0, 0, 0, 106, 255, 104, 179, 40, 131, 0, 80, 100, 137>>>>,
   cegui_renderer_constructor_2 |-> <<4273536, 8,
     <<86, 139, 241, 232, 232, 252, 255, 255, 199, 6, 64, 31, 132, 0, 199, 134>>>>,
   cegui_system_initialize |-> <<4260944, 13,
     <<106, 255, 104, 49, 134, 129, 0, 100, 161, 0, 0, 0, 0, 80, 100, 137>>>>,
   load_font_file |-> <<4969392, 7,
     <<106, 255, 104, 153, 55, 130, 0, 100, 161, 0, 0, 0, 0, 80, 100, 137>>>>,
   setup_minimap_texture |-> <<4251152, 8,
     <<100, 161, 0, 0, 0, 0, 106, 255, 104, 182, 132, 129, 0, 80, 100, 137>>>>,
   combat_console_set_image_position |-> <<4990288, 8,
     <<139, 68, 36, 4, 139, 84, 36, 8, 137, 65, 28, 137, 81, 32, 194, 8>>>>,
   combat_console_set_image_position_2 |-> <<5546480, 7,
     <<106, 255, 104, 247, 165, 130, 0, 100, 161, 0, 0, 0, 0, 80, 100, 137>>>>,
   ui_show_combat_result |-> <<5548384, 7,
     <<106, 255, 104, 119, 166, 130, 0, 100, 161, 0, 0, 0, 0, 80, 100, 137>>>>,
   render_text_and_image |-> <<4990624, 13,
     <<100, 161, 0, 0, 0, 0, 106, 255, 104, 163, 60, 130, 0, 80, 100, 137>>>>,
   camera_prepare |-> <<6178400, 7,
     <<86, 87, 232, 121, 103, 0, 0, 139, 200, 232, 162, 115, 0, 0, 141, 72>>>>,
   camera_run_single |-> <<6178480, 8,
     <<100, 161, 0, 0, 0, 0, 106, 255, 104, 67, 46, 131, 0, 80, 139, 68>>>>,
   camera_update_matrix |-> <<6201744, 7,
     <<131, 236, 12, 83, 86, 139, 241, 51, 219, 57, 30, 15, 132, 158, 1, 0>>>>,
   d3d9_set_present_parameters |-> <<7730960, 10,
     <<138, 68, 36, 8, 131, 236, 16, 83, 86, 87, 187, 1, 0, 0, 0, 51>>>>,
   gi_play_movie |-> <<6186656, 8,
     <<100, 161, 0, 0, 0, 0, 106, 255, 104, 99, 49, 131, 0, 80, 100, 137>>>>,
   audio_system_play_music |-> <<6655632, 7,
     <<106, 255, 104, 187, 140, 131, 0, 100, 161, 0, 0, 0, 0, 80, 100, 137>>>>,
   bink_player_open_video |-> <<6670352, 8,
     <<86, 139, 241, 232, 8, 2, 0, 0, 138, 68, 36, 16, 132, 192, 116, 12>>>>,
   bink_player_update_and_render |-> <<6672752, 7,
     <<86, 87, 139, 249, 128, 63, 0, 116, 99, 141, 71, 4, 80, 232, 190, 248>>>>,
   combat_handle_action |-> <<5751984, 5,
     <<81, 83, 85, 86, 87, 139, 124, 36, 24>>>>,
   combat_create_stunt_action |-> <<5664016, 8,
     <<100, 161, 0, 0, 0, 0, 106, 255, 104, 236, 197, 130, 0, 80, 139, 68>>>>,
   combat_execute_stunt |-> <<5618144, 7,
     <<106, 255, 104, 216, 184, 130, 0, 100, 161, 0, 0, 0, 0, 80, 100, 137>>>>,
   combat_skill_damage |-> <<5756192, 5,
     <<131, 236, 8, 83, 86, 87, 139, 124, 36, 28>>>>,
   combat_system_end |-> <<5725904, 5,
     <<86, 139, 116, 36, 8, 51, 192, 139, 206>>>>,
   crt_runtime_message |-> <<7621269, 9,
     <<85, 139, 236, 129, 236, 164, 1, 0, 0>>>>,
   crt_message_box |-> <<7638224, 9,
     <<83, 51, 219, 57, 29, 188, 5, 149, 0>>>>,
   loose_file_overlay |-> <<6744096, 7,
     <<129, 236, 0, 1, 0, 0, 86, 139, 241, 139, 6, 133, 192, 116, 46, 139>>>>,
   loose_text_script_overlay |-> <<8261024, 5,
     <<139, 68, 36, 4, 86, 133, 192, 87, 139, 241, 117, 7, 95, 50, 192, 94>>>>,
   handle_player_input_events |-> <<4359088, 9,
     <<131, 236, 24, 83, 85, 139, 108, 36, 36, 86, 139, 241, 87, 139, 124, 36>>>>,
   movement_collision_check |-> <<6289024, 7,
     <<131, 236, 88, 139, 68, 36, 92, 85, 51, 237, 137, 76, 36, 4>>>>]
=============================================================================
